--------------------------- MODULE SourceMapsProofs ---------------------------
(***************************************************************************)
(* That uploads keep the files they name, that a published release stays   *)
(* published, that no verdict is turned over and that no event misses maps *)
(* that exist, for every number of manifests, jobs, validators and events. *)
(*                                                                         *)
(* The files hold because of what a begin in flight plans under the lock   *)
(* (PlanInv) and what a put still finds when it writes (PutInv).  Most     *)
(* steps leave every row its id and its artifacts (SameRow) or take rows   *)
(* away; what they keep is shown once.                                     *)
(***************************************************************************)
EXTENDS SourceMaps, TLAPS

FileNames == Nat \X Contents
Arts == [file : FileNames, uploaded : BOOLEAN]
ArtMaps == UNION {[S -> Arts] : S \in SUBSET Contents}
UploadStates == {"receiving", "pending", "validating", "ready", "failed"}
Submitted == {"pending", "validating", "ready"}

UploadRows ==
    [id : Nat, status : UploadStates, attempts : Nat, owner : Validators \cup {None},
     leased : BOOLEAN, art : ArtMaps]
ReleaseRows ==
    [state : {"missing", "pending", "ready", "failed", "removed"}, version : Nat]
Resets == [op : {"reset"}, m : Manifests, id : Nat, missing : SUBSET Contents]
Creates == [op : {"create"}, m : Manifests, id : Nat, art : ArtMaps]
Puts == [op : {"put", "wrote"}, m : Manifests, id : Nat, content : Contents, file : FileNames]
Jobs == [m : Manifests, attempts : Nat, art : SUBSET Arts, valid : BOOLEAN \cup {None}]
Passes == [op : {"count", "mark"}, rel : Releases]
EventRows ==
    [phase : {"queued", "stored"}, seen : Nat, state : {"missing", "failed", "complete"},
     reading : Nat \cup {None}]

\* The transactions in flight.
Creating(c) == client[c] # None /\ client[c].op = "create"
Resetting(c) == client[c] # None /\ client[c].op = "reset"
Putting(c) == client[c] # None /\ client[c].op \in {"put", "wrote"}

RowTypes ==
    /\ upload \in [Manifests -> UploadRows \cup {None}]
    /\ \A m \in Manifests : upload[m] # None => upload[m].art \in [ArtifactsOf[m] -> Arts]

ClientTypes ==
    /\ client \in [Clients -> Resets \cup Creates \cup Puts \cup {None}]
    /\ \A c \in Clients :
        /\ Creating(c) => client[c].art \in [ArtifactsOf[client[c].m] -> Arts]
        /\ Putting(c) => client[c].content \in ArtifactsOf[client[c].m]

Types ==
    /\ RowTypes
    /\ ClientTypes
    /\ rel \in [Releases -> ReleaseRows \cup {None}]
    /\ job \in [Validators -> Jobs \cup {None}]
    /\ pass \in Passes \cup {None}
    /\ event \in [Events -> EventRows \cup {None}]
    /\ begins \in Nat

\* Who begins an upload holds the lock.
LockInv == \A c \in Clients : Creating(c) \/ Resetting(c) => lock = c

\* An id is given once: to no row and to no put before its own begin commits.
FreshInv ==
    /\ \A m \in Manifests : upload[m] # None => upload[m].id <= begins
    /\ \A c \in Clients : client[c] # None => client[c].id <= begins
    /\ \A c \in Clients : Creating(c) =>
        /\ \A m \in Manifests : upload[m] # None => upload[m].id # client[c].id
        /\ \A d \in Clients : Putting(d) => client[d].id # client[c].id

\* Files that are there, or that the volume lost.
Kept == files \cup lost

\* Rows agree about a place, and what was uploaded is kept.
RowsInv ==
    /\ \A m, n \in Manifests : upload[m] # None /\ upload[n] # None =>
        \A x \in ArtifactsOf[m], y \in ArtifactsOf[n] :
            PlaceOf[x] = PlaceOf[y] => x = y /\ upload[m].art[x].file = upload[n].art[y].file
    /\ \A m \in Manifests : upload[m] # None =>
        \A x \in ArtifactsOf[m] :
            /\ upload[m].art[x].uploaded => upload[m].art[x].file \in Kept
            /\ upload[m].status \in Submitted => upload[m].art[x].uploaded

\* A begin in flight agrees with the rows and counts on files that are kept.
PlanInv ==
    \A c \in Clients : Creating(c) =>
        \A x \in ArtifactsOf[client[c].m] :
            /\ client[c].art[x].uploaded => client[c].art[x].file \in Kept
            /\ \A n \in Manifests : upload[n] # None =>
                \A y \in ArtifactsOf[n] :
                    PlaceOf[x] = PlaceOf[y] =>
                        x = y /\ client[c].art[x].file = upload[n].art[y].file

\* A put writes the file its row names, if the row is still the one it found.
PutInv ==
    \A c \in Clients : Putting(c) =>
        LET p == client[c] IN
        upload[p.m] # None /\ upload[p.m].id = p.id =>
            /\ p.file = upload[p.m].art[p.content].file
            /\ p.op = "wrote" => p.file \in Kept

UploadInv == LockInv /\ FreshInv /\ RowsInv /\ PlanInv /\ PutInv

\* PublishedWithRelease, with the rows named one by one.
ReleaseInv ==
    \A m \in Manifests : upload[m] # None =>
        LET x == rel[ReleaseOf[m]] IN
        /\ x # None
        /\ upload[m].status = "ready" => x.version > 0 /\ x.state \in {"ready", "removed"}

\* No event has seen more than its release's version.
EventInv ==
    /\ \A e \in Events : event[e] # None =>
        /\ event[e].seen <= Version(EventRelease[e])
        /\ event[e].reading # None => event[e].reading <= Version(EventRelease[e])
    /\ NoMissedMaps

MapsInv == Types /\ UploadInv /\ ReleaseInv /\ EventInv

-----------------------------------------------------------------------------
(* What a step does to the rows.                                           *)

\* A row keeps its id and its artifacts and gets the status s.
Follows(m, s) ==
    /\ upload[m] # None
    /\ upload' = [upload EXCEPT ![m] = upload'[m]]
    /\ upload'[m] \in UploadRows
    /\ upload'[m].id = upload[m].id
    /\ upload'[m].art = upload[m].art
    /\ upload'[m].status = s

\* No row but those that are there, as they are but for their status.
SameRow(m) ==
    upload'[m] # None =>
        /\ upload[m] # None
        /\ upload'[m].id = upload[m].id
        /\ upload'[m].art = upload[m].art
        /\ upload'[m].status \in Submitted =>
              upload[m].status \in Submitted
                \/ \A x \in ArtifactsOf[m] : upload[m].art[x].uploaded

\* A step that replaces one row by another row.
LEMMA RowReplaced ==
    ASSUME Types, NEW m \in Manifests, upload[m] # None,
           NEW row \in UploadRows, row.id = upload[m].id, row.art = upload[m].art,
           upload' = [upload EXCEPT ![m] = row]
    PROVE  Follows(m, row.status)
<1>1. upload \in [Manifests -> UploadRows \cup {None}]
  BY DEF Types, RowTypes
<1>2. upload'[m] = row
  BY <1>1
<1> QED
  BY <1>1, <1>2 DEF Follows

LEMMA FinishRow ==
    ASSUME Types, NEW m \in Manifests, FinishUpload(m)
    PROVE  /\ Follows(m, "pending")
           /\ upload[m].status = "receiving"
           /\ \A x \in ArtifactsOf[m] : upload[m].art[x].uploaded
<1> DEFINE row == [upload[m] EXCEPT !.status = "pending"]
<1>1. upload[m] \in UploadRows /\ upload[m] # None
  BY DEF Types, RowTypes, FinishUpload
<1>2. upload' = [upload EXCEPT ![m] = row]
  BY DEF FinishUpload
<1>3. /\ row \in UploadRows
      /\ row.id = upload[m].id /\ row.art = upload[m].art /\ row.status = "pending"
  BY <1>1 DEF UploadRows, UploadStates
<1>5. Follows(m, "pending")
  <2> HIDE DEF row
  <2> QED
    BY <1>1, <1>2, <1>3, RowReplaced
<1>4. \A x \in ArtifactsOf[m] : upload[m].art[x].uploaded
  BY Zenon DEF FinishUpload, Complete, Artifacts
<1> QED
  BY <1>4, <1>5 DEF FinishUpload

LEMMA ClaimRow ==
    ASSUME Types, NEW v \in Validators, NEW m \in Manifests, ClaimUpload(v, m)
    PROVE  /\ Follows(m, "validating")
           /\ upload[m].status \in {"pending", "validating"}
<1> DEFINE next == upload[m].attempts + 1
           row == [upload[m] EXCEPT
                      !.status = "validating", !.attempts = next, !.owner = v, !.leased = TRUE]
<1>1. upload[m] \in UploadRows /\ upload[m] # None
  BY DEF Types, RowTypes, ClaimUpload
<1>2. upload' = [upload EXCEPT ![m] = row]
  BY DEF ClaimUpload
<1>5. next \in Nat
  BY <1>1 DEF UploadRows
<1>3. /\ row \in UploadRows
      /\ row.id = upload[m].id /\ row.art = upload[m].art /\ row.status = "validating"
  <2> HIDE DEF next
  <2> QED
    BY <1>1, <1>5 DEF UploadRows, UploadStates
<1>4. Follows(m, "validating")
  <2> HIDE DEF row
  <2> QED
    BY <1>1, <1>2, <1>3, RowReplaced
<1> QED
  BY <1>4 DEF ClaimUpload

LEMMA LeaseRow ==
    ASSUME Types, NEW m \in Manifests, upload[m] # None, NEW l \in BOOLEAN,
           upload' = [upload EXCEPT ![m].leased = l]
    PROVE  Follows(m, upload[m].status)
<1> DEFINE row == [upload[m] EXCEPT !.leased = l]
<1>1. upload[m] \in UploadRows
  BY DEF Types, RowTypes
<1>2. /\ row \in UploadRows
      /\ row.id = upload[m].id /\ row.art = upload[m].art /\ row.status = upload[m].status
  BY <1>1 DEF UploadRows, UploadStates
<1>3. upload' = [upload EXCEPT ![m] = row]
  OBVIOUS
<1> HIDE DEF row
<1> QED
  BY <1>2, <1>3, RowReplaced

LEMMA CheckRow ==
    ASSUME Types, NEW v \in Validators, CheckUpload(v)
    PROVE  \/ UNCHANGED upload
           \/ job[v].m \in Manifests /\ Follows(job[v].m, upload[job[v].m].status)
<1>1. job[v] # None /\ job[v].m \in Manifests
  BY DEF Types, Jobs, CheckUpload
<1>2. CASE UNCHANGED upload
  BY <1>2
<1>3. CASE Owns(v) /\ upload' = [upload EXCEPT ![job[v].m].leased = TRUE]
  BY <1>1, <1>3, LeaseRow DEF Owns
<1> QED
  BY <1>2, <1>3 DEF CheckUpload

LEMMA HeartbeatRow ==
    ASSUME Types, NEW v \in Validators, Heartbeat(v)
    PROVE  job[v].m \in Manifests /\ Follows(job[v].m, upload[job[v].m].status)
<1>1. job[v] # None /\ job[v].m \in Manifests /\ upload[job[v].m] # None
  BY DEF Types, Jobs, Heartbeat, Owns
<1> QED
  BY <1>1, LeaseRow DEF Heartbeat

\* A verdict is given on a row that is being validated; the release follows.
LEMMA VerdictRow ==
    ASSUME Types, NEW v \in Validators, Verdict(v), ~UNCHANGED <<upload, rel>>
    PROVE  LET m == job[v].m
               r == ReleaseOf[m] IN
           /\ m \in Manifests
           /\ upload[m].status = "validating"
           /\ \/ /\ Follows(m, "ready")
                 /\ rel[r] # None /\ rel' = [rel EXCEPT ![r] = Published(@)]
              \/ /\ Follows(m, "failed")
                 /\ rel' = [rel EXCEPT ![r] = IF @ = None THEN None ELSE Rejected(@)]
<1> DEFINE m == job[v].m
           r == ReleaseOf[m]
<1>1. job[v] # None /\ m \in Manifests
  BY DEF Types, Jobs, Verdict
<1>2. Owns(v)
  BY DEF Verdict
<1>3. /\ upload[m] # None /\ upload[m].status = "validating"
      /\ upload[m] \in UploadRows
  BY <1>1, <1>2 DEF Owns, Types, RowTypes
<1>4. CASE job[v].valid
  <2> DEFINE row == [upload[m] EXCEPT !.status = "ready", !.owner = None, !.leased = FALSE]
  <2>1. /\ upload' = [upload EXCEPT ![m] = row]
        /\ rel[r] # None /\ rel' = [rel EXCEPT ![r] = Published(@)]
    BY <1>2, <1>4 DEF Verdict
  <2>3. /\ row \in UploadRows
        /\ row.id = upload[m].id /\ row.art = upload[m].art /\ row.status = "ready"
    BY <1>3 DEF UploadRows, UploadStates
  <2>2. Follows(m, "ready")
    <3> HIDE DEF row
    <3> QED
      BY <1>1, <1>3, <2>1, <2>3, RowReplaced
  <2> QED
    BY <1>1, <1>3, <2>1, <2>2
<1>5. CASE ~job[v].valid
  <2> DEFINE row == [upload[m] EXCEPT !.status = "failed", !.owner = None, !.leased = FALSE]
  <2>1. /\ upload' = [upload EXCEPT ![m] = row]
        /\ rel' = [rel EXCEPT ![r] = IF @ = None THEN None ELSE Rejected(@)]
    BY <1>2, <1>5 DEF Verdict
  <2>3. /\ row \in UploadRows
        /\ row.id = upload[m].id /\ row.art = upload[m].art /\ row.status = "failed"
    BY <1>3 DEF UploadRows, UploadStates
  <2>2. Follows(m, "failed")
    <3> HIDE DEF row
    <3> QED
      BY <1>1, <1>3, <2>1, <2>3, RowReplaced
  <2> QED
    BY <1>1, <1>3, <2>1, <2>2
<1> QED
  BY <1>4, <1>5

\* What Follows says of every row.
LEMMA FollowedRows ==
    ASSUME Types, NEW m \in Manifests, NEW s, Follows(m, s)
    PROVE  /\ RowTypes'
           /\ \A n \in Manifests \ {m} : upload'[n] = upload[n]
<1>1. upload' \in [Manifests -> UploadRows \cup {None}]
  BY DEF Types, RowTypes, Follows
<1>2. \A n \in Manifests \ {m} : upload'[n] = upload[n]
  BY DEF Types, RowTypes, Follows
<1>3. \A n \in Manifests : upload'[n] # None => upload'[n].art \in [ArtifactsOf[n] -> Arts]
  BY <1>2 DEF Types, RowTypes, Follows
<1> QED
  BY <1>1, <1>2, <1>3 DEF RowTypes

-----------------------------------------------------------------------------
(* The transactions of the jobs keep the types.                            *)

LEMMA ArtOfRow ==
    ASSUME RowTypes, NEW m \in Manifests, upload[m] # None, NEW x \in ArtifactsOf[m]
    PROVE  /\ upload[m].art[x] \in Arts
           /\ upload[m].art[x].file \in FileNames
           /\ x \in Contents
<1>1. upload[m].art[x] \in Arts
  BY DEF RowTypes
<1>2. x \in Contents
  BY SourceMapsAssumption
<1> QED
  BY <1>1, <1>2 DEF Arts

\* A function on the artifacts of a manifest is an art of a row.
LEMMA ArtMap ==
    ASSUME NEW m \in Manifests, NEW art \in [ArtifactsOf[m] -> Arts]
    PROVE  art \in ArtMaps
<1>1. ArtifactsOf[m] \in SUBSET Contents
  BY SourceMapsAssumption
<1> QED
  BY <1>1, Zenon DEF ArtMaps

\* What a new upload may hold: each artifact has the file of a row that has the
\* content, or one of its own.
LEMMA PreparedArt ==
    ASSUME RowTypes, NEW x \in Contents, NEW n \in Nat, NEW a \in Prepared(x, n)
    PROVE  /\ a \in Arts
           /\ \/ Matches(x) = {} /\ a.file = <<n, x>> /\ ~a.uploaded
              \/ \E m \in Manifests :
                    /\ upload[m] # None /\ x \in ArtifactsOf[m]
                    /\ a.file = upload[m].art[x].file
                    /\ a.uploaded => upload[m].art[x].uploaded /\ a.file \in files
<1>1. CASE Matches(x) = {}
  <2>1. a = [file |-> <<n, x>>, uploaded |-> FALSE]
    BY <1>1 DEF Prepared
  <2>2. <<n, x>> \in FileNames
    BY DEF FileNames
  <2> QED
    BY <1>1, <2>1, <2>2 DEF Arts
<1>2. CASE Matches(x) # {}
  <2>1. PICK b \in Matches(x) :
            a = [file |-> b.file, uploaded |-> b.uploaded /\ b.file \in files]
    BY <1>2 DEF Prepared
  <2>2. PICK m \in Manifests :
            upload[m] # None /\ x \in ArtifactsOf[m] /\ b = upload[m].art[x]
    BY DEF Matches, Rows
  <2>3. b.file \in FileNames
    BY <2>2, ArtOfRow
  <2>4. a \in Arts
    BY <2>1, <2>3 DEF Arts
  <2>5. a.file = b.file /\ (a.uploaded <=> b.uploaded /\ b.file \in files)
    BY <2>1
  <2> QED
    BY <2>2, <2>4, <2>5
<1> QED
  BY <1>1, <1>2

LEMMA BeginNewTypes ==
    ASSUME Types, NEW c \in Clients, NEW m \in Manifests, BeginNew(c, m)
    PROVE  \E plan \in [ArtifactsOf[m] -> Arts] :
              /\ plan \in Plans(m, begins + 1)
              /\ client' = [client EXCEPT ![c] =
                    [op |-> "create", m |-> m, id |-> begins + 1, art |-> plan]]
              /\ ClientTypes'
<1>1. PICK plan \in Plans(m, begins + 1) :
          client' = [client EXCEPT ![c] =
              [op |-> "create", m |-> m, id |-> begins + 1, art |-> plan]]
  BY DEF BeginNew
<1>2. begins + 1 \in Nat
  BY DEF Types
<1>3. ArtifactsOf[m] \subseteq Contents
  BY SourceMapsAssumption
<1>4. \A x \in ArtifactsOf[m] : plan[x] \in Arts
  BY <1>2, <1>3, PreparedArt DEF Plans, Types
<1>5. plan \in [ArtifactsOf[m] -> Arts]
  BY <1>4 DEF Plans
<1> DEFINE new == [op |-> "create", m |-> m, id |-> begins + 1, art |-> plan]
<1>6. new \in Creates
  BY <1>2, <1>5, ArtMap DEF Creates
<1>7. new.op = "create" /\ new.m = m /\ new.art = plan
  OBVIOUS
<1>8. client' = [client EXCEPT ![c] = new]
  BY <1>1
<1>9. ClientTypes'
  <2> HIDE DEF new
  <2>1. client' \in [Clients -> Resets \cup Creates \cup Puts \cup {None}]
    BY <1>6, <1>8 DEF Types, ClientTypes
  <2>2. client'[c] = new /\ \A d \in Clients \ {c} : client'[d] = client[d]
    BY <1>8 DEF Types, ClientTypes
  <2>3. \A d \in Clients \ {c} :
          /\ Creating(d)' => client'[d].art \in [ArtifactsOf[client'[d].m] -> Arts]
          /\ Putting(d)' => client'[d].content \in ArtifactsOf[client'[d].m]
    BY <2>2 DEF Types, ClientTypes, Creating, Putting
  <2>4. /\ client'[c].art \in [ArtifactsOf[client'[c].m] -> Arts]
        /\ ~Putting(c)'
    BY <2>2, <1>5, <1>7 DEF Putting
  <2> QED
    BY <2>1, <2>3, <2>4 DEF ClientTypes
<1> QED
  BY <1>1, <1>5, <1>9

\* A step of one job.
LEMMA ClientReplaced ==
    ASSUME Types, NEW c \in Clients, NEW new \in Resets \cup Creates \cup Puts \cup {None},
           client' = [client EXCEPT ![c] = new],
           new # None /\ new.op = "create" => new.art \in [ArtifactsOf[new.m] -> Arts],
           new # None /\ new.op \in {"put", "wrote"} => new.content \in ArtifactsOf[new.m]
    PROVE  /\ ClientTypes'
           /\ client'[c] = new
           /\ \A d \in Clients \ {c} : client'[d] = client[d]
<1>1. client' \in [Clients -> Resets \cup Creates \cup Puts \cup {None}]
  BY DEF Types, ClientTypes
<1>2. client'[c] = new /\ \A d \in Clients \ {c} : client'[d] = client[d]
  BY DEF Types, ClientTypes
<1>3. \A d \in Clients \ {c} :
        /\ Creating(d)' => client'[d].art \in [ArtifactsOf[client'[d].m] -> Arts]
        /\ Putting(d)' => client'[d].content \in ArtifactsOf[client'[d].m]
  BY <1>2 DEF Types, ClientTypes, Creating, Putting
<1>4. /\ Creating(c)' => client'[c].art \in [ArtifactsOf[client'[c].m] -> Arts]
      /\ Putting(c)' => client'[c].content \in ArtifactsOf[client'[c].m]
  BY <1>2 DEF Creating, Putting
<1> QED
  BY <1>1, <1>2, <1>3, <1>4 DEF ClientTypes

LEMMA ClientEnds ==
    ASSUME Types, NEW c \in Clients, client' = [client EXCEPT ![c] = None]
    PROVE  /\ ClientTypes'
           /\ client'[c] = None
           /\ \A d \in Clients \ {c} : client'[d] = client[d]
BY ClientReplaced

\* The shapes of the transactions.
LEMMA ClientShapes ==
    ASSUME Types, NEW c \in Clients, client[c] # None
    PROVE  /\ client[c].m \in Manifests
           /\ client[c].id \in Nat
           /\ client[c].op \in {"reset", "create", "put", "wrote"}
           /\ client[c].op = "reset" => client[c] \in Resets
           /\ client[c].op = "create" =>
                client[c] \in Creates /\ client[c].art \in [ArtifactsOf[client[c].m] -> Arts]
           /\ client[c].op \in {"put", "wrote"} =>
                client[c] \in Puts /\ client[c].content \in ArtifactsOf[client[c].m]
<1>1. client[c] \in Resets \cup Creates \cup Puts
  BY DEF Types, ClientTypes
<1>2. CASE client[c] \in Resets
  BY <1>2 DEF Resets
<1>3. CASE client[c] \in Creates
  BY <1>3 DEF Creates, Types, ClientTypes, Creating
<1>4. CASE client[c] \in Puts
  BY <1>4 DEF Puts, Types, ClientTypes, Putting
<1> QED
  BY <1>1, <1>2, <1>3, <1>4

LEMMA BeginAgainTypes ==
    ASSUME Types, NEW c \in Clients, NEW m \in Manifests, BeginAgain(c, m)
    PROVE  /\ ClientTypes'
           /\ client'[c] # None => client'[c].op = "reset" /\ client'[c].id = upload[m].id
           /\ \A d \in Clients \ {c} : client'[d] = client[d]
<1> DEFINE new == [op |-> "reset", m |-> m, id |-> upload[m].id, missing |-> Missing(m)]
<1>1. upload[m].id \in Nat
  BY DEF Types, RowTypes, UploadRows, BeginAgain
<1>2. Missing(m) \in SUBSET Contents
  BY SourceMapsAssumption DEF Missing
<1>3. new \in Resets /\ new.op = "reset" /\ new.id = upload[m].id
  BY <1>1, <1>2 DEF Resets
<1>4. client' = [client EXCEPT ![c] = new]
  BY DEF BeginAgain
<1> HIDE DEF new
<1> QED
  BY <1>3, <1>4, ClientReplaced

LEMMA StartPutTypes ==
    ASSUME Types, NEW c \in Clients, NEW m \in Manifests, NEW x \in Contents, StartPut(c, m, x)
    PROVE  /\ ClientTypes'
           /\ client'[c].op = "put" /\ client'[c].m = m /\ client'[c].id = upload[m].id
           /\ client'[c].content = x /\ client'[c].file = upload[m].art[x].file
           /\ \A d \in Clients \ {c} : client'[d] = client[d]
<1> DEFINE new == [op |-> "put", m |-> m, id |-> upload[m].id, content |-> x,
                   file |-> upload[m].art[x].file]
<1>1. upload[m].id \in Nat /\ upload[m].art[x].file \in FileNames /\ x \in ArtifactsOf[m]
  BY ArtOfRow DEF Types, RowTypes, UploadRows, StartPut
<1>2. /\ new \in Puts /\ new.op = "put" /\ new.m = m /\ new.id = upload[m].id
      /\ new.content = x /\ new.file = upload[m].art[x].file
  BY <1>1 DEF Puts
<1>3. client' = [client EXCEPT ![c] = new]
  BY DEF StartPut
<1> HIDE DEF new
<1> QED
  BY <1>1, <1>2, <1>3, ClientReplaced

LEMMA WriteFileTypes ==
    ASSUME Types, NEW c \in Clients, WriteFile(c)
    PROVE  /\ ClientTypes'
           /\ client'[c].op = "wrote" /\ client'[c].m = client[c].m
           /\ client'[c].id = client[c].id /\ client'[c].content = client[c].content
           /\ client'[c].file = client[c].file
           /\ \A d \in Clients \ {c} : client'[d] = client[d]
<1> DEFINE new == [client[c] EXCEPT !.op = "wrote"]
<1>1. client[c] # None /\ client[c].op = "put"
  BY DEF WriteFile
<1>2. client[c] \in Puts /\ client[c].content \in ArtifactsOf[client[c].m]
  BY <1>1, ClientShapes
<1>3. /\ new \in Puts /\ new.op = "wrote" /\ new.m = client[c].m /\ new.id = client[c].id
      /\ new.content = client[c].content /\ new.file = client[c].file
  BY <1>2 DEF Puts
<1>4. client' = [client EXCEPT ![c] = new]
  BY DEF WriteFile
<1> HIDE DEF new
<1> QED
  BY <1>2, <1>3, <1>4, ClientReplaced

-----------------------------------------------------------------------------
(* What a commit does to its row.                                          *)

\* A row keeps its id and its files and gets the status s.
Refits(m, s) ==
    /\ upload[m] # None
    /\ upload' = [upload EXCEPT ![m] = upload'[m]]
    /\ upload'[m] \in UploadRows
    /\ upload'[m].art \in [ArtifactsOf[m] -> Arts]
    /\ upload'[m].id = upload[m].id
    /\ upload'[m].status = s
    /\ \A x \in ArtifactsOf[m] : upload'[m].art[x].file = upload[m].art[x].file

LEMMA CommitResetRow ==
    ASSUME Types, NEW c \in Clients, CommitReset(c)
    PROVE  LET m == client[c].m IN
           \/ UNCHANGED upload
           \/ /\ m \in Manifests
              /\ Refits(m, "receiving")
              /\ \A x \in ArtifactsOf[m] :
                    upload'[m].art[x].uploaded => upload[m].art[x].uploaded
<1> DEFINE b == client[c]
           m == b.m
           art == [x \in ArtifactsOf[m] |->
                      IF x \in b.missing THEN [upload[m].art[x] EXCEPT !.uploaded = FALSE]
                                         ELSE upload[m].art[x]]
           row == [upload[m] EXCEPT !.status = "receiving", !.attempts = 0, !.art = art]
<1>1. b # None /\ m \in Manifests
  BY ClientShapes DEF CommitReset
<1>2. CASE UNCHANGED upload
  BY <1>2
<1>3. CASE upload[m] # None /\ upload' = [upload EXCEPT ![m] = row]
  <2>1. upload[m] \in UploadRows /\ upload[m].art \in [ArtifactsOf[m] -> Arts]
    BY <1>1, <1>3 DEF Types, RowTypes
  <2>2. \A x \in ArtifactsOf[m] :
          /\ art[x] \in Arts
          /\ art[x].file = upload[m].art[x].file
          /\ art[x].uploaded => upload[m].art[x].uploaded
    BY <2>1 DEF Arts
  <2>3. art \in [ArtifactsOf[m] -> Arts]
    BY <2>2
  <2>4. art \in ArtMaps
    BY <1>1, <2>3, ArtMap
  <2> HIDE DEF art
  <2>5. row \in UploadRows /\ row.id = upload[m].id /\ row.status = "receiving" /\ row.art = art
    BY <2>1, <2>4 DEF UploadRows, UploadStates
  <2> HIDE DEF row
  <2>6. upload'[m] = row
    BY <1>1, <1>3 DEF Types, RowTypes
  <2> QED
    BY <1>1, <1>3, <2>2, <2>3, <2>5, <2>6 DEF Refits
<1> QED
  BY <1>2, <1>3 DEF CommitReset

LEMMA CommitPutRow ==
    ASSUME Types, NEW c \in Clients, CommitPut(c)
    PROVE  LET p == client[c] IN
           \/ UNCHANGED upload
           \/ /\ p.m \in Manifests /\ upload[p.m].id = p.id
              /\ Refits(p.m, upload[p.m].status)
              /\ \A x \in ArtifactsOf[p.m] :
                    \/ upload'[p.m].art[x].uploaded = upload[p.m].art[x].uploaded
                    \/ x = p.content /\ upload'[p.m].art[x].uploaded
<1> DEFINE p == client[c]
           m == p.m
           art == [upload[m].art EXCEPT ![p.content].uploaded = TRUE]
           row == [upload[m] EXCEPT !.art = art]
<1>1. p # None /\ m \in Manifests /\ p.content \in ArtifactsOf[m]
  BY ClientShapes DEF CommitPut
<1>2. CASE UNCHANGED upload
  BY <1>2
<1>3. CASE upload[m] # None /\ upload[m].id = p.id /\ upload' = [upload EXCEPT ![m] = row]
  <2>1. upload[m] \in UploadRows /\ upload[m].art \in [ArtifactsOf[m] -> Arts]
    BY <1>1, <1>3 DEF Types, RowTypes
  <2>2. \A x \in ArtifactsOf[m] :
          /\ art[x] \in Arts
          /\ art[x].file = upload[m].art[x].file
          /\ x # p.content => art[x] = upload[m].art[x]
          /\ x = p.content => art[x].uploaded
    BY <1>1, <2>1 DEF Arts
  <2>3. art \in [ArtifactsOf[m] -> Arts]
    BY <2>1, <2>2
  <2>4. art \in ArtMaps
    BY <1>1, <2>3, ArtMap
  <2> HIDE DEF art
  <2>5. row \in UploadRows /\ row.id = upload[m].id /\ row.status = upload[m].status /\ row.art = art
    BY <2>1, <2>4 DEF UploadRows
  <2> HIDE DEF row
  <2>6. upload'[m] = row
    BY <1>1, <1>3 DEF Types, RowTypes
  <2> QED
    BY <1>1, <1>3, <2>2, <2>3, <2>5, <2>6 DEF Refits
<1> QED
  BY <1>2, <1>3 DEF CommitPut

LEMMA RefitRows ==
    ASSUME Types, NEW m \in Manifests, NEW s, Refits(m, s)
    PROVE  /\ RowTypes'
           /\ \A n \in Manifests \ {m} : upload'[n] = upload[n]
<1>1. upload' \in [Manifests -> UploadRows \cup {None}]
  BY DEF Types, RowTypes, Refits
<1>2. \A n \in Manifests \ {m} : upload'[n] = upload[n]
  BY DEF Types, RowTypes, Refits
<1>3. \A n \in Manifests : upload'[n] # None => upload'[n].art \in [ArtifactsOf[n] -> Arts]
  BY <1>2 DEF Types, RowTypes, Refits
<1> QED
  BY <1>1, <1>2, <1>3 DEF RowTypes

LEMMA CommitNewRow ==
    ASSUME Types, NEW c \in Clients, CommitNew(c)
    PROVE  LET b == client[c] IN
           /\ Creating(c) /\ b.m \in Manifests
           /\ RowTypes'
           /\ \A n \in Manifests \ {b.m} : upload'[n] = upload[n]
           /\ upload'[b.m].id = b.id /\ upload'[b.m].status = "receiving"
           /\ upload'[b.m].art = b.art
<1> DEFINE b == client[c]
           m == b.m
           row == [id |-> b.id, status |-> "receiving", attempts |-> 0, owner |-> None,
                   leased |-> FALSE, art |-> b.art]
<1>1. /\ Creating(c) /\ m \in Manifests /\ b.id \in Nat
      /\ b.art \in [ArtifactsOf[m] -> Arts]
  BY ClientShapes DEF CommitNew, Creating
<1>2. b.art \in ArtMaps
  BY <1>1, ArtMap
<1>3. row \in UploadRows /\ row.id = b.id /\ row.status = "receiving" /\ row.art = b.art
  BY <1>1, <1>2 DEF UploadRows, UploadStates
<1>4. upload' = [upload EXCEPT ![m] = row]
  BY DEF CommitNew
<1> HIDE DEF row
<1>5. upload' \in [Manifests -> UploadRows \cup {None}]
  BY <1>3, <1>4 DEF Types, RowTypes
<1>6. upload'[m] = row /\ \A n \in Manifests \ {m} : upload'[n] = upload[n]
  BY <1>1, <1>4 DEF Types, RowTypes
<1>7. \A n \in Manifests : upload'[n] # None => upload'[n].art \in [ArtifactsOf[n] -> Arts]
  BY <1>1, <1>3, <1>6 DEF Types, RowTypes
<1> QED
  BY <1>1, <1>3, <1>5, <1>6, <1>7 DEF RowTypes

-----------------------------------------------------------------------------
(* Uploads keep their files.                                               *)

\* Steps that leave rows as they are or take them away.
LEMMA RowsStay ==
    ASSUME Types, UploadInv, \A m \in Manifests : SameRow(m),
           UNCHANGED <<files, lost, lock, client, begins>>
    PROVE  UploadInv'
<1> USE DEF SameRow
<1>1. LockInv'
  BY DEF UploadInv, LockInv, Creating, Resetting
<1>2. FreshInv'
  BY DEF UploadInv, FreshInv, Creating, Putting
<1>3. RowsInv'
  <2>1. \A m, n \in Manifests : upload'[m] # None /\ upload'[n] # None =>
          \A x \in ArtifactsOf[m], y \in ArtifactsOf[n] :
            PlaceOf[x] = PlaceOf[y] =>
                x = y /\ upload'[m].art[x].file = upload'[n].art[y].file
    BY DEF UploadInv, RowsInv
  <2>2. \A m \in Manifests : upload'[m] # None =>
          \A x \in ArtifactsOf[m] :
            /\ upload'[m].art[x].uploaded => upload'[m].art[x].file \in Kept
            /\ upload'[m].status \in Submitted => upload'[m].art[x].uploaded
    BY DEF UploadInv, RowsInv
  <2> QED
    BY <2>1, <2>2 DEF RowsInv, Kept
<1>4. PlanInv'
  BY DEF UploadInv, PlanInv, Creating, Kept
<1>5. PutInv'
  <2> SUFFICES ASSUME NEW c \in Clients, Putting(c), upload'[client[c].m] # None,
                      upload'[client[c].m].id = client[c].id
               PROVE  /\ client[c].file = upload'[client[c].m].art[client[c].content].file
                      /\ client[c].op = "wrote" => client[c].file \in Kept
    BY DEF PutInv, Putting, Kept
  <2>1. client[c].m \in Manifests
    BY ClientShapes DEF Putting
  <2>2. /\ upload[client[c].m] # None
        /\ upload'[client[c].m].id = upload[client[c].m].id
        /\ upload'[client[c].m].art = upload[client[c].m].art
    BY <2>1
  <2> QED
    BY <2>2 DEF UploadInv, PutInv
<1> QED
  BY <1>1, <1>2, <1>3, <1>4, <1>5 DEF UploadInv

\* Steps of a file: what a row or a plan has is kept.
LEMMA FilesStay ==
    ASSUME Types, UploadInv, UNCHANGED <<upload, lock, client, begins>>,
           \A m \in Manifests : upload[m] # None => \A x \in ArtifactsOf[m] :
              upload[m].art[x].file \in Kept => upload[m].art[x].file \in Kept',
           \A c \in Clients : Creating(c) => \A x \in ArtifactsOf[client[c].m] :
              client[c].art[x].file \in Kept => client[c].art[x].file \in Kept'
    PROVE  UploadInv'
<1>1. LockInv' /\ FreshInv'
  BY DEF UploadInv, LockInv, FreshInv, Creating, Resetting, Putting
<1>2. RowsInv'
  BY DEF UploadInv, RowsInv
<1>3. PlanInv'
  BY DEF UploadInv, PlanInv, Creating
<1>4. PutInv'
  <2> SUFFICES ASSUME NEW c \in Clients, Putting(c), upload[client[c].m] # None,
                      upload[client[c].m].id = client[c].id
               PROVE  /\ client[c].file = upload[client[c].m].art[client[c].content].file
                      /\ client[c].op = "wrote" => client[c].file \in Kept'
    BY DEF PutInv, Putting
  <2>1. client[c].m \in Manifests /\ client[c].content \in ArtifactsOf[client[c].m]
    BY ClientShapes DEF Putting
  <2> QED
    BY <2>1 DEF UploadInv, PutInv
<1> QED
  BY <1>1, <1>2, <1>3, <1>4 DEF UploadInv

LEMMA SweepKeeps ==
    ASSUME Types, UploadInv, SweepOrphans
    PROVE  UploadInv'
<1>1. PICK gone \in SUBSET (files \ Referenced) : files' = files \ gone
  BY DEF SweepOrphans
<1>2. UNCHANGED <<upload, lock, client, begins, lost>>
  BY DEF SweepOrphans, ci
<1>3. \A m \in Manifests : upload[m] # None => \A x \in ArtifactsOf[m] :
          upload[m].art[x].file \in Referenced
  <2> SUFFICES ASSUME NEW m \in Manifests, upload[m] # None, NEW x \in ArtifactsOf[m]
               PROVE  upload[m].art[x].file \in Referenced
    OBVIOUS
  <2>1. m \in Rows
    BY DEF Rows
  <2>2. upload[m].art[x] \in Artifacts(m)
    BY DEF Artifacts
  <2>3. upload[m].art[x] \in UNION {Artifacts(n) : n \in Rows}
    BY <2>1, <2>2, Zenon
  <2> QED
    BY <2>3, Zenon DEF Referenced
<1>4. \A c \in Clients : ~Creating(c)
  BY SourceMapsAssumption DEF SweepOrphans, LockFree, UploadInv, LockInv
<1> QED
  BY <1>1, <1>2, <1>3, <1>4, FilesStay DEF Kept

LEMMA LoseKeeps ==
    ASSUME Types, UploadInv, NEW f \in files, LoseFile(f)
    PROVE  UploadInv'
<1>1. Kept' = Kept /\ UNCHANGED <<upload, lock, client, begins>>
  BY DEF LoseFile, Kept, ci
<1> QED
  BY <1>1, FilesStay

\* A put that has written finds its file kept.
LEMMA WriteFileKeeps ==
    ASSUME Types, UploadInv, NEW c \in Clients, WriteFile(c)
    PROVE  UploadInv'
<1> DEFINE f == client[c].file
<1>1. /\ client'[c].op = "wrote" /\ client'[c].m = client[c].m
      /\ client'[c].id = client[c].id /\ client'[c].content = client[c].content
      /\ client'[c].file = f
      /\ \A d \in Clients \ {c} : client'[d] = client[d]
  BY WriteFileTypes
<1>2. Putting(c) /\ ~Creating(c) /\ ~Resetting(c)
  BY DEF WriteFile, Putting, Creating, Resetting
<1>3. Kept' = Kept \cup {f} /\ UNCHANGED <<upload, lock, begins>>
  BY DEF WriteFile, Kept
<1>4. LockInv'
  BY <1>1, <1>2, <1>3 DEF UploadInv, LockInv, Creating, Resetting
<1>5. FreshInv'
  <2>1. \A m \in Manifests : upload[m] # None => upload[m].id <= begins
    BY DEF UploadInv, FreshInv
  <2>2. \A d \in Clients : client'[d] # None => client'[d].id <= begins
    BY <1>1, <1>2 DEF UploadInv, FreshInv, Putting
  <2>3. \A d \in Clients : Creating(d)' => Creating(d) /\ client'[d] = client[d]
    BY <1>1 DEF Creating
  <2>4. \A d \in Clients : Putting(d)' => Putting(d) /\ client'[d].id = client[d].id
    BY <1>1, <1>2 DEF Putting
  <2> QED
    BY <1>3, <2>1, <2>2, <2>3, <2>4 DEF UploadInv, FreshInv
<1>6. RowsInv'
  BY <1>3 DEF UploadInv, RowsInv
<1>7. PlanInv'
  <2>1. \A d \in Clients : Creating(d)' => Creating(d) /\ client'[d] = client[d]
    BY <1>1 DEF Creating
  <2> QED
    BY <1>3, <2>1 DEF UploadInv, PlanInv
<1>8. PutInv'
  <2> SUFFICES ASSUME NEW d \in Clients, Putting(d)',
                      upload[client'[d].m] # None, upload[client'[d].m].id = client'[d].id
               PROVE  /\ client'[d].file = upload[client'[d].m].art[client'[d].content].file
                      /\ client'[d].op = "wrote" => client'[d].file \in Kept'
    BY <1>3 DEF PutInv
  <2>1. CASE d = c
    BY <1>1, <1>2, <1>3, <2>1 DEF UploadInv, PutInv
  <2>2. CASE d # c
    <3>1. client'[d] = client[d] /\ Putting(d)
      BY <1>1, <2>2 DEF Putting
    <3> QED
      BY <1>3, <3>1 DEF UploadInv, PutInv
  <2> QED
    BY <2>1, <2>2
<1> QED
  BY <1>4, <1>5, <1>6, <1>7, <1>8 DEF UploadInv

\* Steps that end the transaction of one job and leave rows and files alone.
LEMMA EndKeeps ==
    ASSUME Types, UploadInv, NEW c \in Clients, client' = [client EXCEPT ![c] = None],
           lock' = lock \/ (lock' = None /\ (Creating(c) \/ Resetting(c))),
           UNCHANGED <<upload, files, lost, begins>>
    PROVE  UploadInv'
<1>1. client'[c] = None /\ \A d \in Clients \ {c} : client'[d] = client[d]
  BY ClientEnds
<1>2. \A d \in Clients : client'[d] # None => d # c /\ client'[d] = client[d]
  BY <1>1
<1>3. LockInv'
  BY <1>2 DEF UploadInv, LockInv, Creating, Resetting
<1>4. FreshInv'
  BY <1>2 DEF UploadInv, FreshInv, Creating, Putting
<1>5. RowsInv'
  BY DEF UploadInv, RowsInv, Kept
<1>6. PlanInv'
  BY <1>2 DEF UploadInv, PlanInv, Creating, Kept
<1>7. PutInv'
  BY <1>2 DEF UploadInv, PutInv, Putting, Kept
<1> QED
  BY <1>3, <1>4, <1>5, <1>6, <1>7 DEF UploadInv

\* A row that follows its status leaves all rows as RowsStay has them.
LEMMA FollowedSame ==
    ASSUME Types, NEW m \in Manifests, NEW s, Follows(m, s),
           s \in Submitted =>
              upload[m].status \in Submitted \/ \A x \in ArtifactsOf[m] : upload[m].art[x].uploaded
    PROVE  \A n \in Manifests : SameRow(n)
<1>1. \A n \in Manifests \ {m} : upload'[n] = upload[n]
  BY FollowedRows
<1>2. SameRow(m)
  BY DEF Follows, SameRow
<1> QED
  BY <1>1, <1>2 DEF SameRow

\* A job that begins finds no other that does.
LEMMA NoneBegins ==
    ASSUME UploadInv, LockFree
    PROVE  \A c \in Clients : ~Creating(c) /\ ~Resetting(c)
BY SourceMapsAssumption DEF LockFree, UploadInv, LockInv

LEMMA BeginAgainKeeps ==
    ASSUME Types, UploadInv, NEW c \in Clients, NEW m \in Manifests, BeginAgain(c, m)
    PROVE  UploadInv'
<1>1. /\ client'[c] # None => client'[c].op = "reset" /\ client'[c].id = upload[m].id
      /\ \A d \in Clients \ {c} : client'[d] = client[d]
  BY BeginAgainTypes
<1>2. /\ lock' = c /\ begins' = begins + 1 /\ begins \in Nat
      /\ upload[m] # None /\ UNCHANGED <<upload, files, lost>>
  BY DEF BeginAgain, Types
<1>3. \A d \in Clients : ~Creating(d) /\ ~Resetting(d)
  BY NoneBegins DEF BeginAgain
<1>4. \A d \in Clients : ~Creating(d)' /\ (Resetting(d)' => d = c)
  BY <1>1, <1>3 DEF Creating, Resetting
<1>5. \A d \in Clients : Putting(d)' => d # c /\ client'[d] = client[d] /\ Putting(d)
  BY <1>1 DEF Putting
<1>6. LockInv'
  BY <1>2, <1>4 DEF LockInv
<1>7. FreshInv'
  <2>1. \A n \in Manifests : upload[n] # None => upload[n].id <= begins /\ upload[n].id \in Nat
    BY DEF UploadInv, FreshInv, Types, RowTypes, UploadRows
  <2>2. \A d \in Clients : client[d] # None => client[d].id <= begins /\ client[d].id \in Nat
    BY ClientShapes DEF UploadInv, FreshInv
  <2>3. \A n \in Manifests : upload[n] # None => upload[n].id <= begins + 1
    BY <1>2, <2>1
  <2>4. \A d \in Clients : client'[d] # None => client'[d].id <= begins + 1
    BY <1>1, <1>2, <2>1, <2>2
  <2> QED
    BY <1>2, <1>4, <2>3, <2>4 DEF FreshInv
<1>8. RowsInv'
  BY <1>2 DEF UploadInv, RowsInv, Kept
<1>9. PlanInv'
  BY <1>4 DEF PlanInv
<1>10. PutInv'
  BY <1>2, <1>5 DEF UploadInv, PutInv, Kept
<1> QED
  BY <1>6, <1>7, <1>8, <1>9, <1>10 DEF UploadInv

LEMMA StartPutKeeps ==
    ASSUME Types, UploadInv, NEW c \in Clients, NEW m \in Manifests, NEW x \in Contents,
           StartPut(c, m, x)
    PROVE  UploadInv'
<1>1. /\ client'[c].op = "put" /\ client'[c].m = m /\ client'[c].id = upload[m].id
      /\ client'[c].content = x /\ client'[c].file = upload[m].art[x].file
      /\ \A d \in Clients \ {c} : client'[d] = client[d]
  BY StartPutTypes
<1>2. upload[m] # None /\ UNCHANGED <<upload, files, lost, lock, begins>>
  BY DEF StartPut
<1>3. \A d \in Clients : Creating(d)' => d # c /\ Creating(d) /\ client'[d] = client[d]
  BY <1>1 DEF Creating
<1>4. \A d \in Clients : Resetting(d)' => d # c /\ Resetting(d)
  BY <1>1 DEF Resetting
<1>5. \A d \in Clients \ {c} : Putting(d)' => Putting(d) /\ client'[d] = client[d]
  BY <1>1 DEF Putting
<1>6. LockInv'
  BY <1>2, <1>3, <1>4 DEF UploadInv, LockInv
<1>7. FreshInv'
  <2>1. \A d \in Clients : client'[d] # None => client'[d].id <= begins
    BY <1>1, <1>2 DEF UploadInv, FreshInv
  <2>2. \A d, e \in Clients : Creating(d)' /\ Putting(e)' => client'[e].id # client'[d].id
    BY <1>1, <1>2, <1>3, <1>5 DEF UploadInv, FreshInv
  <2>3. \A d \in Clients : Creating(d)' =>
          \A n \in Manifests : upload[n] # None => upload[n].id # client'[d].id
    BY <1>3 DEF UploadInv, FreshInv
  <2> QED
    BY <1>2, <2>1, <2>2, <2>3 DEF UploadInv, FreshInv
<1>8. RowsInv'
  BY <1>2 DEF UploadInv, RowsInv, Kept
<1>9. PlanInv'
  BY <1>2, <1>3 DEF UploadInv, PlanInv, Kept
<1>10. PutInv'
  <2> SUFFICES ASSUME NEW d \in Clients, Putting(d)',
                      upload[client'[d].m] # None, upload[client'[d].m].id = client'[d].id
               PROVE  /\ client'[d].file = upload[client'[d].m].art[client'[d].content].file
                      /\ client'[d].op = "wrote" => client'[d].file \in Kept
    BY <1>2 DEF PutInv, Kept
  <2>1. CASE d = c
    BY <1>1, <2>1
  <2>2. CASE d # c
    BY <1>5, <2>2 DEF UploadInv, PutInv
  <2> QED
    BY <2>1, <2>2
<1> QED
  BY <1>6, <1>7, <1>8, <1>9, <1>10 DEF UploadInv

\* What a begin plans agrees with the rows that are there.
LEMMA PlanAgrees ==
    ASSUME Types, RowsInv, NEW m \in Manifests, ~Conflict(m), NEW x \in ArtifactsOf[m],
           NEW k \in Nat, NEW a \in Prepared(x, k)
    PROVE  /\ a.uploaded => a.file \in Kept
           /\ \A n \in Manifests : upload[n] # None =>
                \A y \in ArtifactsOf[n] :
                    PlaceOf[x] = PlaceOf[y] => x = y /\ a.file = upload[n].art[y].file
<1>1. x \in Contents
  BY SourceMapsAssumption
<1>2. \/ Matches(x) = {} /\ ~a.uploaded
      \/ \E j \in Manifests :
            /\ upload[j] # None /\ x \in ArtifactsOf[j]
            /\ a.file = upload[j].art[x].file
            /\ a.uploaded => a.file \in files
  BY <1>1, PreparedArt DEF Types
<1>3. a.uploaded => a.file \in Kept
  BY <1>2 DEF Kept
<1> SUFFICES ASSUME NEW n \in Manifests, upload[n] # None, NEW y \in ArtifactsOf[n],
                    PlaceOf[x] = PlaceOf[y]
             PROVE  x = y /\ a.file = upload[n].art[y].file
  BY <1>3
<1>4. y \in SamePlace(x)
  <2>1. n \in Rows
    BY DEF Rows
  <2>2. y \in {d \in ArtifactsOf[n] : PlaceOf[d] = PlaceOf[x]}
    OBVIOUS
  <2> QED
    BY <2>1, <2>2, Zenon DEF SamePlace
<1>5. x = y
  BY <1>4 DEF Conflict
<1>6. upload[n].art[x] \in Matches(x)
  BY <1>5 DEF Matches, Rows
<1>7. PICK j \in Manifests :
          upload[j] # None /\ x \in ArtifactsOf[j] /\ a.file = upload[j].art[x].file
  BY <1>2, <1>6
<1>8. upload[j].art[x].file = upload[n].art[x].file
  BY <1>5, <1>7 DEF RowsInv
<1> QED
  BY <1>5, <1>7, <1>8

LEMMA BeginNewKeeps ==
    ASSUME Types, UploadInv, NEW c \in Clients, NEW m \in Manifests, BeginNew(c, m)
    PROVE  UploadInv'
<1> DEFINE id == begins + 1
<1>0. PICK plan \in [ArtifactsOf[m] -> Arts] :
          /\ plan \in Plans(m, id)
          /\ client' = [client EXCEPT ![c] =
                [op |-> "create", m |-> m, id |-> id, art |-> plan]]
  BY BeginNewTypes
<1>1. /\ client'[c].op = "create" /\ client'[c].m = m /\ client'[c].id = id
      /\ client'[c].art = plan
      /\ \A d \in Clients \ {c} : client'[d] = client[d]
  BY <1>0 DEF Types, ClientTypes
<1>2. /\ lock' = c /\ begins' = id /\ id \in Nat /\ begins \in Nat /\ begins < id
      /\ UNCHANGED <<upload, files, lost>>
  BY DEF BeginNew, Types
<1> HIDE DEF id
<1>3. \A d \in Clients : ~Creating(d) /\ ~Resetting(d)
  BY NoneBegins DEF BeginNew
<1>4. \A d \in Clients : (Creating(d)' => d = c) /\ ~Resetting(d)'
  BY <1>1, <1>3 DEF Creating, Resetting
<1>5. \A d \in Clients : Putting(d)' => d # c /\ client'[d] = client[d] /\ Putting(d)
  BY <1>1 DEF Putting
<1>6. LockInv'
  BY <1>2, <1>4 DEF LockInv
<1>7. FreshInv'
  <2>1. \A n \in Manifests : upload[n] # None =>
          upload[n].id <= id /\ upload[n].id # id
    <3>1. \A n \in Manifests : upload[n] # None =>
            upload[n].id <= begins /\ upload[n].id \in Nat
      BY DEF UploadInv, FreshInv, Types, RowTypes, UploadRows
    <3> QED
      BY <1>2, <3>1
  <2>2. \A d \in Clients : client[d] # None => client[d].id <= id /\ client[d].id # id
    <3>1. \A d \in Clients : client[d] # None =>
            client[d].id <= begins /\ client[d].id \in Nat
      BY ClientShapes DEF UploadInv, FreshInv
    <3> QED
      BY <1>2, <3>1
  <2>3. \A d \in Clients : client'[d] # None => client'[d].id <= id
    BY <1>1, <1>2, <2>2
  <2>4. \A d \in Clients : Putting(d)' => client'[d].id # id
    BY <1>5, <2>2 DEF Putting
  <2> QED
    BY <1>1, <1>2, <1>4, <2>1, <2>3, <2>4 DEF FreshInv
<1>8. RowsInv'
  BY <1>2 DEF UploadInv, RowsInv, Kept
<1>9. PlanInv'
  <2> SUFFICES ASSUME NEW x \in ArtifactsOf[m]
               PROVE  /\ plan[x].uploaded => plan[x].file \in Kept
                      /\ \A n \in Manifests : upload[n] # None =>
                          \A y \in ArtifactsOf[n] : PlaceOf[x] = PlaceOf[y] =>
                              x = y /\ plan[x].file = upload[n].art[y].file
    BY <1>1, <1>2, <1>4 DEF PlanInv, Kept
  <2>1. plan[x] \in Prepared(x, id)
    BY <1>0 DEF Plans
  <2>2. ~Conflict(m)
    BY DEF BeginNew
  <2> QED
    BY <1>2, <2>1, <2>2, PlanAgrees DEF UploadInv
<1>10. PutInv'
  BY <1>2, <1>5 DEF UploadInv, PutInv, Kept
<1> QED
  BY <1>6, <1>7, <1>8, <1>9, <1>10 DEF UploadInv

\* A commit that changes what is uploaded of a row, not its files.
LEMMA RefitKeeps ==
    ASSUME Types, UploadInv, NEW c \in Clients, client' = [client EXCEPT ![c] = None],
           lock' = lock \/ (lock' = None /\ (Creating(c) \/ Resetting(c))),
           UNCHANGED <<files, lost, begins>>,
           NEW m \in Manifests, NEW s, Refits(m, s),
           \A x \in ArtifactsOf[m] :
              /\ upload'[m].art[x].uploaded => upload[m].art[x].file \in Kept
              /\ s \in Submitted => upload'[m].art[x].uploaded
    PROVE  UploadInv'
<1>1. client'[c] = None /\ \A d \in Clients \ {c} : client'[d] = client[d]
  BY ClientEnds
<1>2. \A d \in Clients : client'[d] # None => d # c /\ client'[d] = client[d]
  BY <1>1
<1>3. \A n \in Manifests \ {m} : upload'[n] = upload[n]
  BY RefitRows
<1>4. \A n \in Manifests : upload'[n] # None =>
        /\ upload[n] # None /\ upload'[n].id = upload[n].id
        /\ \A x \in ArtifactsOf[n] : upload'[n].art[x].file = upload[n].art[x].file
  BY <1>3 DEF Refits
<1>5. Kept' = Kept
  BY DEF Kept
<1>6. LockInv'
  BY <1>2 DEF UploadInv, LockInv, Creating, Resetting
<1>7. FreshInv'
  BY <1>2, <1>4 DEF UploadInv, FreshInv, Creating, Putting
<1>8. RowsInv'
  <2>1. \A j, n \in Manifests : upload'[j] # None /\ upload'[n] # None =>
          \A x \in ArtifactsOf[j], y \in ArtifactsOf[n] :
            PlaceOf[x] = PlaceOf[y] =>
                x = y /\ upload'[j].art[x].file = upload'[n].art[y].file
    BY <1>4 DEF UploadInv, RowsInv
  <2>2. \A n \in Manifests \ {m} : upload'[n] # None =>
          \A x \in ArtifactsOf[n] :
            /\ upload'[n].art[x].uploaded => upload'[n].art[x].file \in Kept
            /\ upload'[n].status \in Submitted => upload'[n].art[x].uploaded
    BY <1>3 DEF UploadInv, RowsInv
  <2>3. upload'[m] # None =>
          \A x \in ArtifactsOf[m] :
            /\ upload'[m].art[x].uploaded => upload'[m].art[x].file \in Kept
            /\ upload'[m].status \in Submitted => upload'[m].art[x].uploaded
    BY <1>4 DEF Refits
  <2> QED
    BY <1>5, <2>1, <2>2, <2>3 DEF RowsInv
<1>9. PlanInv'
  BY <1>2, <1>4, <1>5 DEF UploadInv, PlanInv, Creating
<1>10. PutInv'
  <2> SUFFICES ASSUME NEW d \in Clients, d # c, Putting(d),
                      upload'[client[d].m] # None, upload'[client[d].m].id = client[d].id
               PROVE  /\ client[d].file = upload'[client[d].m].art[client[d].content].file
                      /\ client[d].op = "wrote" => client[d].file \in Kept
    BY <1>2, <1>5 DEF PutInv, Putting
  <2>1. client[d].m \in Manifests /\ client[d].content \in ArtifactsOf[client[d].m]
    BY ClientShapes DEF Putting
  <2> QED
    BY <1>4, <2>1 DEF UploadInv, PutInv
<1> QED
  BY <1>6, <1>7, <1>8, <1>9, <1>10 DEF UploadInv

LEMMA CommitResetKeeps ==
    ASSUME Types, UploadInv, NEW c \in Clients, CommitReset(c)
    PROVE  UploadInv'
<1> DEFINE m == client[c].m
<1>1. /\ client' = [client EXCEPT ![c] = None] /\ lock' = None /\ Resetting(c)
      /\ UNCHANGED <<files, lost, begins>>
  BY DEF CommitReset, Resetting
<1>2. CASE UNCHANGED upload
  BY <1>1, <1>2, EndKeeps
<1>3. CASE /\ m \in Manifests /\ Refits(m, "receiving")
           /\ \A x \in ArtifactsOf[m] :
                upload'[m].art[x].uploaded => upload[m].art[x].uploaded
  <2>1. \A x \in ArtifactsOf[m] : upload[m].art[x].uploaded => upload[m].art[x].file \in Kept
    BY <1>3 DEF UploadInv, RowsInv, Refits
  <2>2. "receiving" \notin Submitted
    BY DEF Submitted
  <2> QED
    BY <1>1, <1>3, <2>1, <2>2, RefitKeeps
<1> QED
  BY <1>2, <1>3, CommitResetRow

LEMMA CommitPutKeeps ==
    ASSUME Types, UploadInv, NEW c \in Clients, CommitPut(c)
    PROVE  UploadInv'
<1> DEFINE p == client[c]
           m == p.m
<1>1. /\ client' = [client EXCEPT ![c] = None] /\ p # None /\ p.op = "wrote" /\ Putting(c)
      /\ UNCHANGED <<files, lost, lock, begins>>
  BY DEF CommitPut, Putting
<1>2. CASE UNCHANGED upload
  BY <1>1, <1>2, EndKeeps
<1>3. CASE /\ m \in Manifests /\ upload[m].id = p.id /\ Refits(m, upload[m].status)
           /\ \A x \in ArtifactsOf[m] :
                \/ upload'[m].art[x].uploaded = upload[m].art[x].uploaded
                \/ x = p.content /\ upload'[m].art[x].uploaded
  <2>1. upload[m] # None
    BY <1>3 DEF Refits
  <2>2. upload[m].art[p.content].file \in Kept
    BY <1>1, <1>3, <2>1 DEF UploadInv, PutInv
  <2>3. \A x \in ArtifactsOf[m] :
          /\ upload[m].art[x].uploaded => upload[m].art[x].file \in Kept
          /\ upload[m].status \in Submitted => upload[m].art[x].uploaded
    BY <1>3, <2>1 DEF UploadInv, RowsInv
  <2>4. \A x \in ArtifactsOf[m] :
          /\ upload'[m].art[x].uploaded => upload[m].art[x].file \in Kept
          /\ upload[m].status \in Submitted => upload'[m].art[x].uploaded
    BY <1>3, <2>2, <2>3
  <2> QED
    BY <1>1, <1>3, <2>4, RefitKeeps
<1> QED
  BY <1>2, <1>3, CommitPutRow

\* A new row is the plan of the begin that had the lock, which the others lack.
LEMMA CommitNewKeeps ==
    ASSUME Types, UploadInv, NEW c \in Clients, CommitNew(c)
    PROVE  UploadInv'
<1> DEFINE b == client[c]
           m == b.m
<1>1. /\ client' = [client EXCEPT ![c] = None] /\ lock' = None
      /\ Kept' = Kept /\ UNCHANGED begins
  BY DEF CommitNew, Kept
<1>2. client'[c] = None /\ \A d \in Clients \ {c} : client'[d] = client[d]
  BY <1>1, ClientEnds
<1>3. /\ Creating(c) /\ m \in Manifests
      /\ \A n \in Manifests \ {m} : upload'[n] = upload[n]
      /\ upload'[m].id = b.id /\ upload'[m].status = "receiving" /\ upload'[m].art = b.art
  BY CommitNewRow
<1>4. \A d \in Clients : client'[d] # None => d # c /\ client'[d] = client[d]
  BY <1>2
<1>5. \A d \in Clients : ~Creating(d)' /\ ~Resetting(d)'
  <2>1. lock = c
    BY <1>3 DEF UploadInv, LockInv
  <2>2. \A d \in Clients : d # c => ~Creating(d) /\ ~Resetting(d)
    BY <2>1 DEF UploadInv, LockInv
  <2> QED
    BY <1>2, <2>2 DEF Creating, Resetting
<1>6. LockInv' /\ PlanInv'
  BY <1>5 DEF LockInv, PlanInv
<1>7. FreshInv'
  <2>1. b.id <= begins
    BY <1>3 DEF UploadInv, FreshInv, Creating
  <2>2. \A n \in Manifests : upload'[n] # None => upload'[n].id <= begins
    BY <1>3, <2>1 DEF UploadInv, FreshInv
  <2>3. \A d \in Clients : client'[d] # None => client'[d].id <= begins
    BY <1>4 DEF UploadInv, FreshInv
  <2> QED
    BY <1>1, <1>5, <2>2, <2>3 DEF FreshInv
<1>8. RowsInv'
  <2>1. \A x \in ArtifactsOf[m] :
          /\ b.art[x].uploaded => b.art[x].file \in Kept
          /\ \A n \in Manifests : upload[n] # None =>
                \A y \in ArtifactsOf[n] :
                    PlaceOf[x] = PlaceOf[y] =>
                        x = y /\ b.art[x].file = upload[n].art[y].file
    BY <1>3 DEF UploadInv, PlanInv
  <2>2. \A x, y \in ArtifactsOf[m] : PlaceOf[x] = PlaceOf[y] => x = y
    BY <1>3, SourceMapsAssumption
  <2>3. ASSUME NEW j \in Manifests, NEW n \in Manifests, upload'[j] # None, upload'[n] # None,
               NEW x \in ArtifactsOf[j], NEW y \in ArtifactsOf[n], PlaceOf[x] = PlaceOf[y]
        PROVE  x = y /\ upload'[j].art[x].file = upload'[n].art[y].file
    <3>1. CASE j = m /\ n = m
      BY <2>2, <2>3, <3>1
    <3>2. CASE j = m /\ n # m
      BY <1>3, <2>1, <2>3, <3>2
    <3>3. CASE j # m /\ n = m
      BY <1>3, <2>1, <2>3, <3>3
    <3>4. CASE j # m /\ n # m
      BY <1>3, <2>3, <3>4 DEF UploadInv, RowsInv
    <3> QED
      BY <3>1, <3>2, <3>3, <3>4
  <2>4. ASSUME NEW n \in Manifests, upload'[n] # None, NEW x \in ArtifactsOf[n]
        PROVE  /\ upload'[n].art[x].uploaded => upload'[n].art[x].file \in Kept
               /\ upload'[n].status \in Submitted => upload'[n].art[x].uploaded
    <3>1. CASE n = m
      BY <1>3, <2>1, <3>1 DEF Submitted
    <3>2. CASE n # m
      BY <1>3, <2>4, <3>2 DEF UploadInv, RowsInv
    <3> QED
      BY <3>1, <3>2
  <2> QED
    BY <1>1, <2>3, <2>4 DEF RowsInv
<1>9. PutInv'
  <2> SUFFICES ASSUME NEW d \in Clients, d # c, Putting(d),
                      upload'[client[d].m] # None, upload'[client[d].m].id = client[d].id
               PROVE  /\ client[d].file = upload'[client[d].m].art[client[d].content].file
                      /\ client[d].op = "wrote" => client[d].file \in Kept
    BY <1>1, <1>4 DEF PutInv, Putting
  <2>1. client[d].m \in Manifests
    BY ClientShapes DEF Putting
  <2>2. client[d].m # m
    BY <1>3 DEF UploadInv, FreshInv
  <2>3. upload'[client[d].m] = upload[client[d].m]
    BY <1>3, <2>1, <2>2
  <2> QED
    BY <2>1, <2>3 DEF UploadInv, PutInv
<1> QED
  BY <1>6, <1>7, <1>8, <1>9 DEF UploadInv

-----------------------------------------------------------------------------
(* Which steps change what.                                                *)

LEMMA UploadSteps ==
    ASSUME Next
    PROVE  \/ UNCHANGED upload
           \/ \E c \in Clients : CommitReset(c) \/ CommitNew(c) \/ CommitPut(c)
           \/ \E m \in Manifests : FinishUpload(m) \/ RetainUpload(m) \/ ExpireLease(m)
           \/ \E v \in Validators :
                \/ \E m \in Manifests : ClaimUpload(v, m)
                \/ CheckUpload(v) \/ Verdict(v) \/ Heartbeat(v)
<1>1. CASE JobStep
  BY <1>1 DEF JobStep, BeginAgain, BeginNew, AbortBegin, StartPut, WriteFile, AbortPut
<1>2. CASE ValidatorStep
  BY <1>2 DEF ValidatorStep, AbandonUpload
<1>3. CASE EventStep
  BY <1>3 DEF EventStep, AdmitEvent, ReadVersion, StoreEvent, AbandonEvent, DropEvent
<1>4. CASE RetentionStep
  BY <1>4 DEF RetentionStep, CountReady, MarkRemoved, SweepOrphans, StopPass, RetainRelease
<1>5. CASE \E r \in Releases : RegisterRelease(r)
  BY <1>5 DEF RegisterRelease
<1>6. CASE \E f \in files : LoseFile(f)
  BY <1>6 DEF LoseFile
<1> QED
  BY <1>1, <1>2, <1>3, <1>4, <1>5, <1>6 DEF Next

LEMMA ClientSteps ==
    ASSUME Next
    PROVE  UNCHANGED <<client, lock, begins>> \/ JobStep
<1>1. CASE ValidatorStep
  BY <1>1 DEF ValidatorStep, ClaimUpload, CheckUpload, Verdict, AbandonUpload, Heartbeat, ci
<1>2. CASE EventStep
  BY <1>2 DEF EventStep, AdmitEvent, ReadVersion, StoreEvent, AbandonEvent, DropEvent, ci
<1>3. CASE RetentionStep
  BY <1>3 DEF RetentionStep, CountReady, MarkRemoved, SweepOrphans, StopPass, RetainUpload,
              RetainRelease, ci
<1>4. CASE \E r \in Releases : RegisterRelease(r)
  BY <1>4 DEF RegisterRelease, ci
<1>5. CASE \E f \in files : LoseFile(f)
  BY <1>5 DEF LoseFile, ci
<1>6. CASE \E m \in Manifests : FinishUpload(m) \/ ExpireLease(m)
  BY <1>6 DEF FinishUpload, ExpireLease, ci
<1> QED
  BY <1>1, <1>2, <1>3, <1>4, <1>5, <1>6 DEF Next

LEMMA ReleaseSteps ==
    ASSUME Next
    PROVE  \/ UNCHANGED rel
           \/ \E c \in Clients : CommitNew(c)
           \/ \E v \in Validators : Verdict(v)
           \/ \E e \in Events : StoreEvent(e)
           \/ \E r \in Releases : RegisterRelease(r) \/ RetainRelease(r)
           \/ MarkRemoved
<1>1. CASE JobStep
  BY <1>1 DEF JobStep, BeginAgain, BeginNew, CommitReset, AbortBegin, StartPut, WriteFile,
              CommitPut, AbortPut
<1>2. CASE ValidatorStep
  BY <1>2 DEF ValidatorStep, ClaimUpload, CheckUpload, AbandonUpload, Heartbeat
<1>3. CASE EventStep
  BY <1>3 DEF EventStep, AdmitEvent, ReadVersion, AbandonEvent, DropEvent
<1>4. CASE RetentionStep
  BY <1>4 DEF RetentionStep, CountReady, SweepOrphans, StopPass, RetainUpload
<1>5. CASE \E m \in Manifests : FinishUpload(m) \/ ExpireLease(m)
  BY <1>5 DEF FinishUpload, ExpireLease
<1>6. CASE \E f \in files : LoseFile(f)
  BY <1>6 DEF LoseFile
<1> QED
  BY <1>1, <1>2, <1>3, <1>4, <1>5, <1>6 DEF Next

LEMMA EventSteps ==
    ASSUME Next
    PROVE  UNCHANGED event \/ (EventStep /\ UNCHANGED upload)
<1>1. CASE JobStep
  BY <1>1 DEF JobStep, BeginAgain, BeginNew, CommitReset, CommitNew, AbortBegin, StartPut,
              WriteFile, CommitPut, AbortPut
<1>2. CASE ValidatorStep
  BY <1>2 DEF ValidatorStep, ClaimUpload, CheckUpload, Verdict, AbandonUpload, Heartbeat
<1>3. CASE EventStep
  BY <1>3 DEF EventStep, AdmitEvent, ReadVersion, StoreEvent, AbandonEvent, DropEvent
<1>4. CASE RetentionStep
  BY <1>4 DEF RetentionStep, CountReady, MarkRemoved, SweepOrphans, StopPass, RetainUpload,
              RetainRelease
<1>5. CASE \E m \in Manifests : FinishUpload(m) \/ ExpireLease(m)
  BY <1>5 DEF FinishUpload, ExpireLease
<1>6. CASE \E f \in files : LoseFile(f)
  BY <1>6 DEF LoseFile
<1>7. CASE \E r \in Releases : RegisterRelease(r)
  BY <1>7 DEF RegisterRelease
<1> QED
  BY <1>1, <1>2, <1>3, <1>4, <1>5, <1>6, <1>7 DEF Next

-----------------------------------------------------------------------------
(* Types.                                                                  *)

LEMMA RetainRow ==
    ASSUME Types, NEW m \in Manifests, RetainUpload(m)
    PROVE  RowTypes' /\ \A n \in Manifests : SameRow(n)
<1>1. upload' = [upload EXCEPT ![m] = None]
  BY DEF RetainUpload
<1>2. upload'[m] = None /\ \A n \in Manifests \ {m} : upload'[n] = upload[n]
  BY <1>1 DEF Types, RowTypes
<1> QED
  BY <1>1, <1>2 DEF Types, RowTypes, SameRow

\* Every row keeps its type, and but for the commits every row stays as it is
\* or gets a status its artifacts allow.
LEMMA RowsNext ==
    ASSUME Types, UploadInv, Next
    PROVE  /\ RowTypes'
           /\ \/ \E c \in Clients : CommitReset(c) \/ CommitNew(c) \/ CommitPut(c)
              \/ \A m \in Manifests : SameRow(m)
<1>1. CASE UNCHANGED upload
  BY <1>1 DEF Types, RowTypes, SameRow
<1>2. ASSUME NEW c \in Clients, CommitReset(c)
      PROVE  RowTypes'
  BY <1>1, <1>2, CommitResetRow, RefitRows
<1>3. ASSUME NEW c \in Clients, CommitNew(c)
      PROVE  RowTypes'
  BY <1>3, CommitNewRow
<1>4. ASSUME NEW c \in Clients, CommitPut(c)
      PROVE  RowTypes'
  BY <1>1, <1>4, CommitPutRow, RefitRows
<1>5. ASSUME NEW m \in Manifests, FinishUpload(m)
      PROVE  RowTypes' /\ \A n \in Manifests : SameRow(n)
  BY <1>5, FinishRow, FollowedRows, FollowedSame
<1>6. ASSUME NEW m \in Manifests, RetainUpload(m)
      PROVE  RowTypes' /\ \A n \in Manifests : SameRow(n)
  BY <1>6, RetainRow
<1>7. ASSUME NEW m \in Manifests, ExpireLease(m)
      PROVE  RowTypes' /\ \A n \in Manifests : SameRow(n)
  <2>1. Follows(m, upload[m].status)
    BY <1>7, LeaseRow DEF ExpireLease
  <2> QED
    BY <2>1, FollowedRows, FollowedSame
<1>8. ASSUME NEW v \in Validators, NEW m \in Manifests, ClaimUpload(v, m)
      PROVE  RowTypes' /\ \A n \in Manifests : SameRow(n)
  <2>1. Follows(m, "validating") /\ upload[m].status \in Submitted
    BY <1>8, ClaimRow DEF Submitted
  <2> QED
    BY <2>1, FollowedRows, FollowedSame
<1>9. ASSUME NEW v \in Validators, CheckUpload(v)
      PROVE  RowTypes' /\ \A n \in Manifests : SameRow(n)
  <2>1. CASE job[v].m \in Manifests /\ Follows(job[v].m, upload[job[v].m].status)
    BY <2>1, FollowedRows, FollowedSame
  <2> QED
    BY <1>1, <1>9, <2>1, CheckRow DEF Types, RowTypes, SameRow
<1>10. ASSUME NEW v \in Validators, Verdict(v)
       PROVE  RowTypes' /\ \A n \in Manifests : SameRow(n)
  <2>1. CASE UNCHANGED <<upload, rel>>
    BY <2>1 DEF Types, RowTypes, SameRow
  <2>2. CASE ~UNCHANGED <<upload, rel>>
    <3>1. /\ job[v].m \in Manifests /\ upload[job[v].m].status \in Submitted
          /\ Follows(job[v].m, "ready") \/ Follows(job[v].m, "failed")
      BY <1>10, <2>2, VerdictRow DEF Submitted
    <3> QED
      BY <3>1, FollowedRows, FollowedSame
  <2> QED
    BY <2>1, <2>2
<1>11. ASSUME NEW v \in Validators, Heartbeat(v)
       PROVE  RowTypes' /\ \A n \in Manifests : SameRow(n)
  <2>1. job[v].m \in Manifests /\ Follows(job[v].m, upload[job[v].m].status)
    BY <1>11, HeartbeatRow
  <2> QED
    BY <2>1, FollowedRows, FollowedSame
<1> QED
  BY <1>1, <1>2, <1>3, <1>4, <1>5, <1>6, <1>7, <1>8, <1>9, <1>10, <1>11, UploadSteps
     DEF Types, RowTypes, SameRow

LEMMA ClientsNext ==
    ASSUME Types, Next
    PROVE  ClientTypes' /\ begins' \in Nat
<1>1. CASE UNCHANGED <<client, lock, begins>>
  BY <1>1 DEF Types, ClientTypes, Creating, Putting
<1>2. ASSUME NEW c \in Clients, NEW m \in Manifests, BeginAgain(c, m)
      PROVE  ClientTypes' /\ begins' \in Nat
  <2>1. begins' \in Nat
    BY <1>2 DEF BeginAgain, Types
  <2> QED
    BY <1>2, <2>1, BeginAgainTypes
<1>3. ASSUME NEW c \in Clients, NEW m \in Manifests, BeginNew(c, m)
      PROVE  ClientTypes' /\ begins' \in Nat
  <2>1. begins' \in Nat
    BY <1>3 DEF BeginNew, Types
  <2> QED
    BY <1>3, <2>1, BeginNewTypes
<1>4. ASSUME NEW c \in Clients, client' = [client EXCEPT ![c] = None], UNCHANGED begins
      PROVE  ClientTypes' /\ begins' \in Nat
  BY <1>4, ClientEnds DEF Types
<1>5. ASSUME NEW c \in Clients, CommitReset(c) \/ CommitNew(c) \/ AbortBegin(c)
                                \/ CommitPut(c) \/ AbortPut(c)
      PROVE  ClientTypes' /\ begins' \in Nat
  BY <1>4, <1>5 DEF CommitReset, CommitNew, AbortBegin, CommitPut, AbortPut
<1>6. ASSUME NEW c \in Clients, NEW m \in Manifests, NEW x \in Contents, StartPut(c, m, x)
      PROVE  ClientTypes' /\ begins' \in Nat
  BY <1>6, StartPutTypes DEF StartPut, Types
<1>7. ASSUME NEW c \in Clients, WriteFile(c)
      PROVE  ClientTypes' /\ begins' \in Nat
  BY <1>7, WriteFileTypes DEF WriteFile, Types
<1> QED
  BY <1>1, <1>2, <1>3, <1>5, <1>6, <1>7, ClientSteps DEF JobStep

\* A release that has been published, whether its uploads are there or not.
Good(x) == x.version > 0 /\ x.state \in {"ready", "removed"}

\* What may become of a release row: it stays, no version is taken back, and a
\* publication is not undone.
Grows(x, y) ==
    x # None =>
        /\ y # None
        /\ y.version >= x.version
        /\ Good(x) => Good(y)

LEMMA ReleaseKinds ==
    ASSUME NEW x \in ReleaseRows
    PROVE  x # None /\ x.version \in Nat /\ Grows(x, x)
<1>1. x # None
  BY SourceMapsAssumption DEF ReleaseRows
<1>2. x.version \in Nat
  BY DEF ReleaseRows
<1>3. x.version >= x.version
  BY <1>2
<1> QED
  BY <1>1, <1>2, <1>3 DEF Grows

\* A release row gets another state, not one that undoes a publication.
LEMMA StateChanged ==
    ASSUME NEW x \in ReleaseRows, NEW s \in {"missing", "pending", "ready", "failed", "removed"},
           x.version = 0 \/ s = "removed"
    PROVE  LET y == [x EXCEPT !.state = s] IN
           y \in ReleaseRows /\ y.version = x.version /\ Grows(x, y)
<1> DEFINE y == [x EXCEPT !.state = s]
<1>1. y \in ReleaseRows /\ y.version = x.version /\ y.state = s
  BY DEF ReleaseRows
<1> HIDE DEF y
<1>2. y # None /\ x.version \in Nat
  BY <1>1, ReleaseKinds
<1>3. y.version >= x.version
  BY <1>1, <1>2
<1>4. Good(x) => Good(y)
  BY <1>1, <1>2 DEF Good
<1>5. Grows(x, y)
  BY <1>2, <1>3, <1>4 DEF Grows
<1> QED
  BY <1>1, <1>5 DEF y

LEMMA UpsertedRow ==
    ASSUME Types, NEW r \in Releases
    PROVE  /\ Upserted(r) \in ReleaseRows
           /\ Grows(rel[r], Upserted(r))
           /\ Upserted(r).version = Version(r)
<1>1. CASE rel[r] = None
  <2> DEFINE new == [state |-> "missing", version |-> 0]
  <2>1. Upserted(r) = new /\ Version(r) = 0
    BY <1>1 DEF Upserted, Version
  <2>2. new \in ReleaseRows /\ new.version = 0
    BY DEF ReleaseRows
  <2> QED
    BY <1>1, <2>1, <2>2 DEF Grows
<1>2. CASE rel[r] # None
  <2>1. rel[r] \in ReleaseRows /\ Upserted(r) = rel[r] /\ Version(r) = rel[r].version
    BY <1>2 DEF Types, Upserted, Version
  <2> QED
    BY <2>1, ReleaseKinds DEF Grows
<1> QED
  BY <1>1, <1>2

LEMMA AwaitingRow ==
    ASSUME NEW x \in ReleaseRows
    PROVE  Awaiting(x) \in ReleaseRows /\ Awaiting(x).version = x.version /\ Grows(x, Awaiting(x))
<1>1. CASE x.version = 0
  BY <1>1, StateChanged DEF Awaiting
<1>2. CASE x.version # 0
  <2>1. Awaiting(x) = x
    BY <1>2 DEF Awaiting
  <2> QED
    BY <2>1, ReleaseKinds
<1> QED
  BY <1>1, <1>2

LEMMA RejectedRow ==
    ASSUME NEW x \in ReleaseRows
    PROVE  Rejected(x) \in ReleaseRows /\ Grows(x, Rejected(x))
<1>1. CASE x.version = 0
  BY <1>1, StateChanged DEF Rejected
<1>2. CASE x.version # 0
  <2>1. Rejected(x) = x
    BY <1>2 DEF Rejected
  <2> QED
    BY <2>1, ReleaseKinds
<1> QED
  BY <1>1, <1>2

LEMMA PublishedRow ==
    ASSUME NEW x \in ReleaseRows
    PROVE  /\ Published(x) \in ReleaseRows /\ Good(Published(x)) /\ Grows(x, Published(x))
           /\ Published(x).version = x.version + 1
<1> DEFINE v == x.version + 1
           y == [x EXCEPT !.state = "ready", !.version = v]
<1>0. x.version \in Nat
  BY ReleaseKinds
<1>1. Published(x) = y /\ v \in Nat /\ v > 0 /\ v >= x.version
  BY <1>0 DEF Published
<1>2. y \in ReleaseRows /\ y.version = v /\ y.state = "ready"
  <2> HIDE DEF v
  <2> QED
    BY <1>1 DEF ReleaseRows
<1>3. y # None /\ Good(y) /\ Grows(x, y)
  <2> HIDE DEF v, y
  <2> QED
    BY <1>1, <1>2, ReleaseKinds DEF Grows, Good
<1> QED
  BY <1>1, <1>2, <1>3

\* A step of one release row.
LEMMA ReleaseReplaced ==
    ASSUME Types, NEW r \in Releases, NEW y \in ReleaseRows \cup {None},
           rel' = [rel EXCEPT ![r] = y]
    PROVE  /\ rel' \in [Releases -> ReleaseRows \cup {None}]
           /\ rel'[r] = y
           /\ \A q \in Releases \ {r} : rel'[q] = rel[q]
BY DEF Types

LEMMA GrowsSame ==
    ASSUME NEW x \in ReleaseRows \cup {None}
    PROVE  Grows(x, x)
<1>1. CASE x = None
  BY <1>1 DEF Grows
<1> QED
  BY <1>1, ReleaseKinds

\* No release is taken back but by its own retention.
LEMMA ReleasesNext ==
    ASSUME Types, Next
    PROVE  /\ rel' \in [Releases -> ReleaseRows \cup {None}]
           /\ \A r \in Releases : Grows(rel[r], rel'[r]) \/ RetainRelease(r)
<1> DEFINE Goal == /\ rel' \in [Releases -> ReleaseRows \cup {None}]
                   /\ \A r \in Releases : Grows(rel[r], rel'[r]) \/ RetainRelease(r)
<1> SUFFICES Goal
  OBVIOUS
<1>1. CASE UNCHANGED rel
  BY <1>1, GrowsSame DEF Types
<1>2. ASSUME NEW r \in Releases, NEW y \in ReleaseRows \cup {None},
             rel' = [rel EXCEPT ![r] = y], Grows(rel[r], y) \/ RetainRelease(r)
      PROVE  Goal
  <2>1. /\ rel' \in [Releases -> ReleaseRows \cup {None}]
        /\ rel'[r] = y
        /\ \A q \in Releases \ {r} : rel'[q] = rel[q]
    BY <1>2, ReleaseReplaced
  <2>2. \A q \in Releases : rel[q] \in ReleaseRows \cup {None}
    BY DEF Types
  <2> QED
    BY <1>2, <2>1, <2>2, GrowsSame
<1>3. ASSUME NEW c \in Clients, CommitNew(c)
      PROVE  Goal
  <2> DEFINE r == ReleaseOf[client[c].m]
  <2>1. r \in Releases
    BY <1>3, CommitNewRow, SourceMapsAssumption
  <2>2. /\ Upserted(r) \in ReleaseRows
        /\ Awaiting(Upserted(r)) \in ReleaseRows
        /\ Grows(rel[r], Upserted(r))
        /\ Grows(Upserted(r), Awaiting(Upserted(r)))
    BY <2>1, UpsertedRow, AwaitingRow
  <2>3. Grows(rel[r], Awaiting(Upserted(r)))
    <3>1. CASE rel[r] = None
      BY <3>1 DEF Grows
    <3>2. CASE rel[r] # None
      <4>1. Upserted(r) = rel[r]
        BY <3>2 DEF Upserted
      <4> QED
        BY <2>2, <4>1
    <3> QED
      BY <3>1, <3>2
  <2>4. rel' = [rel EXCEPT ![r] = Awaiting(Upserted(r))]
    BY <1>3 DEF CommitNew
  <2> QED
    BY <1>2, <2>1, <2>2, <2>3, <2>4
<1>4. ASSUME NEW v \in Validators, Verdict(v), ~UNCHANGED <<upload, rel>>
      PROVE  Goal
  <2> DEFINE r == ReleaseOf[job[v].m]
  <2>1. r \in Releases
    BY <1>4, VerdictRow, SourceMapsAssumption
  <2>2. rel[r] \in ReleaseRows \cup {None}
    BY <2>1 DEF Types
  <2>3. CASE rel[r] # None /\ rel' = [rel EXCEPT ![r] = Published(rel[r])]
    BY <1>2, <2>1, <2>2, <2>3, PublishedRow
  <2>4. CASE rel[r] = None /\ rel' = [rel EXCEPT ![r] = None]
    BY <1>2, <2>1, <2>4, GrowsSame
  <2>5. CASE rel[r] # None /\ rel' = [rel EXCEPT ![r] = Rejected(rel[r])]
    BY <1>2, <2>1, <2>2, <2>5, RejectedRow
  <2> QED
    BY <1>4, <2>3, <2>4, <2>5, VerdictRow
<1>5. ASSUME NEW r \in Releases, rel' = [rel EXCEPT ![r] = Upserted(r)]
      PROVE  Goal
  BY <1>2, <1>5, UpsertedRow
<1>6. ASSUME NEW e \in Events, StoreEvent(e)
      PROVE  Goal
  <2>1. EventRelease[e] \in Releases
    BY SourceMapsAssumption
  <2> QED
    BY <1>1, <1>5, <1>6, <2>1 DEF StoreEvent
<1>7. ASSUME NEW r \in Releases, RetainRelease(r)
      PROVE  Goal
  BY <1>2, <1>7 DEF RetainRelease
<1>8. CASE MarkRemoved
  <2> DEFINE r == pass.rel
             y == [rel[r] EXCEPT !.state = "removed"]
  <2>1. r \in Releases
    BY <1>8 DEF MarkRemoved, Types, Passes
  <2>2. CASE rel[r] = None /\ rel' = [rel EXCEPT ![r] = None]
    BY <1>2, <2>1, <2>2, GrowsSame
  <2>3. CASE rel[r] \in ReleaseRows /\ rel' = [rel EXCEPT ![r] = y]
    BY <1>2, <2>1, <2>3, StateChanged
  <2>4. rel[r] \in ReleaseRows \cup {None}
    BY <2>1 DEF Types
  <2>5. rel' = [rel EXCEPT ![r] = IF rel[r] = None THEN None ELSE y]
    BY <1>8 DEF MarkRemoved
  <2> HIDE DEF Goal, y
  <2>6. CASE rel[r] = None
    BY <2>2, <2>5, <2>6
  <2>7. CASE rel[r] # None
    BY <2>3, <2>4, <2>5, <2>7
  <2> QED
    BY <2>6, <2>7
<1>9. ASSUME NEW r \in Releases, RegisterRelease(r)
      PROVE  Goal
  BY <1>5, <1>9 DEF RegisterRelease
<1> HIDE DEF Goal
<1>10. ASSUME NEW v \in Validators, Verdict(v)
       PROVE  Goal
  <2>1. CASE UNCHANGED <<upload, rel>>
    BY <1>1, <2>1
  <2>2. CASE ~UNCHANGED <<upload, rel>>
    BY <1>4, <1>10, <2>2
  <2> QED
    BY <2>1, <2>2
<1> QED
  BY <1>1, <1>3, <1>6, <1>7, <1>8, <1>9, <1>10, ReleaseSteps

-----------------------------------------------------------------------------
(* What a row's status may become.                                         *)

StatusStep(m) ==
    upload'[m] # None =>
        \/ /\ upload'[m].status = "receiving"
           /\ upload[m] # None \/ rel'[ReleaseOf[m]] # None
        \/ /\ upload[m] # None
           /\ \/ upload'[m].status = upload[m].status
              \/ /\ upload'[m].status \in {"pending", "validating"}
                 /\ upload[m].status \notin {"ready", "failed"}
              \/ /\ upload[m].status = "validating"
                 /\ upload'[m].status = "failed"
              \/ /\ upload[m].status = "validating"
                 /\ upload'[m].status = "ready"
                 /\ rel[ReleaseOf[m]] # None
                 /\ rel' = [rel EXCEPT ![ReleaseOf[m]] = Published(@)]

LEMMA StatusNext ==
    ASSUME Types, Next
    PROVE  \A m \in Manifests : StatusStep(m)
<1>0. ASSUME NEW m \in Manifests, upload'[m] = upload[m]
      PROVE  StatusStep(m)
  BY <1>0 DEF StatusStep
<1>1. CASE UNCHANGED upload
  BY <1>0, <1>1
<1>2. ASSUME NEW c \in Clients, CommitReset(c)
      PROVE  \A n \in Manifests : StatusStep(n)
  <2>1. CASE client[c].m \in Manifests /\ Refits(client[c].m, "receiving")
    <3>1. StatusStep(client[c].m)
      BY <2>1 DEF Refits, StatusStep
    <3> QED
      BY <1>0, <2>1, <3>1, RefitRows
  <2> QED
    BY <1>1, <1>2, <2>1, CommitResetRow
<1>3. ASSUME NEW c \in Clients, CommitNew(c)
      PROVE  \A n \in Manifests : StatusStep(n)
  <2> DEFINE m == client[c].m
             r == ReleaseOf[m]
  <2>1. /\ m \in Manifests /\ r \in Releases /\ upload'[m].status = "receiving"
        /\ \A n \in Manifests \ {m} : upload'[n] = upload[n]
    BY <1>3, CommitNewRow, SourceMapsAssumption
  <2>2. rel' = [rel EXCEPT ![r] = Awaiting(Upserted(r))]
    BY <1>3 DEF CommitNew
  <2>3. Awaiting(Upserted(r)) \in ReleaseRows
    BY <2>1, UpsertedRow, AwaitingRow
  <2>4. rel'[r] # None
    BY <2>1, <2>2, <2>3, ReleaseReplaced, ReleaseKinds
  <2>5. StatusStep(m)
    BY <2>1, <2>4 DEF StatusStep
  <2> QED
    BY <1>0, <2>1, <2>5
<1>4. ASSUME NEW c \in Clients, CommitPut(c)
      PROVE  \A n \in Manifests : StatusStep(n)
  <2> DEFINE m == client[c].m
  <2>1. CASE m \in Manifests /\ Refits(m, upload[m].status)
    <3>1. StatusStep(m)
      BY <2>1 DEF Refits, StatusStep
    <3> QED
      BY <1>0, <2>1, <3>1, RefitRows
  <2> QED
    BY <1>1, <1>4, <2>1, CommitPutRow
<1>5. ASSUME NEW m \in Manifests, NEW s, Follows(m, s),
             \/ s = upload[m].status
             \/ s \in {"pending", "validating"} /\ upload[m].status \notin {"ready", "failed"}
             \/ s = "failed" /\ upload[m].status = "validating"
             \/ /\ s = "ready" /\ upload[m].status = "validating"
                /\ rel[ReleaseOf[m]] # None
                /\ rel' = [rel EXCEPT ![ReleaseOf[m]] = Published(@)]
      PROVE  \A n \in Manifests : StatusStep(n)
  <2>1. \A n \in Manifests \ {m} : upload'[n] = upload[n]
    BY <1>5, FollowedRows
  <2>2. StatusStep(m)
    BY <1>5 DEF Follows, StatusStep
  <2> QED
    BY <1>0, <2>1, <2>2
<1>6. ASSUME NEW m \in Manifests, FinishUpload(m)
      PROVE  \A n \in Manifests : StatusStep(n)
  BY <1>5, <1>6, FinishRow
<1>7. ASSUME NEW m \in Manifests, RetainUpload(m)
      PROVE  \A n \in Manifests : StatusStep(n)
  <2>1. upload' = [upload EXCEPT ![m] = None]
    BY <1>7 DEF RetainUpload
  <2>2. upload'[m] = None /\ \A n \in Manifests \ {m} : upload'[n] = upload[n]
    BY <2>1 DEF Types, RowTypes
  <2> QED
    BY <1>0, <2>2 DEF StatusStep
<1>8. ASSUME NEW m \in Manifests, ExpireLease(m)
      PROVE  \A n \in Manifests : StatusStep(n)
  <2>1. Follows(m, upload[m].status)
    BY <1>8, LeaseRow DEF ExpireLease
  <2> QED
    BY <1>5, <2>1
<1>9. ASSUME NEW v \in Validators, NEW m \in Manifests, ClaimUpload(v, m)
      PROVE  \A n \in Manifests : StatusStep(n)
  BY <1>5, <1>9, ClaimRow
<1>10. ASSUME NEW v \in Validators, CheckUpload(v)
       PROVE  \A n \in Manifests : StatusStep(n)
  BY <1>1, <1>5, <1>10, CheckRow
<1>11. ASSUME NEW v \in Validators, Verdict(v)
       PROVE  \A n \in Manifests : StatusStep(n)
  BY <1>1, <1>5, <1>11, VerdictRow
<1>12. ASSUME NEW v \in Validators, Heartbeat(v)
       PROVE  \A n \in Manifests : StatusStep(n)
  BY <1>5, <1>12, HeartbeatRow
<1> QED
  BY <1>1, <1>2, <1>3, <1>4, <1>6, <1>7, <1>8, <1>9, <1>10, <1>11, <1>12, UploadSteps

-----------------------------------------------------------------------------
(* Each part of the invariant is kept.                                     *)

LEMMA UploadNext ==
    ASSUME Types, UploadInv, Next
    PROVE  UploadInv'
<1>1. CASE \E c \in Clients : CommitReset(c) \/ CommitNew(c) \/ CommitPut(c)
  BY <1>1, CommitResetKeeps, CommitNewKeeps, CommitPutKeeps
<1>2. CASE JobStep /\ ~(\E c \in Clients : CommitReset(c) \/ CommitNew(c) \/ CommitPut(c))
  <2>1. ASSUME NEW c \in Clients, AbortBegin(c)
        PROVE  UploadInv'
    BY <2>1, EndKeeps DEF AbortBegin, Creating, Resetting
  <2>2. ASSUME NEW c \in Clients, AbortPut(c)
        PROVE  UploadInv'
    BY <2>2, EndKeeps DEF AbortPut
  <2> QED
    BY <1>2, <2>1, <2>2, BeginAgainKeeps, BeginNewKeeps, StartPutKeeps, WriteFileKeeps
       DEF JobStep
<1>3. CASE SweepOrphans
  BY <1>3, SweepKeeps
<1>4. CASE \E f \in files : LoseFile(f)
  BY <1>4, LoseKeeps
<1>5. CASE /\ ~JobStep /\ ~SweepOrphans /\ ~(\E f \in files : LoseFile(f))
           /\ ~(\E c \in Clients : CommitReset(c) \/ CommitNew(c) \/ CommitPut(c))
  <2>1. UNCHANGED <<lock, client, begins>>
    BY <1>5, ClientSteps
  <2>2. UNCHANGED <<files, lost>>
    <3>1. CASE ValidatorStep
      BY <3>1 DEF ValidatorStep, ClaimUpload, CheckUpload, Verdict, AbandonUpload, Heartbeat
    <3>2. CASE EventStep
      BY <3>2 DEF EventStep, AdmitEvent, ReadVersion, StoreEvent, AbandonEvent, DropEvent
    <3>3. CASE RetentionStep
      BY <1>5, <3>3 DEF RetentionStep, CountReady, MarkRemoved, StopPass, RetainUpload,
                        RetainRelease
    <3>4. CASE \E r \in Releases : RegisterRelease(r)
      BY <3>4 DEF RegisterRelease
    <3>5. CASE \E m \in Manifests : FinishUpload(m) \/ ExpireLease(m)
      BY <3>5 DEF FinishUpload, ExpireLease
    <3> QED
      BY <1>5, <3>1, <3>2, <3>3, <3>4, <3>5 DEF Next
  <2>3. \A m \in Manifests : SameRow(m)
    BY <1>5, RowsNext
  <2> QED
    BY <2>1, <2>2, <2>3, RowsStay
<1> QED
  BY <1>1, <1>2, <1>3, <1>4, <1>5

LEMMA JobsNext ==
    ASSUME Types, Next
    PROVE  job' \in [Validators -> Jobs \cup {None}]
<1>1. job \in [Validators -> Jobs \cup {None}]
  BY DEF Types
<1>2. ASSUME NEW v \in Validators, NEW new \in Jobs \cup {None}, job' = [job EXCEPT ![v] = new]
      PROVE  job' \in [Validators -> Jobs \cup {None}]
  BY <1>1, <1>2
<1>3. ASSUME NEW v \in Validators, NEW m \in Manifests, ClaimUpload(v, m)
      PROVE  job' \in [Validators -> Jobs \cup {None}]
  <2> DEFINE a == upload[m].attempts + 1
             new == [m |-> m, attempts |-> a, art |-> Artifacts(m), valid |-> None]
  <2>1. upload[m] # None /\ upload[m] \in UploadRows
    BY <1>3 DEF ClaimUpload, Types, RowTypes
  <2>2. a \in Nat
    BY <2>1 DEF UploadRows
  <2>3. Artifacts(m) \in SUBSET Arts
    <3>1. \A x \in ArtifactsOf[m] : upload[m].art[x] \in Arts
      BY <2>1, ArtOfRow DEF Types
    <3> QED
      BY <3>1 DEF Artifacts
  <2>4. job' = [job EXCEPT ![v] = new]
    BY <1>3 DEF ClaimUpload
  <2> HIDE DEF a
  <2>5. new \in Jobs
    BY <2>2, <2>3 DEF Jobs
  <2> HIDE DEF new
  <2> QED
    BY <1>2, <2>4, <2>5
<1>4. ASSUME NEW v \in Validators, CheckUpload(v)
      PROVE  job' \in [Validators -> Jobs \cup {None}]
  <2>1. job[v] \in Jobs
    BY <1>1, <1>4 DEF CheckUpload
  <2>2. ASSUME NEW valid \in BOOLEAN
        PROVE  [job[v] EXCEPT !.valid = valid] \in Jobs
    BY <2>1 DEF Jobs
  <2>3. \/ job' = [job EXCEPT ![v] = None]
        \/ \E valid \in BOOLEAN : job' = [job EXCEPT ![v].valid = valid]
    BY <1>4 DEF CheckUpload
  <2>4. CASE \E valid \in BOOLEAN : job' = [job EXCEPT ![v].valid = valid]
    <3>1. PICK valid \in BOOLEAN : job' = [job EXCEPT ![v].valid = valid]
      BY <2>4
    <3>2. job' = [job EXCEPT ![v] = [job[v] EXCEPT !.valid = valid]]
      BY <3>1
    <3> QED
      BY <1>2, <2>2, <3>2
  <2> QED
    BY <1>2, <2>3, <2>4
<1>5. ASSUME NEW v \in Validators, Verdict(v) \/ AbandonUpload(v)
      PROVE  job' \in [Validators -> Jobs \cup {None}]
  BY <1>2, <1>5 DEF Verdict, AbandonUpload
<1>6. CASE UNCHANGED job
  BY <1>1, <1>6
<1>7. CASE ValidatorStep
  BY <1>3, <1>4, <1>5, <1>6, <1>7 DEF ValidatorStep, Heartbeat
<1>8. CASE JobStep
  BY <1>6, <1>8 DEF JobStep, BeginAgain, BeginNew, CommitReset, CommitNew, AbortBegin, StartPut,
                    WriteFile, CommitPut, AbortPut
<1>9. CASE EventStep
  BY <1>6, <1>9 DEF EventStep, AdmitEvent, ReadVersion, StoreEvent, AbandonEvent, DropEvent
<1>10. CASE RetentionStep
  BY <1>6, <1>10 DEF RetentionStep, CountReady, MarkRemoved, SweepOrphans, StopPass,
                     RetainUpload, RetainRelease
<1>11. CASE \E m \in Manifests : FinishUpload(m) \/ ExpireLease(m)
  BY <1>6, <1>11 DEF FinishUpload, ExpireLease
<1>12. CASE \/ \E r \in Releases : RegisterRelease(r)
            \/ \E f \in files : LoseFile(f)
  BY <1>6, <1>12 DEF RegisterRelease, LoseFile
<1> QED
  BY <1>7, <1>8, <1>9, <1>10, <1>11, <1>12 DEF Next

LEMMA PassNext ==
    ASSUME Types, Next
    PROVE  pass' \in Passes \cup {None}
<1>1. pass \in Passes \cup {None}
  BY DEF Types
<1>2. ASSUME NEW m \in Manifests, RetainUpload(m)
      PROVE  pass' \in Passes \cup {None}
  BY <1>2, SourceMapsAssumption DEF RetainUpload, Passes
<1>3. CASE CountReady
  <2>1. pass \in Passes
    BY <1>1, <1>3 DEF CountReady
  <2>2. [pass EXCEPT !.op = "mark"] \in Passes
    BY <2>1 DEF Passes
  <2> QED
    BY <1>3, <2>2 DEF CountReady
<1>4. CASE UNCHANGED pass
  BY <1>1, <1>4
<1>5. CASE RetentionStep
  BY <1>2, <1>3, <1>4, <1>5 DEF RetentionStep, MarkRemoved, SweepOrphans, StopPass, RetainRelease
<1>6. CASE JobStep
  BY <1>4, <1>6 DEF JobStep, BeginAgain, BeginNew, CommitReset, CommitNew, AbortBegin, StartPut,
                    WriteFile, CommitPut, AbortPut
<1>7. CASE EventStep
  BY <1>4, <1>7 DEF EventStep, AdmitEvent, ReadVersion, StoreEvent, AbandonEvent, DropEvent
<1>8. CASE ValidatorStep
  BY <1>4, <1>8 DEF ValidatorStep, ClaimUpload, CheckUpload, Verdict, AbandonUpload, Heartbeat
<1>9. CASE \E m \in Manifests : FinishUpload(m) \/ ExpireLease(m)
  BY <1>4, <1>9 DEF FinishUpload, ExpireLease
<1>10. CASE \/ \E r \in Releases : RegisterRelease(r)
            \/ \E f \in files : LoseFile(f)
  BY <1>4, <1>10 DEF RegisterRelease, LoseFile
<1> QED
  BY <1>5, <1>6, <1>7, <1>8, <1>9, <1>10 DEF Next

LEMMA VersionIs ==
    ASSUME Types, NEW r \in Releases
    PROVE  Version(r) \in Nat
<1>1. rel[r] \in ReleaseRows \cup {None}
  BY DEF Types
<1>2. CASE rel[r] = None
  BY <1>2 DEF Version
<1>3. CASE rel[r] # None
  BY <1>1, <1>3, ReleaseKinds DEF Version
<1> QED
  BY <1>2, <1>3

LEMMA VersionNext ==
    ASSUME Types, Next, NEW r \in Releases, Grows(rel[r], rel'[r])
    PROVE  Version(r)' \in Nat /\ Version(r) <= Version(r)'
<1>1. rel'[r] \in ReleaseRows \cup {None}
  BY ReleasesNext
<1>2. Version(r)' \in Nat
  <2>1. CASE rel'[r] = None
    BY <2>1 DEF Version
  <2>2. CASE rel'[r] # None
    BY <1>1, <2>2, ReleaseKinds DEF Version
  <2> QED
    BY <2>1, <2>2
<1>3. Version(r) \in Nat
  BY VersionIs
<1>4. CASE rel[r] = None
  BY <1>2, <1>4 DEF Version
<1>5. CASE rel[r] # None
  BY <1>2, <1>3, <1>5 DEF Version, Grows
<1> QED
  BY <1>2, <1>4, <1>5

\* A ready upload has the map of the event.
HasMap(e) ==
    \E m \in Manifests :
        /\ upload[m] # None
        /\ upload[m].status = "ready"
        /\ ReleaseOf[m] = EventRelease[e]
        /\ EventMap[e] \in ArtifactsOf[m]

LEMMA MapsFound ==
    ASSUME NEW e \in Events
    PROVE  /\ Candidates(e) # {} <=> HasMap(e)
           /\ Candidates(e)' # {} <=> HasMap(e)'
<1>1. Candidates(e) # {} <=> HasMap(e)
  BY DEF Candidates, HasMap, ReadyOf, RowsOf, Rows
<1>2. Candidates(e)' # {} <=> HasMap(e)'
  BY DEF Candidates, HasMap, ReadyOf, RowsOf, Rows
<1> QED
  BY <1>1, <1>2

\* What the steps of an event leave of it.
LEMMA EventOfStep ==
    ASSUME Types, NEW e \in Events, EventStep, event'[e] # event[e]
    PROVE  \/ AdmitEvent(e) \/ ReadVersion(e) \/ StoreEvent(e) \/ AbandonEvent(e) \/ DropEvent(e)
<1>1. PICK d \in Events :
        AdmitEvent(d) \/ ReadVersion(d) \/ StoreEvent(d) \/ AbandonEvent(d) \/ DropEvent(d)
  BY DEF EventStep
<1>2. event \in [Events -> EventRows \cup {None}]
  BY DEF Types
<1>3. \E y : event' = [event EXCEPT ![d] = y]
  BY <1>1 DEF AdmitEvent, ReadVersion, StoreEvent, AbandonEvent, DropEvent
<1>4. d = e
  BY <1>2, <1>3
<1> QED
  BY <1>1, <1>4

\* Each step of an event keeps its shape, and its numbers come from its
\* release's version or from what it had read.
EventStepped(e) ==
    /\ event'[e] \in EventRows \cup {None}
    /\ event'[e] # None =>
        \/ event'[e].seen = 0 /\ event'[e].reading = None /\ event'[e].phase = "queued"
        \/ /\ event[e] # None /\ event'[e].phase = event[e].phase
           /\ event'[e].state = event[e].state /\ event'[e].seen = event[e].seen
           /\ event'[e].reading \in {None, Version(EventRelease[e])}
        \/ /\ event[e] # None /\ event[e].reading # None
           /\ event'[e].seen = event[e].reading /\ event'[e].reading = None
           /\ event'[e].state = "missing" => event[e].reading = 0 \/ Candidates(e) = {}

LEMMA EventStepRow ==
    ASSUME Types, NEW e \in Events, EventStep, event'[e] # event[e]
    PROVE  EventStepped(e)
<1>1. event[e] \in EventRows \cup {None}
  BY DEF Types
<1>2. Version(EventRelease[e]) \in Nat
  BY VersionIs, SourceMapsAssumption
<1>3. ASSUME NEW y, event' = [event EXCEPT ![e] = y]
      PROVE  event'[e] = y
  BY <1>3 DEF Types
<1>4. CASE AdmitEvent(e)
  <2> DEFINE y == [phase |-> "queued", seen |-> 0, state |-> "missing", reading |-> None]
  <2>1. event'[e] = y
    BY <1>3, <1>4 DEF AdmitEvent
  <2>2. y \in EventRows /\ y.seen = 0 /\ y.reading = None /\ y.phase = "queued"
    BY DEF EventRows
  <2> QED
    BY <2>1, <2>2 DEF EventStepped
<1>5. ASSUME event[e] # None, NEW k \in Nat \cup {None}
      PROVE  LET y == [event[e] EXCEPT !.reading = k] IN
             /\ y \in EventRows /\ y.phase = event[e].phase /\ y.state = event[e].state
             /\ y.seen = event[e].seen /\ y.reading = k
  BY <1>1, <1>5 DEF EventRows
<1>6. CASE ReadVersion(e)
  <2> DEFINE y == [event[e] EXCEPT !.reading = Version(EventRelease[e])]
  <2>1. event'[e] = y /\ event[e] # None
    BY <1>3, <1>6 DEF ReadVersion
  <2>2. /\ y \in EventRows /\ y.phase = event[e].phase /\ y.state = event[e].state
        /\ y.seen = event[e].seen /\ y.reading = Version(EventRelease[e])
    BY <1>2, <1>5, <2>1
  <2> HIDE DEF y
  <2> QED
    BY <2>1, <2>2 DEF EventStepped
<1>7. CASE AbandonEvent(e)
  <2> DEFINE y == [event[e] EXCEPT !.reading = None]
  <2>1. event'[e] = y /\ event[e] # None
    BY <1>3, <1>7 DEF AbandonEvent
  <2>2. /\ y \in EventRows /\ y.phase = event[e].phase /\ y.state = event[e].state
        /\ y.seen = event[e].seen /\ y.reading = None
    BY <1>5, <2>1
  <2> HIDE DEF y
  <2> QED
    BY <2>1, <2>2 DEF EventStepped
<1>8. CASE StoreEvent(e)
  <2>1. event[e] # None /\ event[e].reading # None
    BY <1>8 DEF StoreEvent
  <2>2. PICK s \in Outcomes(e) : event' = [event EXCEPT ![e] =
          [phase |-> "stored", seen |-> event[e].reading, state |-> s, reading |-> None]]
    BY <1>8 DEF StoreEvent, SeenVersion
  <2> DEFINE y == [phase |-> "stored", seen |-> event[e].reading, state |-> s, reading |-> None]
  <2>3. event[e].reading \in Nat
    BY <1>1, <2>1 DEF EventRows
  <2>4. /\ s \in {"missing", "failed", "complete"}
        /\ s = "missing" => event[e].reading = 0 \/ Candidates(e) = {}
    BY DEF Outcomes
  <2>5. event'[e] = y
    BY <1>3, <2>2
  <2>6. y \in EventRows /\ y.seen = event[e].reading /\ y.reading = None /\ y.state = s
    BY <2>3, <2>4 DEF EventRows
  <2> HIDE DEF y
  <2> QED
    BY <2>1, <2>4, <2>5, <2>6 DEF EventStepped
<1>9. CASE DropEvent(e)
  <2>1. event'[e] = None
    BY <1>3, <1>9 DEF DropEvent
  <2> QED
    BY <2>1 DEF EventStepped
<1> QED
  BY <1>4, <1>6, <1>7, <1>8, <1>9, EventOfStep

LEMMA EventsNext ==
    ASSUME Types, Next
    PROVE  /\ event' \in [Events -> EventRows \cup {None}]
           /\ \A e \in Events : event'[e] = event[e] \/ (EventStepped(e) /\ UNCHANGED upload)
<1>1. event \in [Events -> EventRows \cup {None}]
  BY DEF Types
<1>2. CASE UNCHANGED event
  BY <1>1, <1>2
<1>3. CASE EventStep /\ UNCHANGED upload
  <2>1. \A e \in Events : event'[e] = event[e] \/ EventStepped(e)
    BY <1>3, EventStepRow
  <2>2. \A e \in Events : event'[e] \in EventRows \cup {None}
    BY <1>1, <2>1 DEF EventStepped
  <2>3. \E e \in Events : \E y : event' = [event EXCEPT ![e] = y]
    BY <1>3 DEF EventStep, AdmitEvent, ReadVersion, StoreEvent, AbandonEvent, DropEvent
  <2>4. event' \in [Events -> EventRows \cup {None}]
    BY <1>1, <2>2, <2>3
  <2> QED
    BY <1>3, <2>1, <2>4
<1> QED
  BY <1>2, <1>3, EventSteps

LEMMA TypesNext ==
    ASSUME Types, UploadInv, Next
    PROVE  Types'
<1>1. RowTypes'
  BY RowsNext
<1>2. ClientTypes' /\ begins' \in Nat
  BY ClientsNext
<1>3. rel' \in [Releases -> ReleaseRows \cup {None}]
  BY ReleasesNext
<1>4. job' \in [Validators -> Jobs \cup {None}] /\ pass' \in Passes \cup {None}
  BY JobsNext, PassNext
<1>5. event' \in [Events -> EventRows \cup {None}]
  BY EventsNext
<1> QED
  BY <1>1, <1>2, <1>3, <1>4, <1>5 DEF Types

LEMMA ReleaseNext ==
    ASSUME Types, UploadInv, ReleaseInv, Next
    PROVE  ReleaseInv'
<1> SUFFICES ASSUME NEW m \in Manifests, upload'[m] # None
             PROVE  /\ rel'[ReleaseOf[m]] # None
                    /\ upload'[m].status = "ready" => Good(rel'[ReleaseOf[m]])
  BY DEF ReleaseInv, Good
<1> DEFINE r == ReleaseOf[m]
<1>1. r \in Releases /\ rel[r] \in ReleaseRows \cup {None}
  BY SourceMapsAssumption DEF Types
<1>2. CASE RetainRelease(r)
  <2>1. upload'[m] = upload[m]
    BY <1>2 DEF RetainRelease
  <2>2. m \in RowsOf(r)
    BY <2>1 DEF RowsOf, Rows
  <2> QED
    BY <1>2, <2>2 DEF RetainRelease
<1>3. CASE Grows(rel[r], rel'[r])
  <2>1. CASE upload[m] # None /\ upload'[m].status \in {upload[m].status, "receiving"}
    <3>1. rel[r] # None /\ (upload[m].status = "ready" => Good(rel[r]))
      BY <2>1 DEF ReleaseInv, Good
    <3> QED
      BY <1>3, <2>1, <3>1 DEF Grows
  <2>2. CASE upload'[m].status = "receiving" /\ rel'[r] # None
    BY <2>2
  <2>3. CASE upload[m] # None /\ upload'[m].status # "ready"
    <3>1. rel[r] # None
      BY <2>3 DEF ReleaseInv
    <3> QED
      BY <1>3, <2>3, <3>1 DEF Grows
  <2>4. CASE rel[r] # None /\ rel' = [rel EXCEPT ![r] = Published(rel[r])]
    <3>1. Published(rel[r]) \in ReleaseRows /\ Good(Published(rel[r]))
      BY <1>1, <2>4, PublishedRow
    <3>2. rel'[r] = Published(rel[r])
      BY <1>1, <2>4, <3>1, ReleaseReplaced
    <3> QED
      BY <3>1, <3>2, ReleaseKinds
  <2>5. StatusStep(m)
    BY StatusNext
  <2> QED
    BY <2>1, <2>2, <2>3, <2>4, <2>5 DEF StatusStep
<1> QED
  BY <1>1, <1>2, <1>3, ReleasesNext

LEMMA EventNext ==
    ASSUME Types, ReleaseInv, EventInv, Next
    PROVE  EventInv'
<1> SUFFICES ASSUME NEW e \in Events, event'[e] # None
             PROVE  /\ event'[e].seen <= Version(EventRelease[e])'
                    /\ event'[e].reading # None =>
                          event'[e].reading <= Version(EventRelease[e])'
                    /\ /\ event'[e].phase = "stored" /\ event'[e].state = "missing"
                       /\ HasMap(e)'
                       => event'[e].seen < Version(EventRelease[e])'
  BY MapsFound DEF EventInv, NoMissedMaps
<1> DEFINE r == EventRelease[e]
<1>1. r \in Releases /\ event[e] \in EventRows \cup {None}
  BY SourceMapsAssumption DEF Types
<1>2. Version(r) \in Nat
  BY <1>1, VersionIs
<1>3. event[e] # None =>
        /\ event[e].seen \in Nat /\ event[e].seen <= Version(r)
        /\ event[e].reading # None =>
              event[e].reading \in Nat /\ event[e].reading <= Version(r)
  BY <1>1 DEF EventInv, EventRows
<1>4. CASE event'[e] = event[e]
  <2>1. ~RetainRelease(r)
    <3>1. event[e].phase \in {"queued", "stored"}
      BY <1>1, <1>4 DEF EventRows
    <3> QED
      BY <1>4, <3>1 DEF RetainRelease, Waiting, Stored
  <2>2. Version(r)' \in Nat /\ Version(r) <= Version(r)'
    BY <1>1, <2>1, ReleasesNext, VersionNext
  <2>3. event'[e].seen <= Version(r)'
    BY <1>2, <1>3, <1>4, <2>2
  <2>4. event'[e].reading # None => event'[e].reading <= Version(r)'
    BY <1>2, <1>3, <1>4, <2>2
  <2>5. ASSUME event[e].phase = "stored", event[e].state = "missing", HasMap(e)'
        PROVE  event[e].seen < Version(r)'
    <3>1. CASE HasMap(e)
      <4>1. event[e].seen < Version(r)
        BY <1>4, <2>5, <3>1, MapsFound DEF EventInv, NoMissedMaps
      <4> QED
        BY <1>2, <1>3, <1>4, <2>2, <4>1
    <3>2. CASE ~HasMap(e)
      <4>1. PICK m \in Manifests :
              upload'[m] # None /\ upload'[m].status = "ready" /\ ReleaseOf[m] = r
              /\ EventMap[e] \in ArtifactsOf[m]
        BY <2>5 DEF HasMap
      <4>2. ~(upload[m] # None /\ upload[m].status = "ready")
        BY <3>2, <4>1 DEF HasMap
      <4>3. StatusStep(m)
        BY StatusNext
      <4>4. rel[r] # None /\ rel' = [rel EXCEPT ![r] = Published(rel[r])]
        BY <4>1, <4>2, <4>3 DEF StatusStep
      <4>5. rel[r] \in ReleaseRows
        BY <1>1, <4>4 DEF Types
      <4>6. /\ Published(rel[r]) \in ReleaseRows
            /\ Published(rel[r]).version = rel[r].version + 1
        BY <4>5, PublishedRow
      <4>7. rel'[r] = Published(rel[r])
        BY <1>1, <4>4, <4>6, ReleaseReplaced
      <4>8. Version(r)' = Version(r) + 1
        BY <4>4, <4>6, <4>7, ReleaseKinds DEF Version
      <4> QED
        BY <1>2, <1>3, <1>4, <4>8
    <3> QED
      BY <3>1, <3>2
  <2> QED
    BY <1>4, <2>3, <2>4, <2>5
<1>5. CASE EventStepped(e) /\ UNCHANGED upload /\ event'[e] # event[e]
  <2>1. Version(r)' \in Nat /\ Version(r) <= Version(r)'
    <3>1. CASE RetainRelease(r)
      BY <1>5, <3>1 DEF RetainRelease
    <3> QED
      BY <1>1, <3>1, ReleasesNext, VersionNext
  <2>2. CASE event'[e].seen = 0 /\ event'[e].reading = None /\ event'[e].phase = "queued"
    BY <2>1, <2>2
  <2>3. HasMap(e)' => HasMap(e)
    BY <1>5 DEF HasMap
  <2>4. CASE /\ event[e] # None /\ event'[e].phase = event[e].phase
             /\ event'[e].state = event[e].state /\ event'[e].seen = event[e].seen
             /\ event'[e].reading \in {None, Version(r)}
    <3>1. event'[e].seen <= Version(r)'
      BY <1>2, <1>3, <2>1, <2>4
    <3>2. event'[e].reading # None => event'[e].reading <= Version(r)'
      BY <1>2, <2>1, <2>4
    <3>3. ASSUME event[e].phase = "stored", event[e].state = "missing", HasMap(e)
          PROVE  event[e].seen < Version(r)'
      <4>1. event[e].seen < Version(r)
        BY <2>4, <3>3, MapsFound DEF EventInv, NoMissedMaps
      <4> QED
        BY <1>2, <1>3, <2>1, <2>4, <4>1
    <3> QED
      BY <2>3, <2>4, <3>1, <3>2, <3>3
  <2>5. CASE /\ event[e] # None /\ event[e].reading # None
             /\ event'[e].seen = event[e].reading /\ event'[e].reading = None
             /\ event'[e].state = "missing" => event[e].reading = 0 \/ Candidates(e) = {}
    <3>1. event'[e].seen <= Version(r)'
      BY <1>2, <1>3, <2>1, <2>5
    <3>2. ASSUME event'[e].state = "missing", HasMap(e)
          PROVE  event'[e].seen < Version(r)'
      <4>1. event[e].reading = 0
        BY <2>5, <3>2, MapsFound
      <4>2. Version(r) > 0
        BY <3>2 DEF HasMap, ReleaseInv, Version
      <4> QED
        BY <1>2, <2>1, <2>5, <4>1, <4>2
    <3> QED
      BY <2>3, <2>5, <3>1, <3>2
  <2> QED
    BY <1>5, <2>2, <2>4, <2>5 DEF EventStepped
<1> QED
  BY <1>4, <1>5, EventsNext

-----------------------------------------------------------------------------
(* The theorems.                                                           *)

LEMMA MapsInitially == Init => MapsInv
<1> SUFFICES ASSUME Init
             PROVE  MapsInv
  OBVIOUS
<1> USE DEF Init
<1>1. Types
  BY DEF Types, RowTypes, ClientTypes, Creating, Putting
<1>2. UploadInv
  BY DEF UploadInv, LockInv, FreshInv, RowsInv, PlanInv, PutInv, Creating, Resetting, Putting
<1>3. ReleaseInv /\ EventInv
  BY DEF ReleaseInv, EventInv, NoMissedMaps
<1> QED
  BY <1>1, <1>2, <1>3 DEF MapsInv

LEMMA MapsStep == MapsInv /\ [Next]_vars => MapsInv'
<1>1. CASE MapsInv /\ Next
  BY <1>1, TypesNext, UploadNext, ReleaseNext, EventNext DEF MapsInv
<1>2. CASE MapsInv /\ UNCHANGED vars
  <2>1. Types' /\ ReleaseInv'
    BY <1>2 DEF vars, MapsInv, Types, RowTypes, ClientTypes, ReleaseInv, Creating, Putting
  <2>2. UploadInv'
    BY <1>2, RowsStay DEF vars, MapsInv, SameRow
  <2>3. EventInv'
    BY <1>2 DEF vars, MapsInv, EventInv, NoMissedMaps, Version, Candidates, ReadyOf, RowsOf, Rows
  <2> QED
    BY <2>1, <2>2, <2>3 DEF MapsInv
<1> QED
  BY <1>1, <1>2

\* The invariant holds of everything that can happen, in any number of jobs,
\* validators, retention passes and events of the project's manifests.
THEOREM MapsInvariant == Spec => []MapsInv
<1>1. Init => MapsInv
  BY MapsInitially
<1>2. MapsInv /\ [Next]_vars => MapsInv'
  BY MapsStep
<1> QED
  BY <1>1, <1>2, PTL DEF Spec

\* An upload past finishUpload has every file it names but for what the volume
\* lost, and uploads agree about a place: begins reserve under one lock, a put
\* commits what it wrote, and the sweep takes only files no row names.
THEOREM UploadsStayWhole == Spec => []UploadsAreWhole
<1>1. MapsInv => UploadsAreWhole
  <2> SUFFICES ASSUME RowsInv
               PROVE  UploadsAreWhole
    BY DEF MapsInv, UploadInv
  <2>1. SubmittedHasFiles
    <3> SUFFICES ASSUME NEW m \in Manifests, upload[m] # None, upload[m].status \in Submitted,
                        NEW x \in ArtifactsOf[m]
                 PROVE  upload[m].art[x].uploaded /\ upload[m].art[x].file \in files \cup lost
      BY DEF SubmittedHasFiles, Rows, Artifacts, Submitted
    <3> QED
      BY DEF RowsInv, Kept
  <2>2. OneFilePerPlace
    BY DEF RowsInv, OneFilePerPlace, Rows
  <2> QED
    BY <2>1, <2>2 DEF UploadsAreWhole
<1> QED
  BY <1>1, MapsInvariant, PTL

\* While an upload exists so does its release, and with a ready upload it stays
\* published (the conditions on sourceMapsVersion = 0; retainReleases).
THEOREM ReleasesStayPublished == Spec => []PublishedWithRelease
<1>1. MapsInv => PublishedWithRelease
  BY DEF MapsInv, ReleaseInv, PublishedWithRelease, Rows
<1> QED
  BY <1>1, MapsInvariant, PTL

\* No event without context is level with its release while a ready map of it
\* exists: it is reprocessed, whenever its version was read (resolveFrames).
THEOREM MapsAreNotMissed == Spec => []NoMissedMaps
<1>1. MapsInv => NoMissedMaps
  BY DEF MapsInv, EventInv
<1> QED
  BY <1>1, MapsInvariant, PTL

\* A published or rejected upload is reset or deleted, never judged again: the
\* fence of a verdict is the status and the token of its claim.
THEOREM VerdictsStand == Spec => VerdictStands
<1>1. MapsInv /\ [Next]_vars =>
        \A m \in Manifests :
            /\ upload[m] # None /\ upload[m].status \in {"ready", "failed"}
            /\ upload'[m] # None
            => \/ upload'[m].status = upload[m].status
               \/ upload'[m].status = "receiving"
  <2>1. CASE MapsInv /\ Next
    <3>1. \A m \in Manifests : StatusStep(m)
      BY <2>1, StatusNext DEF MapsInv
    <3> QED
      BY <3>1 DEF StatusStep
  <2>2. CASE UNCHANGED vars
    BY <2>2 DEF vars
  <2> QED
    BY <2>1, <2>2
<1> QED
  BY <1>1, MapsInvariant, PTL DEF Spec, VerdictStands

=============================================================================
