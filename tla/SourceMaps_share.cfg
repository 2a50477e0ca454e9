SPECIFICATION Spec
CONSTANTS
    m1 = m1
    m2 = m2
    ca = ca
    cb = cb
    pa = pa
    pb = pb
    rel1 = rel1
    ev = ev
    ci1 = ci1
    ci2 = ci2
    v1 = v1
    v2 = v2
    None = None
    Manifests <- MCManifests
    Contents <- MCContents
    Places <- MCPlaces
    Releases <- MCReleases
    ArtifactsOf <- MCArtifactsOf
    ReleaseOf <- MCReleaseOf
    PlaceOf <- MCPlaceOf
    Events <- MCEvents
    EventRelease <- MCEventRelease
    EventMap <- MCEventMap
    Clients <- MCClients
    Validators <- MCValidators
    AttemptLimit = 1
    MaxBegins = 2
    MaxLosses = 1
SYMMETRY Symmetry
CHECK_DEADLOCK FALSE
INVARIANTS
    UploadsAreWhole
    NoMissedMaps
    PublishedWithRelease
PROPERTIES
    VerdictStands
