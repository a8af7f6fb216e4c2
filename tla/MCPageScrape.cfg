\* Every page of up to two rows of two uploaders, rendered and hydrated in any order.
CHECK_DEADLOCK FALSE
SPECIFICATION Spec
CONSTANTS
    ann = ann
    bob = bob
    s = s
    t = t
    Track = {s, t}
    NoUrl = nourl
    Uploader <- OneEach
    Nameless = nameless
    Unknown = unknown
    MaxScroll = 2
    MaxRows = 2
INVARIANTS
    TypeOK
    NoFalseCredit
    RenderedListed
