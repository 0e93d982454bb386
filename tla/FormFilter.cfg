\* The instance of FilterForm.cfg with one form.
CONSTANTS
    AllProtos <- MCAllProtos
    AllSides <- MCAllSides
    Addrs = {host}
    V6 = {}
    Parts = {}
    Within <- MCWithin
    Ports = {}
    PortWords = {word}
    Unset = Unset
    Absent = Absent
    LinkTypes = {ether, tun}
    FirstLink = ether
    ArpLinks = {ether}
    RawPrograms <- MCRawPrograms
    NoForm = NoForm
    NoPicker = NoPicker
    MaxForms = 1
SPECIFICATION Spec
PROPERTIES
    FilterStands
