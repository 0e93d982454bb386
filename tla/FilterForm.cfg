\* One address, one port, one protocol, one text of each kind that does not compile,
\* a link type that carries ARP and one that does not, two forms.
CONSTANTS
    AllProtos <- MCAllProtos
    AllSides <- MCAllSides
    Addrs = {host}
    V6 = {}
    Parts = {}
    Within <- MCWithin
    Ports = {}
    PortWords = {word}
    Unset = Unset
    Absent = Absent
    LinkTypes = {ether, tun}
    FirstLink = ether
    ArpLinks = {ether}
    RawPrograms <- MCRawPrograms
    NoForm = NoForm
    NoPicker = NoPicker
    MaxForms = 2
SPECIFICATION Spec
INVARIANTS
    TypeOK
    ProgramInstalled
    PickerOnFocus
    ErrorIsCurrent
PROPERTIES
    LiveFilterStands
    FormKeepsEdits
    PickTakes
