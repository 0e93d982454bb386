\* Two devices and two sockets, of which a text finds one each, typed in either case.
CONSTANTS
    eth = eth
    lo = lo
    ssh = ssh
    dns = dns
    lower = lower
    upper = upper
    Blank = Blank
    Texts = {Blank, lower, upper}
    Lower <- MCLower
    Devices = {eth, lo}
    Sockets = {ssh, dns}
    Finds <- MCFinds
SPECIFICATION Spec
INVARIANTS
    TypeOK
    CaptureIsSeen
    ModesAgree
    LivePromptApplies
    ListsAgree
