\* The instance of Interface.cfg.
CONSTANTS
    eth = eth
    lo = lo
    ssh = ssh
    dns = dns
    lower = lower
    upper = upper
    Blank = Blank
    Texts = {Blank, lower, upper}
    Lower <- MCLower
    Devices = {eth, lo}
    Sockets = {ssh, dns}
    Finds <- MCFinds
SPECIFICATION Spec
PROPERTIES
    EscCancels
