CONSTANTS
    web = web
    conn = conn
    dns = dns
    Inodes = {web, conn, dns}
    Socket <- MCSocket
    LastPid = 2
    fd1 = fd1
    fd2 = fd2
    Fds = {fd1, fd2}
    nginx = nginx
    named = named
    Programs = {nginx, named}
    Private = {named}
    Nameless = {nginx}
    Bare = {named}
    MaxChanges = 2
    alpha = alpha
    sigma = sigma
    small = small
    final = final
    bang = bang
    wide = wide
    Chars = {alpha, sigma, bang, wide}
    Forms = {alpha, sigma, small, final, bang, wide}
    Spaces = {wide}
    Width <- MCWidth
    MaxChars = 3
    Lower <- MCLower
    Bang = bang
    Words <- MCWords
SYMMETRY MCSymmetry
SPECIFICATION PortsSpec
INVARIANTS
    OnBoundary
PROPERTIES
    SteadyListed
    NamesOwner
    CursorSpec
    SearchNarrows
