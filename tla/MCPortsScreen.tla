----------------------------- MODULE MCPortsScreen ----------------------------
(* Small instances of PortsScreen for TLC: a web server on a TCP port any host *)
(* can reach, a connection to it, and a UDP socket of another user's program.  *)
EXTENDS PortsScreen, TLC

CONSTANTS web, conn, dns, fd1, fd2, alpha, sigma, small, final, bang, wide, nginx, named

MCSymmetry == Permutations(Fds)

MCSocket ==
    [i \in Inodes |->
        CASE i = web -> [table |-> 1, state |-> "Listen", peer |-> FALSE,
                         addr |-> "unspecified", port |-> 80]
          [] i = conn -> [table |-> 2, state |-> "Established", peer |-> TRUE,
                          addr |-> "other", port |-> 80]
          [] i = dns -> [table |-> 3, state |-> "Other", peer |-> FALSE,
                         addr |-> "loopback", port |-> 53]]

MCWidth == [c \in Chars |-> IF c = wide THEN 3 ELSE IF c = bang THEN 1 ELSE 2]

\* A capital sigma is written one way at the end of a word and another elsewhere.
MCLower ==
    LET Letter(text, i) == i \in DOMAIN text /\ text[i] \in {alpha, sigma}
    IN  [text \in Texts |->
            [i \in DOMAIN text |->
                CASE text[i] # sigma -> text[i]
                  [] Letter(text, i - 1) /\ ~Letter(text, i + 1) -> final
                  [] OTHER -> small]]

MCWords ==
    [s \in Inodes \cup Programs |->
        CASE s = nginx -> {<<alpha, small, alpha>>}
          [] s = named -> {<<sigma>>, <<alpha, final>>}
          [] OTHER -> {}]
===============================================================================
