------------------------------ MODULE PortsScreen -----------------------------
(***************************************************************************)
(* The ports screen: the listening sockets are read, the whole program     *)
(* waiting, and the list is then searched as the query is typed (the ports *)
(* keys and the prompt of src/app.rs, matches of src/sockets.rs).  This is *)
(* Sockets followed by LineInput, with a search between them.              *)
(*                                                                         *)
(* One reading is followed to its list; another one, the cursor in the     *)
(* list and the other prompts are in Interface.                            *)
(***************************************************************************)
EXTENDS Sockets, LineInput

CONSTANTS
    Lower,  \* str::to_lowercase: how a character is written may hang on those around it
    Forms,  \* the characters of texts in lower case, and of what is searched
    Bang,   \* the `!` that negates a term
    Words   \* what build_search writes of a socket or a program: make_ascii_lowercase,
            \* so that an upper-case letter beyond ASCII stays one

Texts == UNION {[1..n -> Chars] : n \in 0..MaxChars}

\* White space and `!` stay themselves, and leave what stands before them as it is.
ASSUME PortsAssumption ==
    /\ Bang \in Chars \ Spaces
    /\ Spaces \cup {Bang} \subseteq Forms
    /\ Lower \in [Texts -> Seq(Forms)]
    /\ \A text \in Texts, c \in Spaces \cup {Bang} :
          Len(text) < MaxChars => Lower[Append(text, c)] = Append(Lower[text], c)
    /\ Words \in [Inodes \cup Programs -> SUBSET Seq(Forms)]

VARIABLES
    open,        \* App::prompt is PortSearch
    ports_query, \* App::ports_query, as bytes
    ports_view   \* rows of listeners that match

promptVars == <<open, ports_query, ports_view>>
screenVars == <<socketVars, lineVars, promptVars>>

PortsInit ==
    /\ SocketsInit /\ LineInit
    /\ open = FALSE /\ ports_query = <<>> /\ ports_view = {}

-------------------------------------------------------------------------------
(* Listener::matches                                                       *)

\* split_whitespace
Terms(query) ==
    {SubSeq(query, run[1], run[2]) : run \in
        {r \in (1..Len(query)) \X (1..Len(query)) :
            /\ r[1] <= r[2]
            /\ \A i \in r[1]..r[2] : query[i] \notin Spaces
            /\ r[1] > 1 => query[r[1] - 1] \in Spaces
            /\ r[2] < Len(query) => query[r[2] + 1] \in Spaces}}

Contains(word, term) ==
    \E first \in 1..(Len(word) - Len(term) + 1) :
        SubSeq(word, first, first + Len(term) - 1) = term

\* The words of the line build_search makes of a row.
Haystack(row) ==
    UNION {Words[source] : source \in {row.inode, row.process, row.command} \ {Nobody}}

\* A term has no space, so it is found in one of the words.
Found(row, term) == \E word \in Haystack(row) : Contains(word, term)

\* Faulty: a `!` with nothing behind it yet excludes every row.
MeetsStrictly(row, term) ==
    IF Head(term) = Bang THEN ~Found(row, Tail(term)) ELSE Found(row, term)

\* A `!` with nothing behind it yet excludes nothing.
Meets(row, term) ==
    IF Head(term) = Bang
    THEN Tail(term) = <<>> \/ ~Found(row, Tail(term))
    ELSE Found(row, term)

Matches(row, query) == \A term \in Terms(query) : Meets(row, term)

Lowered(query) == Lower[Decode(query)]

\* rebuild_ports_view
RowsMatching(list, query) ==
    LET lowered == Lowered(query) IN {k \in DOMAIN list : Matches(list[k], lowered)}

RebuildPortsView == ports_view' = RowsMatching(listeners', ports_query')

-------------------------------------------------------------------------------
(* Keys                                                                    *)

Listening == step = "done" \/ step = "failed"

\* The reading, with the program waiting for it; the list is shown at once.
Refresh ==
    /\ SocketsNext
    /\ UNCHANGED <<lineVars, open, ports_query>>
    /\ IF step' \in {"done", "failed"} THEN RebuildPortsView ELSE UNCHANGED ports_view

\* `/`, over the query in force.
OpenPrompt ==
    /\ Listening /\ ~open
    /\ open' = TRUE
    /\ WithValue(ports_query)
    /\ UNCHANGED <<socketVars, ports_query, ports_view>>

\* The query follows every edit.
EditQuery ==
    /\ Listening /\ open
    /\ Edit
    /\ ports_query' = value'
    /\ UNCHANGED <<socketVars, open>>
    /\ RebuildPortsView

MoveCaret == Listening /\ open /\ Move /\ UNCHANGED <<socketVars, promptVars>>

\* Enter keeps the query, Esc drops it.
Enter ==
    /\ Listening /\ open
    /\ open' = FALSE
    /\ Clear
    /\ UNCHANGED <<socketVars, ports_query, ports_view>>

Esc ==
    /\ Listening /\ open
    /\ open' = FALSE
    /\ Clear
    /\ ports_query' = <<>>
    /\ UNCHANGED socketVars
    /\ RebuildPortsView

\* `n`
ClearQuery ==
    /\ Listening /\ ~open
    /\ ports_query' = <<>>
    /\ UNCHANGED <<socketVars, lineVars, open>>
    /\ RebuildPortsView

Keys == OpenPrompt \/ EditQuery \/ MoveCaret \/ Enter \/ Esc \/ ClearQuery

PortsNext == Refresh \/ Keys

PortsSpec == PortsInit /\ [][PortsNext]_screenVars

-------------------------------------------------------------------------------
(* Properties                                                              *)

\* The editor is a cursor between characters, however many bytes each takes.
Cursor == INSTANCE TextCursor WITH
              before <- Decode(SubSeq(value, 1, cursor)),
              after <- Decode(SubSeq(value, cursor + 1, Len(value)))

CursorSpec == Cursor!Spec

\* A character typed at the end of the query narrows the list, or leaves it alone
\* where it is a space or the `!` of a term to come; only one typed into a negated
\* term, or one that changes how the text before it is written in lower case, may
\* bring rows back.
SearchNarrows ==
    [][\A c \in Chars :
          open /\ ports_query' = ports_query \o Encode(c) =>
             LET was == Lowered(ports_query)
                 now == Lowered(ports_query')
                 begins == Len(was) <= Len(now) /\ SubSeq(now, 1, Len(was)) = was
                 gap == was = <<>> \/ was[Len(was)] \in Spaces
                 negated == \E i \in DOMAIN was :
                               /\ was[i] = Bang
                               /\ i > 1 => was[i - 1] \in Spaces
                               /\ \A j \in i..Len(was) : was[j] \notin Spaces
             IN  /\ begins /\ ~negated => ports_view' \subseteq ports_view
                 /\ c \in Spaces \/ (gap /\ c = Bang) => ports_view' = ports_view]_screenVars
===============================================================================
