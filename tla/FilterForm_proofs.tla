-------------------------- MODULE FilterForm_proofs --------------------------
(***************************************************************************)
(* Theorems about FilterForm, for any protocols, addresses, ports, texts,  *)
(* link types and programs, and any number of forms opened.                *)
(***************************************************************************)
EXTENDS FilterForm, FiniteSetTheorems, SequenceTheorems, TLAPS

-------------------------------------------------------------------------------
(* Fields.                                                                 *)

TextFields == {"source", "destination", "port"}
FieldNames == TextFields \cup {"protocol", "port_side", "target"}

LEMMA FieldFacts ==
    /\ Len(FIELDS) = 6 /\ DOMAIN FIELDS = 1..6
    /\ \A i \in 1..6 : FIELDS[i] \in FieldNames
    BY DEF FIELDS, FieldNames, TextFields

LEMMA TextFacts ==
    /\ \A f \in TextFields : IsText(f) /\ TextsOf(f) \subseteq HostTexts \cup PortTexts
    /\ \A f : IsText(f) <=> f \in TextFields
    /\ \A f \in TextFields : Unset \in TextsOf(f)
    BY DEF IsText, TextFields, TextsOf, HostTexts, PortTexts

LEMMA DefaultFields == DOMAIN Default = TextFields \cup {"protocol", "port_side"}
    BY DEF Default, TextFields

\* A text written to a text field leaves every other field alone.
LEMMA TextSet ==
    ASSUME NEW spec \in FilterSpecs, NEW f \in TextFields, NEW text \in TextsOf(f)
    PROVE  /\ [spec EXCEPT ![f] = text] \in FilterSpecs
           /\ [spec EXCEPT ![f] = text][f] = text
           /\ \A g \in DOMAIN Default \ {f} : [spec EXCEPT ![f] = text][g] = spec[g]
<1>1. DOMAIN spec = DOMAIN Default
    BY DefaultFields DEF FilterSpecs, TextFields
<1>2. [spec EXCEPT ![f] = text] \in FilterSpecs
    <2>1. CASE f = "source"
        BY <2>1 DEF FilterSpecs, TextsOf
    <2>2. CASE f = "destination"
        BY <2>2 DEF FilterSpecs, TextsOf
    <2>3. CASE f = "port"
        BY <2>3 DEF FilterSpecs, TextsOf
    <2> QED BY <2>1, <2>2, <2>3 DEF TextFields
<1> QED BY <1>1, <1>2, DefaultFields

\* Writing a field the text it holds changes nothing.
LEMMA TextKept ==
    ASSUME NEW spec \in FilterSpecs, NEW f \in TextFields
    PROVE  spec[f] \in TextsOf(f) /\ [spec EXCEPT ![f] = spec[f]] = spec
    BY DEF FilterSpecs, TextFields, TextsOf

-------------------------------------------------------------------------------
(* Choices.                                                                *)

\* The neighbour of an element of a ring of values is one of them.
LEMMA StepInRing ==
    ASSUME NEW S, NEW s \in Seq(S), NEW x, \E i \in DOMAIN s : s[i] = x, NEW delta \in {-1, 1}
    PROVE  Step(s, x, delta) \in {s[i] : i \in DOMAIN s}
<1> DEFINE i == CHOOSE i \in DOMAIN s : s[i] = x
<1>1. i \in DOMAIN s /\ DOMAIN s = 1..Len(s) /\ Len(s) \in Nat
    BY LenProperties
<1> DEFINE k == (i - 1 + delta) % Len(s)
<1>2. i \in 1..Len(s) /\ Len(s) >= 1 /\ i - 1 + delta \in Int
    BY <1>1
<1>3. k \in 0..(Len(s) - 1)
    BY <1>1, <1>2
<1>4. k + 1 \in DOMAIN s
    BY <1>1, <1>3
<1> QED BY <1>4 DEF Step

\* Cycling a choice leaves a specification, and a target, of the right type.
LEMMA ProtocolStep ==
    ASSUME NEW protocol \in {Unset} \cup Protos, NEW delta \in {-1, 1}
    PROVE  Step(ProtocolRing, protocol, delta) \in {Unset} \cup Protos
<1>1. AllProtos \in Seq(ProtoNames)
    BY FilterAssumption DEF FilterAssumption
<1>2. /\ ProtocolRing \in Seq({Unset} \cup ProtoNames)
      /\ Len(ProtocolRing) = Len(AllProtos) + 1 /\ Len(AllProtos) \in Nat
      /\ ProtocolRing[1] = Unset
      /\ \A i \in 1..Len(AllProtos) : ProtocolRing[i + 1] = AllProtos[i]
    BY <1>1 DEF ProtocolRing
<1>3. DOMAIN ProtocolRing = 1..(Len(AllProtos) + 1) /\ DOMAIN AllProtos = 1..Len(AllProtos)
    BY <1>1, <1>2
<1>4. \E i \in DOMAIN ProtocolRing : ProtocolRing[i] = protocol
    BY <1>2, <1>3 DEF Protos
<1>5. Step(ProtocolRing, protocol, delta) \in {ProtocolRing[i] : i \in DOMAIN ProtocolRing}
    BY <1>2, <1>4, StepInRing
<1>6. \A i \in DOMAIN ProtocolRing : ProtocolRing[i] \in {Unset} \cup Protos
    <2> TAKE i \in DOMAIN ProtocolRing
    <2>1. CASE i = 1
        BY <1>2, <2>1
    <2>2. CASE i # 1
        <3>1. i - 1 \in DOMAIN AllProtos /\ ProtocolRing[i] = AllProtos[i - 1]
            BY <1>2, <1>3, <2>2
        <3> QED BY <3>1 DEF Protos
    <2> QED BY <2>1, <2>2
<1> QED BY <1>5, <1>6

LEMMA SideStep ==
    ASSUME NEW side \in Sides, NEW delta \in {-1, 1}
    PROVE  Step(AllSides, side, delta) \in Sides
<1>1. AllSides \in Seq({"Either", "Source", "Destination"})
    BY FilterAssumption DEF FilterAssumption
<1> QED BY <1>1, StepInRing DEF Sides

LEMMA TargetStep ==
    ASSUME NEW target \in Targets, NEW delta \in {-1, 1}
    PROVE  Step(TargetRing, target, delta) \in Targets
<1>1. /\ TargetRing \in Seq(Targets) /\ \E i \in DOMAIN TargetRing : TargetRing[i] = target
      /\ \A i \in DOMAIN TargetRing : TargetRing[i] \in Targets
    BY DEF TargetRing, Targets
<1>2. Step(TargetRing, target, delta) \in {TargetRing[i] : i \in DOMAIN TargetRing}
    BY <1>1, StepInRing
<1> QED BY <1>1, <1>2

-------------------------------------------------------------------------------
(* Lists of values.                                                        *)

LEMMA ListingFacts ==
    ASSUME NEW S, NEW values \in Listings(S)
    PROVE  /\ values \in Seq(S) /\ Len(values) \in Nat /\ DOMAIN values = 1..Len(values)
           /\ \A i \in DOMAIN values : values[i] \in S
           /\ values = <<>> <=> Len(values) = 0
<1>1. PICK n \in 0..Cardinality(S) : values \in Injection(1..n, S)
    BY DEF Listings
<1>2. n \in Nat /\ values \in [1..n -> S]
    BY <1>1 DEF Injection
<1> QED BY <1>2

\* A field that is no text has been seen with no value.
LEMMA NothingSeen ==
    ASSUME NEW f, f \notin TextFields, NEW values \in Listings(SeenOf(f))
    PROVE  values = <<>>
    BY ListingFacts DEF SeenOf, TextFields
-------------------------------------------------------------------------------
(* One form.                                                               *)

\* The edit buffer holds a text of the field in focus, and nothing beside a choice.
BufferOK(b) == b.input \in IF IsText(Focused(b)) THEN TextsOf(Focused(b)) ELSE {Unset}

\* An open picker lists values of the field in focus, over a form without an error.
PickerOK(b) ==
    b.picker # NoPicker =>
        /\ b.picker.field = Focused(b)
        /\ IF b.picker.values = <<>> THEN b.picker.row = 0
           ELSE b.picker.row \in DOMAIN b.picker.values
        /\ ~b.error
        /\ b.picker.values \in Listings(SeenOf(b.picker.field))

NotInstallable(spec) == Refused(spec) \/ \E link \in LinkTypes : ~Compiles(ToBpf(spec), link)

ErrorOK(b) == b.error => b.target = "Capture" /\ NotInstallable(CurrentSpec(b))

Sound(b) == b \in Forms /\ BufferOK(b) /\ PickerOK(b) /\ ErrorOK(b)

\* Between two keys only the field that has and keeps the focus changes.
KeepsEdits(b, c) ==
    \A f \in DOMAIN Default :
        CurrentSpec(b)[f] # CurrentSpec(c)[f] => f = Focused(b) /\ f = Focused(c)

LEMMA FormFacts ==
    ASSUME NEW b \in Forms
    PROVE  /\ b.spec \in FilterSpecs /\ b.target \in Targets /\ b.field \in 1..6
           /\ b.input \in HostTexts \cup PortTexts /\ b.error \in BOOLEAN
           /\ Focused(b) \in FieldNames
    BY FieldFacts DEF Forms, Focused

LEMMA CurrentSpecFacts ==
    ASSUME NEW b \in Forms, BufferOK(b)
    PROVE  /\ CurrentSpec(b) \in FilterSpecs
           /\ Focused(b) \in TextFields => CurrentSpec(b)[Focused(b)] = b.input
           /\ Focused(b) \notin TextFields => CurrentSpec(b) = b.spec
           /\ \A f \in DOMAIN Default \ {Focused(b)} : CurrentSpec(b)[f] = b.spec[f]
<1>1. b.spec \in FilterSpecs
    BY FormFacts
<1>2. CASE Focused(b) \in TextFields
    <2>1. b.input \in TextsOf(Focused(b)) /\ IsText(Focused(b))
        BY <1>2, TextFacts DEF BufferOK
    <2>2. CurrentSpec(b) = [b.spec EXCEPT ![Focused(b)] = b.input]
        BY <2>1 DEF CurrentSpec
    <2> QED BY <1>1, <1>2, <2>1, <2>2, TextSet
<1>3. CASE Focused(b) \notin TextFields
    <2>1. CurrentSpec(b) = b.spec
        BY <1>3, TextFacts DEF CurrentSpec
    <2> QED BY <1>1, <1>3, <2>1
<1> QED BY <1>2, <1>3

\* Two forms that agree on the field, the specification and the buffer agree on what
\* Enter would apply.
LEMMA SameCurrentSpec ==
    ASSUME NEW b, NEW c, c.field = b.field, c.spec = b.spec, c.input = b.input
    PROVE  Focused(c) = Focused(b) /\ CurrentSpec(c) = CurrentSpec(b) /\ KeepsEdits(b, c)
    BY DEF Focused, CurrentSpec, KeepsEdits

\* The key that clears the error changes nothing else.
LEMMA Cleared ==
    ASSUME NEW b, Sound(b), b.picker = NoPicker
    PROVE  /\ ErrorCleared(b) \in Forms /\ Sound(ErrorCleared(b))
           /\ ErrorCleared(b) = [b EXCEPT !.error = FALSE]
           /\ ErrorCleared(b).spec = b.spec /\ ErrorCleared(b).target = b.target
           /\ ErrorCleared(b).field = b.field /\ ErrorCleared(b).input = b.input
           /\ ErrorCleared(b).picker = NoPicker /\ ErrorCleared(b).error = FALSE
           /\ Focused(ErrorCleared(b)) = Focused(b)
           /\ CurrentSpec(ErrorCleared(b)) = CurrentSpec(b)
           /\ KeepsEdits(b, ErrorCleared(b))
<1> DEFINE c == ErrorCleared(b)
<1>1. /\ c \in Forms /\ c.spec = b.spec /\ c.target = b.target /\ c.field = b.field
      /\ c.input = b.input /\ c.picker = NoPicker /\ c.error = FALSE
      /\ c = [b EXCEPT !.error = FALSE]
    BY DEF Sound, ErrorCleared, Forms
<1> HIDE DEF c
<1>2. Focused(c) = Focused(b) /\ CurrentSpec(c) = CurrentSpec(b) /\ KeepsEdits(b, c)
    BY <1>1, SameCurrentSpec
<1>3. Sound(c)
    BY <1>1, <1>2 DEF Sound, BufferOK, PickerOK, ErrorOK
<1> QED BY <1>1, <1>2, <1>3 DEF c

\* Loading the buffer from the specification: nothing is lost if it was written back.
LEMMA LoadedForm ==
    ASSUME NEW b \in Forms, b.picker = NoPicker, b.error = FALSE
    PROVE  /\ Sound(Loaded(b)) /\ Loaded(b).field = b.field /\ Loaded(b).picker = NoPicker
           /\ Loaded(b).target = b.target
           /\ Focused(Loaded(b)) = Focused(b) /\ CurrentSpec(Loaded(b)) = b.spec
<1> DEFINE c == Loaded(b)
           text == IF IsText(Focused(b)) THEN b.spec[Focused(b)] ELSE Unset
<1>1. b.spec \in FilterSpecs /\ Focused(b) \in FieldNames
    BY FormFacts
<1>2. text \in IF IsText(Focused(b)) THEN TextsOf(Focused(b)) ELSE {Unset}
    BY <1>1, TextFacts, TextKept
<1>3. text \in HostTexts \cup PortTexts
    BY <1>2, TextFacts DEF HostTexts
<1>4. c = [b EXCEPT !.input = text]
    BY DEF Loaded
<1> HIDE DEF c, text
<1>5. /\ c \in Forms /\ c.spec = b.spec /\ c.target = b.target /\ c.field = b.field
      /\ c.input = text /\ c.picker = NoPicker /\ c.error = FALSE
    BY <1>3, <1>4 DEF Forms
<1>6. Focused(c) = Focused(b)
    BY <1>5 DEF Focused
<1>7. Sound(c)
    BY <1>2, <1>5, <1>6 DEF Sound, BufferOK, PickerOK, ErrorOK
<1>8. CurrentSpec(c) = b.spec
    <2>1. CASE Focused(b) \in TextFields
        BY <1>1, <1>5, <1>6, <2>1, TextFacts, TextKept DEF CurrentSpec, text
    <2>2. CASE Focused(b) \notin TextFields
        BY <1>5, <1>6, <2>2, TextFacts DEF CurrentSpec
    <2> QED BY <2>1, <2>2
<1> QED BY <1>5, <1>6, <1>7, <1>8 DEF c
-------------------------------------------------------------------------------
(* What each key makes of a form.                                          *)

LEMMA QuietForm ==
    ASSUME NEW b \in Forms, BufferOK(b), b.picker = NoPicker, b.error = FALSE
    PROVE  Sound(b)
    BY DEF Sound, PickerOK, ErrorOK

LEMMA OnlyFocusChanges ==
    ASSUME NEW b, NEW c, Focused(c) = Focused(b),
           \A f \in DOMAIN Default \ {Focused(b)} : CurrentSpec(c)[f] = CurrentSpec(b)[f]
    PROVE  KeepsEdits(b, c)
    BY DEF KeepsEdits

LEMMA SameSpecKeepsEdits ==
    ASSUME NEW b, NEW c, CurrentSpec(c) = CurrentSpec(b)
    PROVE  KeepsEdits(b, c)
    BY DEF KeepsEdits

\* The form opens on a specification without an error and without a picker.
LEMMA NewForm ==
    ASSUME NEW spec \in FilterSpecs, NEW target \in Targets
    PROVE  Sound(New(spec, target))
<1> DEFINE b == [spec |-> spec, target |-> target, field |-> 1, input |-> Unset,
                 picker |-> NoPicker, error |-> FALSE]
<1>1. b \in Forms /\ b.picker = NoPicker /\ b.error = FALSE
    BY FieldFacts DEF Forms, HostTexts
<1> HIDE DEF b
<1>2. Sound(Loaded(b))
    BY <1>1, LoadedForm
<1> QED BY <1>2 DEF New, b

\* Moving the focus writes the buffer back first, so the selector stays what it was.
LEMMA MovedForm ==
    ASSUME NEW b, Sound(b), b.picker = NoPicker, NEW delta \in {-1, 1}
    PROVE  Sound(Moved(ErrorCleared(b), delta)) /\ KeepsEdits(b, Moved(ErrorCleared(b), delta))
<1> DEFINE c == ErrorCleared(b)
           field == Clamped(c.field + delta, Len(FIELDS))
           d == [c EXCEPT !.spec = CurrentSpec(c), !.field = field]
<1>1. /\ c \in Forms /\ BufferOK(c) /\ c.picker = NoPicker /\ c.error = FALSE
      /\ CurrentSpec(c) = CurrentSpec(b)
    BY Cleared DEF Sound
<1>2. CurrentSpec(c) \in FilterSpecs
    BY <1>1, CurrentSpecFacts
<1>3. field \in 1..6
    <2>1. c.field \in 1..6 /\ Len(FIELDS) = 6
        BY <1>1, FormFacts, FieldFacts
    <2> QED BY <2>1 DEF Clamped
<1>4. Moved(c, delta) = Loaded(d)
    BY DEF Moved
<1> HIDE DEF c, field
<1>5. d \in Forms /\ d.picker = NoPicker /\ d.error = FALSE /\ d.spec = CurrentSpec(c)
    BY <1>1, <1>2, <1>3, FieldFacts DEF Forms
<1> HIDE DEF d
<1>6. Sound(Loaded(d)) /\ CurrentSpec(Loaded(d)) = CurrentSpec(b)
    BY <1>1, <1>5, LoadedForm
<1> QED BY <1>4, <1>6, SameSpecKeepsEdits DEF c

\* A choice is cycled in place.
LEMMA CycledForm ==
    ASSUME NEW b, Sound(b), b.picker = NoPicker, ~IsText(Focused(b)), NEW delta \in {-1, 1}
    PROVE  Sound(Cycled(ErrorCleared(b), delta)) /\ KeepsEdits(b, Cycled(ErrorCleared(b), delta))
<1> DEFINE c == ErrorCleared(b)
           d == Cycled(c, delta)
<1>1. /\ c \in Forms /\ BufferOK(c) /\ c.picker = NoPicker /\ c.error = FALSE
      /\ Focused(c) = Focused(b) /\ CurrentSpec(c) = CurrentSpec(b)
    BY Cleared DEF Sound
<1> HIDE DEF c
<1>2. /\ c.spec \in FilterSpecs /\ c.target \in Targets /\ Focused(c) \notin TextFields
      /\ CurrentSpec(c) = c.spec
    BY <1>1, FormFacts, CurrentSpecFacts, TextFacts
<1>3. /\ d \in Forms /\ d.field = c.field /\ d.input = c.input /\ d.picker = NoPicker
      /\ d.error = FALSE
      /\ \A f \in DOMAIN Default \ {Focused(c)} : d.spec[f] = c.spec[f]
    <2>1. CASE Focused(c) = "protocol"
        <3>1. Step(ProtocolRing, c.spec.protocol, delta) \in {Unset} \cup Protos
            BY <1>2, ProtocolStep DEF FilterSpecs
        <3>2. d = [c EXCEPT !.spec.protocol = Step(ProtocolRing, c.spec.protocol, delta)]
            BY <2>1 DEF Cycled
        <3> HIDE DEF d
        <3> QED BY <1>1, <1>2, <2>1, <3>1, <3>2, DefaultFields DEF Forms, FilterSpecs, TextFields
    <2>2. CASE Focused(c) = "port_side"
        <3>1. Step(AllSides, c.spec.port_side, delta) \in Sides
            BY <1>2, SideStep DEF FilterSpecs
        <3>2. d = [c EXCEPT !.spec.port_side = Step(AllSides, c.spec.port_side, delta)]
            BY <2>2 DEF Cycled
        <3> HIDE DEF d
        <3> QED BY <1>1, <1>2, <2>2, <3>1, <3>2, DefaultFields DEF Forms, FilterSpecs, TextFields
    <2>3. CASE Focused(c) = "target"
        <3>1. Step(TargetRing, c.target, delta) \in Targets
            BY <1>2, TargetStep
        <3>2. d = [c EXCEPT !.target = Step(TargetRing, c.target, delta)]
            BY <2>3 DEF Cycled
        <3> HIDE DEF d
        <3> QED BY <1>1, <3>1, <3>2 DEF Forms
    <2> QED BY <1>1, <1>2, <2>1, <2>2, <2>3, FormFacts DEF FieldNames
<1> HIDE DEF d
<1>4. Focused(d) = Focused(c)
    BY <1>3 DEF Focused
<1>5. BufferOK(d)
    BY <1>1, <1>3, <1>4 DEF BufferOK
<1>6. Sound(d)
    BY <1>3, <1>5, QuietForm
<1>7. CurrentSpec(d) = d.spec
    BY <1>2, <1>3, <1>4, <1>5, CurrentSpecFacts
<1>8. KeepsEdits(b, d)
    BY <1>1, <1>2, <1>3, <1>4, <1>7, OnlyFocusChanges
<1> QED BY <1>6, <1>8 DEF c, d

\* Editing changes the buffer and with it the one field in focus.
LEMMA EditedForm ==
    ASSUME NEW b, Sound(b), b.picker = NoPicker, IsText(Focused(b)),
           NEW text \in TextsOf(Focused(b))
    PROVE  /\ Sound([ErrorCleared(b) EXCEPT !.input = text])
           /\ KeepsEdits(b, [ErrorCleared(b) EXCEPT !.input = text])
<1> DEFINE c == ErrorCleared(b)
           d == [c EXCEPT !.input = text]
<1>1. /\ c \in Forms /\ BufferOK(c) /\ c.picker = NoPicker /\ c.error = FALSE
      /\ Focused(c) = Focused(b) /\ CurrentSpec(c) = CurrentSpec(b)
    BY Cleared DEF Sound
<1> HIDE DEF c
<1>2. text \in HostTexts \cup PortTexts
    BY TextFacts
<1>3. /\ d \in Forms /\ d.spec = c.spec /\ d.field = c.field /\ d.input = text
      /\ d.picker = NoPicker /\ d.error = FALSE
    BY <1>1, <1>2 DEF Forms
<1> HIDE DEF d
<1>4. Focused(d) = Focused(b)
    BY <1>1, <1>3 DEF Focused
<1>5. BufferOK(d)
    BY <1>3, <1>4 DEF BufferOK
<1>6. \A f \in DOMAIN Default \ {Focused(b)} : CurrentSpec(d)[f] = CurrentSpec(b)[f]
    BY <1>1, <1>3, <1>4, <1>5, CurrentSpecFacts
<1> QED BY <1>3, <1>4, <1>5, <1>6, QuietForm, OnlyFocusChanges DEF c, d

\* Clearing empties the buffer and the field together.
LEMMA ClearedForm ==
    ASSUME NEW b, Sound(b), b.picker = NoPicker,
           NEW c, c = [ErrorCleared(b) EXCEPT !.input = Unset]
    PROVE  /\ Sound([c EXCEPT !.spec = CurrentSpec(c)])
           /\ KeepsEdits(b, [c EXCEPT !.spec = CurrentSpec(c)])
<1> DEFINE a == ErrorCleared(b)
           d == [c EXCEPT !.spec = CurrentSpec(c)]
<1>1. /\ a \in Forms /\ BufferOK(a) /\ a.picker = NoPicker /\ a.error = FALSE
      /\ Focused(a) = Focused(b) /\ CurrentSpec(a) = CurrentSpec(b)
      /\ c = [a EXCEPT !.input = Unset]
    BY Cleared DEF Sound
<1> HIDE DEF a
<1>2. /\ c \in Forms /\ c.spec = a.spec /\ c.field = a.field /\ c.input = Unset
      /\ c.picker = NoPicker /\ c.error = FALSE
    BY <1>1 DEF Forms, HostTexts
<1>3. Focused(c) = Focused(b)
    BY <1>1, <1>2 DEF Focused
<1>4. BufferOK(c)
    BY <1>2, TextFacts DEF BufferOK
<1>5. /\ CurrentSpec(c) \in FilterSpecs
      /\ \A f \in DOMAIN Default \ {Focused(b)} : CurrentSpec(c)[f] = CurrentSpec(b)[f]
    <2>1. /\ CurrentSpec(c) \in FilterSpecs
          /\ \A f \in DOMAIN Default \ {Focused(b)} : CurrentSpec(c)[f] = c.spec[f]
        BY <1>2, <1>3, <1>4, CurrentSpecFacts
    <2>2. \A f \in DOMAIN Default \ {Focused(b)} : CurrentSpec(a)[f] = a.spec[f]
        BY <1>1, CurrentSpecFacts
    <2> QED BY <1>1, <1>2, <2>1, <2>2
<1>6. /\ d \in Forms /\ d.spec = CurrentSpec(c) /\ d.field = c.field /\ d.input = Unset
      /\ d.picker = NoPicker /\ d.error = FALSE
    BY <1>2, <1>5 DEF Forms
<1> HIDE DEF d
<1>7. Focused(d) = Focused(b)
    BY <1>3, <1>6 DEF Focused
<1>8. BufferOK(d)
    BY <1>6, TextFacts DEF BufferOK
<1>9. \A f \in DOMAIN Default \ {Focused(b)} : CurrentSpec(d)[f] = CurrentSpec(b)[f]
    BY <1>5, <1>6, <1>7, <1>8, CurrentSpecFacts
<1> QED BY <1>6, <1>7, <1>8, <1>9, QuietForm, OnlyFocusChanges DEF d
-------------------------------------------------------------------------------
(* The picker.                                                             *)

PickerType == [field : {FIELDS[i] : i \in DOMAIN FIELDS},
               values : UNION {Listings(SeenOf(FIELDS[i])) : i \in DOMAIN FIELDS},
               row : Nat]

LEMMA PickerFacts ==
    ASSUME NEW b, Sound(b), b.picker # NoPicker
    PROVE  /\ b.picker \in PickerType /\ b.error = FALSE /\ b.picker.field = Focused(b)
           /\ b.picker.values \in Listings(SeenOf(Focused(b)))
           /\ b.picker.row \in 0..Len(b.picker.values) /\ Len(b.picker.values) \in Nat
           /\ b.picker.row # 0 =>
                 /\ Focused(b) \in TextFields
                 /\ b.picker.values[b.picker.row] \in TextsOf(Focused(b))
<1>1. /\ b.picker \in PickerType /\ b.error = FALSE /\ b.picker.field = Focused(b)
      /\ b.picker.values \in Listings(SeenOf(Focused(b)))
      /\ IF b.picker.values = <<>> THEN b.picker.row = 0
         ELSE b.picker.row \in DOMAIN b.picker.values
    BY DEF Sound, PickerOK, Forms, PickerType
<1> DEFINE values == b.picker.values
<1>2. /\ Len(values) \in Nat /\ DOMAIN values = 1..Len(values)
      /\ \A i \in DOMAIN values : values[i] \in SeenOf(Focused(b))
      /\ values = <<>> <=> Len(values) = 0
    BY <1>1, ListingFacts
<1>3. b.picker.row \in 0..Len(values)
    BY <1>1, <1>2
<1>4. ASSUME b.picker.row # 0
      PROVE  Focused(b) \in TextFields /\ values[b.picker.row] \in TextsOf(Focused(b))
    <2>1. values # <<>> /\ values[b.picker.row] \in SeenOf(Focused(b))
        BY <1>1, <1>2, <1>4
    <2>2. Focused(b) \in TextFields
        BY <1>1, <2>1, NothingSeen
    <2>3. SeenOf(Focused(b)) \subseteq TextsOf(Focused(b))
        BY <2>2 DEF TextFields, SeenOf, TextsOf, HostTexts, PortTexts
    <2> QED BY <2>1, <2>2, <2>3
<1> QED BY <1>1, <1>2, <1>3, <1>4

\* Any other list, or row, in an open picker leaves the form behind it alone.
LEMMA PickerSet ==
    ASSUME NEW b \in Forms, BufferOK(b), b.error = FALSE, NEW field, field = Focused(b),
           NEW values \in Listings(SeenOf(field)), NEW row \in Nat,
           IF values = <<>> THEN row = 0 ELSE row \in DOMAIN values,
           NEW c, c = [b EXCEPT !.picker = [field |-> field, values |-> values, row |-> row]]
    PROVE  Sound(c) /\ KeepsEdits(b, c)
<1>1. [field |-> field, values |-> values, row |-> row] \in PickerType
    <2>1. PICK i \in DOMAIN FIELDS : field = FIELDS[i]
        BY FieldFacts, FormFacts DEF Forms, Focused
    <2> QED BY <2>1 DEF PickerType
<1>2. /\ c \in Forms /\ c.spec = b.spec /\ c.field = b.field /\ c.input = b.input
      /\ c.error = FALSE /\ c.picker = [field |-> field, values |-> values, row |-> row]
    BY <1>1 DEF Forms, PickerType
<1>3. Focused(c) = Focused(b) /\ KeepsEdits(b, c)
    BY <1>2, SameCurrentSpec
<1>4. BufferOK(c) /\ PickerOK(c) /\ ErrorOK(c)
    BY <1>2, <1>3 DEF BufferOK, PickerOK, ErrorOK
<1> QED BY <1>2, <1>3, <1>4 DEF Sound

LEMMA PickerClosed ==
    ASSUME NEW b \in Forms, BufferOK(b), b.error = FALSE
    PROVE  Sound([b EXCEPT !.picker = NoPicker]) /\ KeepsEdits(b, [b EXCEPT !.picker = NoPicker])
<1> DEFINE c == [b EXCEPT !.picker = NoPicker]
<1>1. /\ c \in Forms /\ c.spec = b.spec /\ c.field = b.field /\ c.input = b.input
      /\ c.error = FALSE /\ c.picker = NoPicker
    BY DEF Forms
<1> HIDE DEF c
<1>2. Focused(c) = Focused(b) /\ KeepsEdits(b, c)
    BY <1>1, SameCurrentSpec
<1>3. BufferOK(c)
    BY <1>1, <1>2 DEF BufferOK
<1> QED BY <1>1, <1>2, <1>3, QuietForm DEF c

LEMMA OpenedPicker ==
    ASSUME NEW b, Sound(b), b.picker = NoPicker, NEW values \in Listings(SeenOf(Focused(b))),
           NEW c, c = [ErrorCleared(b) EXCEPT !.picker =
                         [field |-> Focused(b), values |-> values,
                          row |-> IF values = <<>> THEN 0 ELSE 1]]
    PROVE  Sound(c) /\ KeepsEdits(b, c)
<1> DEFINE a == ErrorCleared(b)
           row == IF values = <<>> THEN 0 ELSE 1
<1>1. /\ a \in Forms /\ BufferOK(a) /\ a.error = FALSE /\ Focused(a) = Focused(b)
      /\ CurrentSpec(a) = CurrentSpec(b)
    BY Cleared DEF Sound
<1>2. row \in Nat /\ IF values = <<>> THEN row = 0 ELSE row \in DOMAIN values
    BY ListingFacts
<1> HIDE DEF a, row
<1>3. c = [a EXCEPT !.picker = [field |-> Focused(b), values |-> values, row |-> row]]
    BY DEF a, row
<1>4. Sound(c) /\ KeepsEdits(a, c)
    BY <1>1, <1>2, <1>3, PickerSet
<1> QED BY <1>1, <1>4 DEF KeepsEdits

LEMMA ClampedInside ==
    ASSUME NEW last \in Nat \ {0}, NEW n \in Int
    PROVE  Clamped(n, last) \in 1..last
    BY DEF Clamped

LEMMA MovedPicker ==
    ASSUME NEW b, Sound(b), b.picker # NoPicker, b.picker.values # <<>>,
           NEW delta \in {-10, -1, 1, 10},
           NEW c, c = [b EXCEPT !.picker.row =
                          Clamped(b.picker.row + delta, Len(b.picker.values))]
    PROVE  Sound(c) /\ KeepsEdits(b, c)
<1> DEFINE field == Focused(b)
           values == b.picker.values
           row == Clamped(b.picker.row + delta, Len(values))
<1>1. b \in Forms /\ BufferOK(b) /\ b.error = FALSE /\ b.picker.field = field
    BY PickerFacts DEF Sound
<1>2. b.picker \in PickerType /\ values \in Listings(SeenOf(field))
    BY PickerFacts
<1>3. Len(values) \in Nat \ {0} /\ DOMAIN values = 1..Len(values)
    BY <1>2, ListingFacts
<1>4. b.picker.row + delta \in Int
    BY <1>2 DEF PickerType
<1>5. row \in 1..Len(values)
    BY <1>3, <1>4, ClampedInside
<1>6. c = [b EXCEPT !.picker = [field |-> field, values |-> values, row |-> row]]
    BY <1>1, <1>2 DEF Forms, PickerType
<1>7. row \in Nat /\ IF values = <<>> THEN row = 0 ELSE row \in DOMAIN values
    BY <1>3, <1>5
<1>8. ASSUME NEW v \in Listings(SeenOf(Focused(b))), NEW r \in Nat,
             IF v = <<>> THEN r = 0 ELSE r \in DOMAIN v,
             NEW d, d = [b EXCEPT !.picker = [field |-> Focused(b), values |-> v, row |-> r]]
      PROVE  Sound(d) /\ KeepsEdits(b, d)
    BY <1>1, <1>8, PickerSet
<1> HIDE DEF values, row
<1> QED BY <1>2, <1>6, <1>7, <1>8

\* A value picked becomes the text of the field in focus, in the buffer as well.
LEMMA PickedForm ==
    ASSUME NEW b, Sound(b), b.picker # NoPicker, b.picker.row # 0,
           NEW value, value = b.picker.values[b.picker.row]
    PROVE  /\ Sound(Accepted(b, value)) /\ KeepsEdits(b, Accepted(b, value))
           /\ CurrentSpec(Accepted(b, value))[b.picker.field] = value
<1> DEFINE f == Focused(b)
           spec == [b.spec EXCEPT ![f] = value]
           taken == [b EXCEPT !.spec[b.picker.field] = value, !.picker = NoPicker]
<1>1. /\ b \in Forms /\ BufferOK(b) /\ b.error = FALSE /\ b.picker.field = f
      /\ f \in TextFields /\ value \in TextsOf(f)
    BY PickerFacts DEF Sound
<1>2. b.spec \in FilterSpecs
    BY <1>1, FormFacts
<1>3. /\ spec \in FilterSpecs /\ spec[f] = value
      /\ \A g \in DOMAIN Default \ {f} : spec[g] = b.spec[g]
    BY <1>1, <1>2, TextSet
<1>4. Accepted(b, value) = Loaded(taken)
    BY <1>1 DEF Accepted, Focused
<1>5. /\ taken \in Forms /\ taken.picker = NoPicker /\ taken.error = FALSE
      /\ taken.spec = spec /\ taken.field = b.field
    BY <1>1, <1>3 DEF Forms
<1> HIDE DEF taken, spec
<1>6. Focused(taken) = f
    BY <1>5 DEF Focused
<1>7. /\ Sound(Loaded(taken)) /\ CurrentSpec(Loaded(taken)) = spec
      /\ Focused(Loaded(taken)) = f
    BY <1>5, <1>6, LoadedForm
<1>8. \A g \in DOMAIN Default \ {f} : CurrentSpec(b)[g] = b.spec[g]
    BY <1>1, CurrentSpecFacts
<1>9. KeepsEdits(b, Loaded(taken))
    BY <1>3, <1>7, <1>8, OnlyFocusChanges
<1> QED BY <1>1, <1>3, <1>4, <1>7, <1>9
-------------------------------------------------------------------------------
(* The form, the filters in force and the capture.                         *)

\* All the invariant says of the open form is that it is sound.
ProgramsOK ==
    /\ display_spec \in FilterSpecs /\ capture_spec \in FilterSpecs
    /\ linktype \in LinkTypes /\ device \in LinkTypes
    /\ capture \in {"None", "Starting", "Live", "Ended"}
    /\ forms \in 0..MaxForms
    /\ ProgramInstalled /\ LiveIsCompiled

LEMMA FormInvParts == FormInv => ProgramsOK /\ (form # NoForm => Sound(form))
    BY DEF FormInv, TypeOK, ProgramsOK, Sound, BufferOK, PickerOK, PickerOnFocus, PickerListsSeen,
           ErrorOK, ErrorIsCurrent, NotInstallable

LEMMA PartsFormInv == ProgramsOK' /\ (form' # NoForm => Sound(form')) => FormInv'
    BY DEF FormInv, TypeOK, ProgramsOK, Sound, BufferOK, PickerOK, PickerOnFocus, PickerListsSeen,
           ErrorOK, ErrorIsCurrent, NotInstallable

LEMMA InitFormInv == Init => FormInv
<1> SUFFICES ASSUME Init PROVE FormInv
    OBVIOUS
<1>1. Default \in FilterSpecs
    BY FilterAssumption DEF FilterAssumption, Default, FilterSpecs, HostTexts, PortTexts
<1> QED BY <1>1, FormAssumption
    DEF Init, FormInv, TypeOK, FormAssumption, ProgramInstalled, LiveIsCompiled, PickerOnFocus,
        PickerListsSeen, ErrorIsCurrent

FormKey ==
    \/ Close \/ MoveField \/ Cycle \/ EditText \/ ClearText
    \/ RequestValues \/ PickerMove \/ PickerEscape \/ PickerAccept

\* The keys of the form that apply nothing leave a sound form, or none, and lose no edit.
LEMMA FormKeys ==
    ASSUME Sound(form), FormKey
    PROVE  /\ form' # NoForm => Sound(form') /\ KeepsEdits(form, form')
           /\ UNCHANGED formFrame
<1>1. form \in Forms /\ BufferOK(form)
    BY DEF Sound
<1>2. CASE Close
    BY <1>2 DEF Close
<1>3. CASE MoveField
    BY <1>3, MovedForm DEF MoveField, FieldsListen
<1>4. CASE Cycle
    BY <1>4, CycledForm DEF Cycle, FieldsListen
<1>5. CASE EditText
    <2>1. CASE IsText(Focused(form))
        BY <1>5, <2>1, EditedForm DEF EditText, FieldsListen
    <2>2. CASE ~IsText(Focused(form))
        BY <1>5, <2>2, Cleared DEF EditText, FieldsListen
    <2> QED BY <2>1, <2>2
<1>6. CASE ClearText
    BY <1>6, ClearedForm DEF ClearText, FieldsListen
<1>7. CASE RequestValues
    BY <1>7, OpenedPicker DEF RequestValues, FieldsListen
<1>8. CASE PickerMove
    BY <1>8, MovedPicker DEF PickerMove, PickerListens
<1>9. CASE PickerEscape
    BY <1>1, <1>9, PickerClosed, PickerFacts DEF PickerEscape, PickerListens
<1>10. CASE PickerAccept
    <2>1. CASE form.picker.row = 0
        BY <1>1, <1>10, <2>1, PickerClosed, PickerFacts DEF PickerAccept, PickerListens
    <2>2. CASE form.picker.row # 0
        BY <1>10, <2>2, PickedForm DEF PickerAccept, PickerListens
    <2> QED BY <2>1, <2>2
<1> QED BY <1>2, <1>3, <1>4, <1>5, <1>6, <1>7, <1>8, <1>9, <1>10 DEF FormKey

\* A refusal marks the form and changes nothing else; the specification it is about
\* could not be installed on the link type known.
LEMMA RefusedForm ==
    ASSUME NEW b, Sound(b), b.picker = NoPicker, b.target = "Capture",
           NotInstallable(CurrentSpec(b))
    PROVE  Sound([b EXCEPT !.error = TRUE]) /\ KeepsEdits(b, [b EXCEPT !.error = TRUE])
<1> DEFINE c == [b EXCEPT !.error = TRUE]
<1>1. /\ c \in Forms /\ c.spec = b.spec /\ c.field = b.field /\ c.input = b.input
      /\ c.target = b.target /\ c.picker = NoPicker
    BY DEF Sound, Forms
<1> HIDE DEF c
<1>2. Focused(c) = Focused(b) /\ CurrentSpec(c) = CurrentSpec(b) /\ KeepsEdits(b, c)
    BY <1>1, SameCurrentSpec
<1>3. BufferOK(c) /\ PickerOK(c) /\ ErrorOK(c)
    BY <1>1, <1>2 DEF Sound, BufferOK, PickerOK, ErrorOK
<1> QED BY <1>1, <1>2, <1>3 DEF Sound, c

\* A program the prompt or the form commits compiles for the link type known, which for
\* a live capture is that of its device; a restart installs what the header shows.
LEMMA Restarts ==
    ASSUME ProgramsOK, NEW program, Restarted(program), bpf' = program, UNCHANGED device
    PROVE  /\ capture' \in {"None", "Starting", "Live", "Ended"}
           /\ capture' # "Live"
           /\ capture' # "None" => installed' = bpf'
    BY DEF ProgramsOK, ProgramInstalled, Restarted

LEMMA ApplyKeys ==
    ASSUME FormInv, ApplyDisplay \/ ApplyCapture
    PROVE  FormInv' /\ (form' # NoForm => KeepsEdits(form, form'))
<1>1. ProgramsOK /\ (form # NoForm => Sound(form))
    BY FormInvParts
<1>2. form # NoForm /\ form.picker = NoPicker /\ Sound(form)
    BY <1>1 DEF ApplyDisplay, ApplyCapture, FieldsListen
<1>3. CurrentSpec(form) \in FilterSpecs
    BY <1>2, CurrentSpecFacts DEF Sound
<1>4. CASE ApplyDisplay
    <2>1. ProgramsOK' /\ form' = NoForm
        BY <1>1, <1>3, <1>4
        DEF ApplyDisplay, ProgramsOK, ProgramInstalled, LiveIsCompiled, session
    <2> QED BY <2>1, PartsFormInv
<1>5. CASE ApplyCapture
    <2>1. CASE ~Refused(CurrentSpec(form)) /\ Valid(ToBpf(CurrentSpec(form)))
        <3>1. /\ capture_spec' = CurrentSpec(form) /\ bpf' = ToBpf(CurrentSpec(form))
              /\ form' = NoForm /\ Restarted(ToBpf(CurrentSpec(form)))
              /\ UNCHANGED <<display_spec, linktype, device, forms>>
            BY <1>5, <2>1 DEF ApplyCapture
        <3>2. ProgramsOK'
            BY <1>1, <1>3, <3>1, Restarts DEF ProgramsOK, ProgramInstalled, LiveIsCompiled
        <3> QED BY <3>1, <3>2, PartsFormInv
    <2>2. CASE ~(~Refused(CurrentSpec(form)) /\ Valid(ToBpf(CurrentSpec(form))))
        <3>1. /\ form' = [form EXCEPT !.error = TRUE] /\ form.target = "Capture"
              /\ UNCHANGED <<capture_spec, bpf, capture, installed, display_spec, linktype,
                             device, forms>>
            BY <1>5, <2>2 DEF ApplyCapture
        <3>2. NotInstallable(CurrentSpec(form))
            BY <1>1, <2>2 DEF NotInstallable, Valid, ProgramsOK
        <3>3. Sound(form') /\ KeepsEdits(form, form')
            BY <1>2, <3>1, <3>2, RefusedForm
        <3>4. ProgramsOK'
            BY <1>1, <3>1 DEF ProgramsOK, ProgramInstalled, LiveIsCompiled
        <3> QED BY <3>3, <3>4, PartsFormInv
    <2> QED BY <2>1, <2>2
<1> QED BY <1>4, <1>5

\* The keys of the screens behind the form.
LEMMA ScreenKeysInv ==
    ASSUME FormInv,
           \/ OpenBuilder \/ CommitBpf \/ ResetFilters
           \/ StartCapture \/ RestartCapture \/ LeaveCapture
    PROVE  FormInv' /\ form = NoForm
<1>1. ProgramsOK
    BY FormInvParts
<1>2. Default \in FilterSpecs
    BY FilterAssumption DEF FilterAssumption, Default, FilterSpecs, HostTexts, PortTexts
<1> USE DEF ProgramsOK, ProgramInstalled, LiveIsCompiled, filters, session
<1>3. CASE OpenBuilder
    <2>1. Sound(form')
        BY <1>1, <1>2, <1>3, NewForm DEF OpenBuilder, Targets
    <2>2. ProgramsOK'
        BY <1>1, <1>3, FormAssumption DEF OpenBuilder, FormAssumption
    <2> QED BY <1>3, <2>1, <2>2, PartsFormInv DEF OpenBuilder
<1>4. CASE CommitBpf
    <2>1. PICK program \in RawPrograms : bpf' = program /\ Restarted(program)
        BY <1>4 DEF CommitBpf
    <2>2. UNCHANGED <<form, display_spec, capture_spec, linktype, device, forms>> /\ form = NoForm
        BY <1>4 DEF CommitBpf
    <2>3. ProgramsOK'
        BY <1>1, <2>1, <2>2, Restarts
    <2> QED BY <2>2, <2>3, PartsFormInv
<1>5. CASE ResetFilters
    <2>1. ProgramsOK' /\ form' = NoForm /\ form = NoForm
        BY <1>1, <1>2, <1>5 DEF ResetFilters
    <2> QED BY <2>1, PartsFormInv
<1>6. CASE StartCapture
    <2>1. ProgramsOK' /\ form' = NoForm /\ form = NoForm
        BY <1>1, <1>6 DEF StartCapture
    <2> QED BY <2>1, PartsFormInv
<1>7. CASE RestartCapture
    <2>1. ProgramsOK' /\ form' = NoForm /\ form = NoForm
        BY <1>1, <1>7 DEF RestartCapture, Restarted
    <2> QED BY <2>1, PartsFormInv
<1>8. CASE LeaveCapture
    <2>1. ProgramsOK' /\ form' = NoForm /\ form = NoForm
        BY <1>1, <1>8, FormAssumption DEF LeaveCapture, FormAssumption
    <2> QED BY <2>1, PartsFormInv
<1> QED BY <1>3, <1>4, <1>5, <1>6, <1>7, <1>8

\* What the capture thread reports: the program compiled for its device, or it ended.
LEMMA ThreadEvents ==
    ASSUME FormInv, Started \/ Ended
    PROVE  FormInv' /\ form' = form
<1>1. ProgramsOK /\ (form # NoForm => Sound(form))
    BY FormInvParts
<1>2. form' = form
    BY DEF Started, Ended
<1>3. ProgramsOK'
    BY <1>1 DEF Started, Ended, ProgramsOK, ProgramInstalled, LiveIsCompiled, filters
<1> QED BY <1>1, <1>2, <1>3, PartsFormInv

\* Every step keeps the invariant, and no step on an open form loses an edit.
LEMMA FormInvStep ==
    ASSUME FormInv, [Next]_vars
    PROVE  FormInv' /\ (form # NoForm /\ form' # NoForm => KeepsEdits(form, form'))
<1>1. ProgramsOK /\ (form # NoForm => Sound(form))
    BY FormInvParts
<1>2. CASE FormKey
    <2>1. form # NoForm
        BY <1>2 DEF FormKey, Close, MoveField, Cycle, EditText, ClearText, RequestValues,
                    PickerMove, PickerEscape, PickerAccept, FieldsListen, PickerListens
    <2>2. /\ form' # NoForm => Sound(form') /\ KeepsEdits(form, form')
          /\ UNCHANGED formFrame
        BY <1>1, <1>2, <2>1, FormKeys
    <2>3. ProgramsOK'
        BY <1>1, <2>2
        DEF formFrame, filters, session, ProgramsOK, ProgramInstalled, LiveIsCompiled
    <2> QED BY <2>2, <2>3, PartsFormInv
<1>3. CASE ApplyDisplay \/ ApplyCapture
    BY <1>3, ApplyKeys
<1>4. CASE \/ OpenBuilder \/ CommitBpf \/ ResetFilters
           \/ StartCapture \/ RestartCapture \/ LeaveCapture
    BY <1>4, ScreenKeysInv
<1>5. CASE Started \/ Ended
    BY <1>5, ThreadEvents DEF KeepsEdits
<1>6. CASE UNCHANGED vars
    <2>1. ProgramsOK' /\ form' = form
        BY <1>1, <1>6
        DEF vars, filters, session, ProgramsOK, ProgramInstalled, LiveIsCompiled
    <2> QED BY <1>1, <2>1, PartsFormInv DEF KeepsEdits
<1> QED BY <1>2, <1>3, <1>4, <1>5, <1>6 DEF Next, FormKey

LEMMA FormInvariant == Spec => []FormInv
<1>1. FormInv /\ [Next]_vars => FormInv'
    BY FormInvStep
<1> QED BY InitFormInv, <1>1, PTL DEF Spec

\* Every specification, form and picker keeps its type, through any edits and picks.
THEOREM FormTypeCorrect == Spec => []TypeOK
<1>1. FormInv => TypeOK
    BY DEF FormInv
<1> QED BY <1>1, FormInvariant, PTL

\* The header's program is the one the held capture was started with.
THEOREM ProgramIsInstalled == Spec => []ProgramInstalled
<1>1. FormInv => ProgramInstalled
    BY DEF FormInv
<1> QED BY <1>1, FormInvariant, PTL

\* An open picker belongs to the field in focus and its cursor to a listed value.
THEOREM PickerStaysOnFocus == Spec => []PickerOnFocus
<1>1. FormInv => PickerOnFocus
    BY DEF FormInv
<1> QED BY <1>1, FormInvariant, PTL

\* A reason for refusal never outlives the specification it was given for.
THEOREM ErrorStaysCurrent == Spec => []ErrorIsCurrent
<1>1. FormInv => ErrorIsCurrent
    BY DEF FormInv
<1> QED BY <1>1, FormInvariant, PTL

\* No key of the form loses an edit or changes a field that is not in focus.
THEOREM FormKeepsEveryEdit == Spec => FormKeepsEdits
<1>1. FormInv /\ [Next]_vars =>
        [form # NoForm /\ form' # NoForm =>
            \A f \in DOMAIN Default :
                CurrentSpec(form)[f] # CurrentSpec(form')[f] =>
                    f = Focused(form) /\ f = Focused(form')]_vars
    BY FormInvStep DEF KeepsEdits
<1> QED BY <1>1, FormInvariant, PTL DEF Spec, FormKeepsEdits

\* A value picked is in the specification and in the edit buffer.
THEOREM PicksAreTaken == Spec => PickTakes
<1>1. FormInv /\ [Next]_vars =>
        [PickerAccept /\ form.picker.row # 0 =>
            CurrentSpec(form')[form.picker.field] = form.picker.values[form.picker.row]]_vars
    <2> SUFFICES ASSUME FormInv, PickerAccept, form.picker.row # 0
                 PROVE  CurrentSpec(form')[form.picker.field] =
                            form.picker.values[form.picker.row]
        OBVIOUS
    <2>1. form # NoForm /\ form.picker # NoPicker
        BY DEF PickerAccept, PickerListens
    <2>2. Sound(form)
        BY <2>1, FormInvParts
    <2>3. form' = Accepted(form, form.picker.values[form.picker.row])
        BY DEF PickerAccept
    <2> QED BY <2>1, <2>2, <2>3, PickedForm
<1> QED BY <1>1, FormInvariant, PTL DEF Spec, PickTakes

\* A capture that is live is only ever restarted with a program that compiles for its
\* device: what the prompt and the form commit is compiled for the link type the thread
\* reported, and the restart key installs what is already running.
THEOREM LiveFilterAlwaysStands == Spec => LiveFilterStands
<1>1. FormInv /\ [Next]_vars =>
        [capture = "Live" /\ capture' = "Starting" => Compiles(installed', device)]_vars
    <2> SUFFICES ASSUME FormInv, Next, capture = "Live", capture' = "Starting"
                 PROVE  Compiles(installed', device)
        OBVIOUS
    <2>1. linktype = device /\ Compiles(installed, device) /\ installed = bpf
        BY DEF FormInv, LiveIsCompiled, ProgramInstalled
    <2>2. CASE ApplyCapture
        <3>1. /\ Valid(ToBpf(CurrentSpec(form)))
              /\ Restarted(ToBpf(CurrentSpec(form)))
            BY <2>2 DEF ApplyCapture
        <3> QED BY <2>1, <3>1 DEF Valid, Restarted
    <2>3. CASE CommitBpf
        BY <2>1, <2>3 DEF CommitBpf, Valid, Restarted
    <2>4. CASE RestartCapture
        BY <2>1, <2>4 DEF RestartCapture, Restarted
    <2>5. CASE FormKey \/ ApplyDisplay \/ OpenBuilder \/ ResetFilters \/ StartCapture
               \/ LeaveCapture \/ Started \/ Ended
        BY <2>5 DEF FormKey, Close, MoveField, Cycle, EditText, ClearText, RequestValues,
                    PickerMove, PickerEscape, PickerAccept, formFrame, session, ApplyDisplay,
                    OpenBuilder, ResetFilters, StartCapture, LeaveCapture, Started, Ended
    <2> QED BY <2>2, <2>3, <2>4, <2>5 DEF Next, FormKey
<1> QED BY <1>1, FormInvariant, PTL DEF Spec, LiveFilterStands
===============================================================================
