------------------------------ MODULE FilterForm ------------------------------
(***************************************************************************)
(* How filters come into force: the filter builder, a modal form over a    *)
(* FilterSpec with a picker of values seen in the traffic (src/builder.rs, *)
(* open_builder and apply_builder of src/app.rs), the raw BPF prompt, and  *)
(* the capture that is restarted with the program they leave behind.       *)
(*                                                                         *)
(* A capture learns its link type only when the thread reports Started,    *)
(* and validate_bpf compiles for the link type reported last.              *)
(***************************************************************************)
EXTENDS FilterSpec, Lists

CONSTANTS
    LinkTypes,    \* link types of the devices
    FirstLink,    \* the one App::new assumes
    ArpLinks,     \* those that carry ARP
    RawPrograms,  \* what may be typed at the f prompt or passed with -f
    NoForm,       \* App::builder is None
    NoPicker,     \* Builder::picker is None
    MaxForms      \* bound on the forms opened

ASSUME FormAssumption ==
    /\ FirstLink \in LinkTypes /\ ArpLinks \subseteq LinkTypes
    /\ <<>> \in RawPrograms
    /\ MaxForms \in Nat

VARIABLES
    form,          \* App::builder
    display_spec,  \* App::display_spec
    capture_spec,  \* App::capture_spec
    bpf,           \* App::bpf
    linktype,      \* App::linktype
    capture,       \* the held capture: None, Starting, Live or Ended
    device,        \* link type of the held capture's device
    installed,     \* CaptureConfig::bpf of the held capture
    forms          \* forms opened so far (not in the code)

filters == <<display_spec, capture_spec, bpf>>
session == <<capture, device, installed>>
vars == <<form, filters, linktype, session, forms>>

FIELDS == <<"source", "destination", "protocol", "port", "port_side", "target">>
Targets == {"Capture", "Display"}

IsText(f) == f \in {"source", "destination", "port"}
TextsOf(f) == IF f = "port" THEN PortTexts ELSE HostTexts

\* The texts the picker may list: addresses and ports some packet carried.
SeenOf(f) == CASE f = "port" -> Ports
               [] f \in {"source", "destination"} -> Addrs
               [] OTHER -> {}

Focused(b) == FIELDS[b.field]

-------------------------------------------------------------------------------
(* The form: Builder.  b is the state before a key.                         *)

\* The specification with the text in the edit buffer written to its field.
CurrentSpec(b) ==
    IF IsText(Focused(b)) THEN [b.spec EXCEPT ![Focused(b)] = b.input] ELSE b.spec

\* Faulty: the edit buffer is not reloaded when focus moves.
LoadedStale(b) == b

\* The text of a text field; a choice field has none.
Loaded(b) ==
    [b EXCEPT !.input = IF IsText(Focused(b)) THEN b.spec[Focused(b)] ELSE Unset]

New(spec, target) ==
    Loaded([spec |-> spec, target |-> target, field |-> 1, input |-> Unset,
            picker |-> NoPicker, error |-> FALSE])

Clamped(n, last) == CASE n < 1 -> 1 [] n > last -> last [] OTHER -> n

\* Faulty: the edit buffer is dropped when focus moves.
MovedUncommitted(b, delta) == Loaded([b EXCEPT !.field = Clamped(b.field + delta, Len(FIELDS))])

Moved(b, delta) ==
    Loaded([b EXCEPT !.spec = CurrentSpec(b), !.field = Clamped(b.field + delta, Len(FIELDS))])

\* The element after x in the ring of values s, or before it.
Step(s, x, delta) ==
    LET i == CHOOSE i \in DOMAIN s : s[i] = x
    IN  s[((i - 1 + delta) % Len(s)) + 1]

ProtocolRing == <<Unset>> \o AllProtos
TargetRing == <<"Capture", "Display">>

Cycled(b, delta) ==
    CASE Focused(b) = "protocol" ->
            [b EXCEPT !.spec.protocol = Step(ProtocolRing, b.spec.protocol, delta)]
      [] Focused(b) = "port_side" ->
            [b EXCEPT !.spec.port_side = Step(AllSides, b.spec.port_side, delta)]
      [] Focused(b) = "target" ->
            [b EXCEPT !.target = Step(TargetRing, b.target, delta)]
      [] OTHER -> b

\* Faulty: the edit buffer does not follow the picked value.
AcceptedBehind(b, value) ==
    [b EXCEPT !.spec[b.picker.field] = value, !.picker = NoPicker]

Accepted(b, value) ==
    LET taken == [b EXCEPT !.spec[b.picker.field] = value, !.picker = NoPicker]
    IN  IF b.picker.field = Focused(b) THEN Loaded(taken) ELSE taken

\* Faulty: a reason for refusal stays on screen after the form is edited.
ErrorLeft(b) == b

ErrorCleared(b) == [b EXCEPT !.error = FALSE]

-------------------------------------------------------------------------------
(* Programs and the capture they are installed in.                          *)

\* pcap_compile (external): every primitive has to parse, and to be something the
\* link type can carry.
Compiles(program, link) ==
    \A i \in DOMAIN program :
        /\ program[i].kind # "garbage"
        /\ program[i].kind = "arp" /\ ~program[i].negated => link \in ArpLinks

\* Faulty: what is typed is taken as it is.
ValidUnchecked(program) == TRUE

\* validate_bpf
Valid(program) == Compiles(program, linktype)

\* Faulty: a capture that is not LIVE is left alone, and keeps its old program.
RestartedIfLive(program) ==
    IF capture = "Live"
    THEN capture' = "Starting" /\ installed' = program
    ELSE UNCHANGED <<capture, installed>>

\* A running or ended capture on screen is started again; without one, nothing.
Restarted(program) ==
    IF capture # "None"
    THEN capture' = "Starting" /\ installed' = program
    ELSE UNCHANGED <<capture, installed>>

Init ==
    /\ form = NoForm
    /\ display_spec = Default /\ capture_spec = Default
    /\ bpf \in RawPrograms
    /\ linktype = FirstLink
    /\ capture = "None" /\ device = FirstLink /\ installed = <<>>
    /\ forms = 0

-------------------------------------------------------------------------------
(* Keys of the form.                                                        *)

\* Faulty: the picker lets keys through to the form behind it.
FieldsListenAlways == form # NoForm

FieldsListen == form # NoForm /\ form.picker = NoPicker

PickerListens == form # NoForm /\ form.picker # NoPicker

formFrame == <<filters, linktype, session, forms>>

Close == FieldsListen /\ form' = NoForm /\ UNCHANGED formFrame

MoveField ==
    /\ FieldsListen
    /\ \E delta \in {-1, 1} : form' = Moved(ErrorCleared(form), delta)
    /\ UNCHANGED formFrame

Cycle ==
    /\ FieldsListen /\ ~IsText(Focused(form))
    /\ \E delta \in {-1, 1} : form' = Cycled(ErrorCleared(form), delta)
    /\ UNCHANGED formFrame

\* Every editing key together: the buffer may become any text of its field.
EditText ==
    /\ FieldsListen
    /\ IF IsText(Focused(form))
       THEN \E text \in TextsOf(Focused(form)) :
                form' = [ErrorCleared(form) EXCEPT !.input = text]
       ELSE form' = ErrorCleared(form)
    /\ UNCHANGED formFrame

\* Ctrl-U clears the buffer and writes it back at once.
ClearText ==
    /\ FieldsListen
    /\ LET cleared == [ErrorCleared(form) EXCEPT !.input = Unset]
       IN  form' = [cleared EXCEPT !.spec = CurrentSpec(cleared)]
    /\ UNCHANGED formFrame

\* Ctrl-P: the values seen in the ring, most frequent first; here in any order.
RequestValues ==
    /\ FieldsListen
    /\ \E values \in Listings(SeenOf(Focused(form))) :
          form' = [ErrorCleared(form) EXCEPT !.picker =
                      [field |-> Focused(form), values |-> values,
                       row |-> IF values = <<>> THEN 0 ELSE 1]]
    /\ UNCHANGED formFrame

PickerMove ==
    /\ PickerListens /\ form.picker.values # <<>>
    /\ \E delta \in {-10, -1, 1, 10} :
          form' = [form EXCEPT !.picker.row = Clamped(@ + delta, Len(form.picker.values))]
    /\ UNCHANGED formFrame

PickerEscape ==
    /\ PickerListens
    /\ form' = [form EXCEPT !.picker = NoPicker]
    /\ UNCHANGED formFrame

PickerAccept ==
    /\ PickerListens
    /\ form' = IF form.picker.row = 0 THEN [form EXCEPT !.picker = NoPicker]
               ELSE Accepted(form, form.picker.values[form.picker.row])
    /\ UNCHANGED formFrame

ApplyDisplay ==
    /\ FieldsListen /\ form.target = "Display"
    /\ display_spec' = CurrentSpec(form)
    /\ form' = NoForm
    /\ UNCHANGED <<capture_spec, bpf, linktype, session, forms>>

ApplyCapture ==
    LET spec == CurrentSpec(form)
        program == ToBpf(spec)
    IN  /\ FieldsListen /\ form.target = "Capture"
        /\ IF ~Refused(spec) /\ Valid(program)
           THEN /\ capture_spec' = spec
                /\ bpf' = program
                /\ form' = NoForm
                /\ Restarted(program)
           ELSE /\ form' = [form EXCEPT !.error = TRUE]
                /\ UNCHANGED <<capture_spec, bpf, capture, installed>>
        /\ UNCHANGED <<display_spec, linktype, device, forms>>

-------------------------------------------------------------------------------
(* Keys of the screens behind the form, and events of the capture thread.   *)

\* The form opens on the selector in force.
OpenBuilder ==
    /\ form = NoForm
    /\ forms < MaxForms
    /\ forms' = forms + 1
    /\ form' = CASE ~IsEmpty(display_spec) -> New(display_spec, "Display")
                 [] IsEmpty(display_spec) /\ ~IsEmpty(capture_spec) ->
                        New(capture_spec, "Capture")
                 [] OTHER -> New(Default, "Capture")
    /\ UNCHANGED <<filters, linktype, session>>

\* Enter at the f prompt.
CommitBpf ==
    /\ form = NoForm
    /\ \E program \in RawPrograms :
          /\ Valid(program)
          /\ bpf' = program
          /\ Restarted(program)
    /\ UNCHANGED <<form, display_spec, capture_spec, linktype, device, forms>>

\* n on the monitor screen.
ResetFilters ==
    /\ form = NoForm /\ capture # "None"
    /\ display_spec' = Default
    /\ UNCHANGED <<form, capture_spec, bpf, linktype, session, forms>>

\* Enter on a device, or -i.
StartCapture ==
    /\ form = NoForm /\ capture = "None"
    /\ device' \in LinkTypes
    /\ capture' = "Starting" /\ installed' = bpf
    /\ UNCHANGED <<form, filters, linktype, forms>>

\* Ctrl-R
RestartCapture ==
    /\ form = NoForm /\ capture # "None"
    /\ Restarted(bpf)
    /\ UNCHANGED <<form, filters, linktype, device, forms>>

LeaveCapture ==
    /\ form = NoForm /\ capture # "None"
    /\ capture' = "None" /\ device' = FirstLink /\ installed' = <<>>
    /\ UNCHANGED <<form, filters, linktype, forms>>

\* Started arrives, form open or not: open() compiled the program for the device.
Started ==
    /\ capture = "Starting" /\ Compiles(installed, device)
    /\ capture' = "Live"
    /\ linktype' = device
    /\ UNCHANGED <<form, filters, device, installed, forms>>

\* The thread ended: its program did not compile, or opening or reading failed.
Ended ==
    /\ capture \in {"Starting", "Live"}
    /\ capture' = "Ended"
    /\ UNCHANGED <<form, filters, linktype, device, installed, forms>>

Next ==
    \/ Close \/ MoveField \/ Cycle \/ EditText \/ ClearText
    \/ RequestValues \/ PickerMove \/ PickerEscape \/ PickerAccept
    \/ ApplyDisplay \/ ApplyCapture
    \/ OpenBuilder \/ CommitBpf \/ ResetFilters
    \/ StartCapture \/ RestartCapture \/ LeaveCapture \/ Started \/ Ended

Spec == Init /\ [][Next]_vars

-------------------------------------------------------------------------------
(* Properties                                                               *)

Forms == [spec : FilterSpecs, target : Targets, field : 1..Len(FIELDS),
          input : HostTexts \cup PortTexts,
          picker : {NoPicker} \cup [field : {FIELDS[i] : i \in DOMAIN FIELDS},
                                    values : UNION {Listings(SeenOf(FIELDS[i])) : i \in DOMAIN FIELDS},
                                    row : Nat],
          error : BOOLEAN]

\* Types; the edit buffer holds a text of the field in focus.
TypeOK ==
    /\ form # NoForm =>
          /\ form \in Forms
          /\ form.input \in IF IsText(Focused(form)) THEN TextsOf(Focused(form)) ELSE {Unset}
    /\ display_spec \in FilterSpecs /\ capture_spec \in FilterSpecs
    /\ linktype \in LinkTypes /\ device \in LinkTypes
    /\ capture \in {"None", "Starting", "Live", "Ended"}
    /\ forms \in 0..MaxForms

\* The program in the header is the one the held capture was started with,
\* whichever of the form, the prompt and the restart key put it there.
ProgramInstalled == capture # "None" => installed = bpf

\* A filter change cannot break a capture that is LIVE: the program it restarts
\* with compiles for the device it restarts on (README, "An invalid filter is
\* rejected before the running capture is touched").
LiveFilterStands ==
    [][capture = "Live" /\ capture' = "Starting" => Compiles(installed', device)]_vars

\* The form loses nothing typed and changes nothing unasked: between two keys the
\* current specification differs at most in the field that had and keeps the focus.
FormKeepsEdits ==
    [][form # NoForm /\ form' # NoForm =>
          \A f \in DOMAIN Default :
              CurrentSpec(form)[f] # CurrentSpec(form')[f] =>
                  f = Focused(form) /\ f = Focused(form')]_vars

\* A value picked is what Enter would then apply, edit buffer included.
PickTakes ==
    [][PickerAccept /\ form.picker.row # 0 =>
          CurrentSpec(form')[form.picker.field] = form.picker.values[form.picker.row]]_vars

\* An open picker is for the field in focus, and its cursor is on a listed value:
\* no key reaches the fields behind it.
PickerOnFocus ==
    form # NoForm /\ form.picker # NoPicker =>
        /\ form.picker.field = Focused(form)
        /\ IF form.picker.values = <<>> THEN form.picker.row = 0
           ELSE form.picker.row \in DOMAIN form.picker.values

\* A reason for refusal is shown only over the specification it is about.
ErrorIsCurrent ==
    form # NoForm /\ form.error =>
        /\ form.target = "Capture"
        /\ LET spec == CurrentSpec(form)
           IN  Refused(spec) \/ \E link \in LinkTypes : ~Compiles(ToBpf(spec), link)

\* A picker lists what the traffic showed for its field, over a form without an error.
PickerListsSeen ==
    form # NoForm /\ form.picker # NoPicker =>
        ~form.error /\ form.picker.values \in Listings(SeenOf(form.picker.field))

\* A live capture has reported the link type of its device, and its program compiled.
LiveIsCompiled == capture = "Live" => linktype = device /\ Compiles(installed, device)

\* The inductive invariant behind the properties of the form and of its programs.
FormInv == TypeOK /\ ProgramInstalled /\ PickerOnFocus /\ ErrorIsCurrent
               /\ PickerListsSeen /\ LiveIsCompiled

\* app.rs:277: capture_spec is the "structured selector that produced the active
\* `bpf` string".
SelectorProducedProgram == ~IsEmpty(capture_spec) => bpf = ToBpf(capture_spec)

\* README:274: "An invalid filter is rejected before the running capture is
\* touched", one whose device is still being opened included.
FilterStands ==
    [][(CommitBpf \/ ApplyCapture) /\ capture' = "Starting" /\ Compiles(installed, device)
          => Compiles(installed', device)]_vars
===============================================================================
