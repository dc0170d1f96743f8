----------------------------- MODULE GcrViewer -----------------------------
(***************************************************************************)
(* The viewer widget of ui/gcr-viewer-widget.c with its unlock renderers   *)
(* (ui/gcr-unlock-renderer.c) and the asynchronous reading of a stream in  *)
(* gcr/gcr-parser.c (GcrParsing).  Files are read side by side: the field  *)
(* loading of the widget is never set, so a file that is to be loaded is   *)
(* popped from the queue at once and the queue stays empty.  Each file is  *)
(* parsed in one go when its end is read.                                  *)
(*                                                                         *)
(* The window stays open: a widget disposed while a file is being read is  *)
(* used after it is gone (see the README).                                 *)
(***************************************************************************)
EXTENDS Integers, Sequences, FiniteSets

CONSTANTS
    None,           \* no value (NULL)
    File,           \* files (and pieces of data) that may be loaded
    Sound, Damaged, \* what a file may hold, see GcrParser
    Formats,        \* the choices of formats the parser may be set to
    Password,       \* what the user may type
    MaxClicks       \* attempts to unlock something

VARIABLES
    content,        \* what each file holds
    formats,        \* formats enabled in the parser, None: the usual ones
    state,          \* per file: idle, opening, reading, done or failed
    passwords,      \* pv->passwords of the one parser
    display_name,   \* name shown for items without one
    explicit,       \* display_name_explicit
    renderers,      \* the viewer's renderers
    clicks

vars == <<content, formats, state, passwords, display_name, explicit,
          renderers, clicks>>

Parser == INSTANCE GcrParser

Title == "title"    \* a display name set by the program

ViewerTypeOK ==
    /\ content \in [File -> Sound \cup Damaged]
    /\ formats \in Formats
    /\ state \in [File -> {"idle", "opening", "reading", "done", "failed"}]
    /\ \A i \in DOMAIN passwords : passwords[i] \in Password \cup {None, ""}
    /\ display_name \in File \cup {None, Title}
    /\ explicit \in BOOLEAN
    /\ \A i \in DOMAIN renderers :
          renderers[i].kind \in {"item", "unsupported", "failure", "unlock"}
    /\ clicks \in 0 .. MaxClicks

Init ==
    /\ content \in [File -> Sound \cup Damaged]
    /\ formats \in Formats
    /\ state = [f \in File |-> "idle"]
    /\ passwords = Parser!NewParser.passwords
    /\ display_name = None
    /\ explicit = FALSE
    /\ renderers = <<>>
    /\ clicks = 0

-----------------------------------------------------------------------------
(* What the handlers of the parser's signals show                          *)

Labelled(label, name) == IF label = None THEN name ELSE label

\* on_parser_parsed and on_parser_authenticate_for_data: an object gets a
\* renderer of its class, there is none for public keys; a locked block is
\* kept in an unlock renderer.
Renderer(signal, name) ==
    [kind  |-> IF signal.signal = "authenticate" THEN "unlock"
               ELSE IF signal.class = "public" THEN "unsupported" ELSE "item",
     data  |-> signal.data,
     label |-> Labelled(signal.label, name)]

Failure(name) == [kind |-> "failure", data |-> None, label |-> name]

\* The parser after a parse, alone in a set so that it is computed once.
Parse(auth, d) ==
    {Parser!ParseData([Parser!NewParser EXCEPT !.passwords = passwords,
                                               !.auth = auth], formats, d)}

\* The renderers for what a parse told.  The handler that unlocks comes first
\* and answers alone, nothing is shown of what it is asked.
Renderers(p, name) ==
    LET seen(signal) == signal.signal = "parsed" \/ p.auth.kind = "keep"
        signals == SelectSeq(p.told, seen)
    IN  [i \in DOMAIN signals |-> Renderer(signals[i], name)]

-----------------------------------------------------------------------------
(* Loading                                                                 *)

\* gcr_viewer_widget_load_file and viewer_load_next_file.
LoadFile(f) ==
    /\ state[f] = "idle"
    /\ state' = [state EXCEPT ![f] = "opening"]
    /\ UNCHANGED <<content, formats, passwords, display_name, explicit,
                   renderers, clicks>>

\* on_file_read_returned: the file is open, or cannot be opened.  Its blocks
\* are gathered in a buffer until the last one (or an error) arrives.
OnFileRead(f, ok) ==
    /\ state[f] = "opening"
    /\ display_name' = IF explicit THEN display_name ELSE f
    /\ state' = [state EXCEPT ![f] = IF ok THEN "reading" ELSE "failed"]
    /\ renderers' = IF ok THEN renderers ELSE Append(renderers, Failure(display_name'))
    /\ UNCHANGED <<content, formats, passwords, explicit, clicks>>

\* The stream is read to its end and parsed; a locked block was already put
\* aside, any other error is shown after what was found before it.
OnReadEnd(f) ==
    /\ state[f] = "reading"
    /\ \E p \in Parse([kind |-> "keep"], content[f]) :
        LET failed == p.ret \notin {Parser!SUCCESS, Parser!LOCKED} IN
        /\ state' = [state EXCEPT ![f] = IF failed THEN "failed" ELSE "done"]
        /\ passwords' = p.passwords
        /\ renderers' = renderers \o Renderers(p, display_name)
                          \o (IF failed THEN <<Failure(display_name)>> ELSE <<>>)
        /\ UNCHANGED <<content, formats, display_name, explicit, clicks>>

OnReadError(f) ==
    /\ state[f] = "reading"
    /\ state' = [state EXCEPT ![f] = "failed"]
    /\ renderers' = Append(renderers, Failure(display_name))
    /\ UNCHANGED <<content, formats, passwords, display_name, explicit,
                   clicks>>

\* gcr_viewer_widget_load_data: here a locked block counts as an error too.
LoadData(f) ==
    /\ state[f] = "idle"
    /\ \E p \in Parse([kind |-> "keep"], content[f]) :
        LET opened == p.ret \in {Parser!SUCCESS, Parser!LOCKED} IN
        /\ state' = [state EXCEPT ![f] = IF opened THEN "done" ELSE "failed"]
        /\ display_name' = f
        /\ passwords' = p.passwords
        /\ renderers' = renderers \o Renderers(p, f)
                          \o (IF p.ret # Parser!SUCCESS THEN <<Failure(f)>> ELSE <<>>)
        /\ UNCHANGED <<content, formats, explicit, clicks>>

\* gcr_viewer_widget_set_display_name
SetDisplayName ==
    /\ ~explicit
    /\ display_name' = Title
    /\ explicit' = TRUE
    /\ UNCHANGED <<content, formats, state, passwords, renderers, clicks>>

-----------------------------------------------------------------------------
(* Unlocking                                                               *)

\* The renderer stays when its block is open.
UnlockClickedKeeps(i, password) ==
    /\ clicks < MaxClicks
    /\ \E p \in Parse([kind |-> "give", password |-> password], renderers[i].data) :
        /\ clicks' = clicks + 1
        /\ passwords' = p.passwords
        /\ renderers' = renderers \o Renderers(p, display_name)
        /\ UNCHANGED <<content, formats, state, display_name, explicit>>
\* on_unlock_renderer_clicked: the block is parsed again, and the password
\* typed is offered once for everything in it that known ones do not open.
\* The password stays with the parser, whether it was right or not.
UnlockClicked(i, password) ==
    /\ clicks < MaxClicks
    /\ \E p \in Parse([kind |-> "give", password |-> password], renderers[i].data) :
        LET rest == SubSeq(renderers, 1, i - 1) \o SubSeq(renderers, i + 1, Len(renderers))
            more == Renderers(p, display_name)
        IN
        /\ clicks' = clicks + 1
        /\ passwords' = p.passwords
        /\ renderers' = IF p.ret = Parser!SUCCESS THEN rest \o more ELSE renderers \o more
        /\ UNCHANGED <<content, formats, state, display_name, explicit>>

Unlocks == {i \in DOMAIN renderers : renderers[i].kind = "unlock"}

Arrives(f) == \/ \E ok \in BOOLEAN : OnFileRead(f, ok)
              \/ OnReadEnd(f)
              \/ OnReadError(f)

Next ==
    \/ \E f \in File : LoadFile(f) \/ LoadData(f) \/ Arrives(f)
    \/ SetDisplayName
    \/ \E i \in Unlocks, password \in Password : UnlockClicked(i, password)

Spec == Init /\ [][Next]_vars

-----------------------------------------------------------------------------
(* What data holds, said without a parser: its objects, each with the      *)
(* passwords that lock it.                                                 *)

Unlocked(data) == {[data |-> d, locks |-> {}] : d \in data}
LockedBy(objects, password) ==
    IF password = None THEN objects
    ELSE {[o EXCEPT !.locks = @ \cup {password}] : o \in objects}

Elements(s) == {s[i] : i \in DOMAIN s}

KeyObjects(d) ==
    CASE d.k = "pkcs8"   -> Unlocked({d.inner})
      [] d.k = "enc8"    -> LockedBy(Unlocked({d.inner.inner}), d.password)
      [] d.k = "base64"  -> Unlocked({d.inner})
      [] d.k = "pkcs7"   -> Unlocked(Elements(d.certs))
      [] d.k = "openpgp" -> Unlocked(Elements(d.keys))
      [] d.k = "ssh"     -> Unlocked(Elements(d.lines))
      [] d.k = "junk"    -> {}
      [] OTHER           -> Unlocked({d})

ContentObjects(content12) ==
    LET bags == Elements(content12.inner.bags)
    IN  LockedBy(UNION {KeyObjects(bag.value) : bag \in bags}, content12.password)

BlockObjects(d) ==
    IF d.k = "pkcs12"
      THEN LockedBy(UNION {ContentObjects(c) : c \in Elements(d.safe)}, d.mac)
      ELSE KeyObjects(d)

Objects(d) ==
    IF d.k = "pem"
      THEN UNION {LockedBy(BlockObjects(b.inner), b.password) : b \in Elements(d.blocks)}
      ELSE BlockObjects(d)

Blocks(d) == IF d.k = "pem" THEN {b.inner : b \in Elements(d.blocks)} ELSE {d}

\* A block opens as a whole when one set of passwords locks all it holds.
Whole(d) == \A o1, o2 \in Objects(d) : o1.locks = o2.locks

\* A PKCS#12 block without a MAC is opened part by part, and what follows a
\* part that stays locked is not looked at: it is neither shown nor kept.
Loose(d) ==
    \E b \in Blocks(d) : b.k = "pkcs12" /\ b.mac = None /\ Cardinality(Objects(b)) > 1

Shows(o) == {i \in DOMAIN renderers : renderers[i].data = o.data
                                  /\ renderers[i].kind \in {"item", "unsupported"}}

\* Every object of a sound file that was read is shown, or is in a block that
\* waits to be unlocked (gcr-viewer-widget.c:409 passes over the error because
\* something was put aside before it); it is not shown before the parser was given
\* every password that locks it, the one of an integrity check around it included;
\* and it is not shown twice, however often wrong passwords are tried and whatever
\* else is unlocked, where the blocks of the file open as a whole.
EachObjectOnce ==
    \A f \in File :
        state[f] = "done" /\ content[f] \in Sound /\ ~Loose(content[f]) =>
            \A o \in Objects(content[f]) :
                /\ \/ Shows(o) # {} /\ o.locks \subseteq Elements(passwords)
                   \/ Shows(o) = {} /\ \E i \in Unlocks :
                        \E w \in Objects(renderers[i].data) : w.data = o.data
                /\ \A b \in Blocks(content[f]) : Whole(b)
                      => Cardinality(Shows(o)) <= 1

\* A click with the password of a block opens it: its renderer goes and all
\* its objects are there, and with a wrong one nothing changes but the list of
\* passwords.  (Blocks of sound files that open as a whole.)
Openable(d) ==
    /\ Whole(d) /\ ~Loose(d)
    /\ \E f \in File : content[f] \in Sound /\
          {o.data : o \in Objects(d)} \subseteq {o.data : o \in Objects(content[f])}

UnlockOpens ==
    [][\A i \in Unlocks, password \in Password :
          UnlockClicked(i, password) /\ Openable(renderers[i].data) =>
            LET objects == Objects(renderers[i].data)
                open == \A o \in objects : o.locks \subseteq Elements(passwords')
            IN  IF open THEN /\ Cardinality(Unlocks') = Cardinality(Unlocks) - 1
                             /\ \A o \in objects : Shows(o)' # {}
                ELSE renderers' = renderers]_vars

=============================================================================
