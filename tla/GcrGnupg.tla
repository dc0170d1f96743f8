----------------------------- MODULE GcrGnupg -----------------------------
(***************************************************************************)
(* gcr/gcr-gnupg-collection.c and gcr/gcr-gnupg-importer.c: what is made   *)
(* of the runs of gpg.  A load lists the public keys and then the secret   *)
(* ones; the photos of keys come over pipes of their own.  An import feeds *)
(* the queued packets to gpg and collects what it says of them.            *)
(***************************************************************************)
EXTENDS GcrGnupgProcess, Folds

CONSTANTS
    Key, Packet,
    Photo,      \* [Key -> Nat], the length of the photo of a key, or 0
    Keyrings,   \* what gpg may know at first
    Jobs,       \* what the program does, out of {"load", "import"}
    MaxRuns,
    Troubles    \* how often gpg may fail, and the keyring be edited, in a load

VARIABLES
    job,
    keyring,   \* what gpg knows: "absent", "public" or "secret" for each key
    items,     \* the keys in the collection
    load,      \* the GcrGnupgCollectionLoad
    packets,   \* what the importer's input stream still holds
    imported,  \* what gpg said that it has imported
    due,       \* what the import is to import (history)
    queued,    \* all packets (history)
    listed,    \* what gpg was to list, public and secret (history)
    result,    \* of the last load or import
    budget

clientVars == <<items, load, packets, imported, due, listed, result>>
vars == <<processVars, job, keyring, clientVars, queued, budget>>

Line(kind, k, eol) == [kind |-> kind, key |-> k, eol |-> eol]
Attribute(k) == [key |-> k, length |-> Photo[k]]
Keys == SetToSeq(Key)
Listed(secret) ==
    SelectSeq(Keys, LAMBDA k : keyring[k] \in (IF secret THEN {} ELSE {"public"}) \cup {"secret"})

NoLoad == [phase |-> "none", out |-> <<>>, records |-> <<>>, queue |-> <<>>, buf |-> <<>>,
           attributes |-> [k \in Key |-> <<>>], difference |-> {}]

-----------------------------------------------------------------------------
(***************************************************************************)
(* What gpg writes: for a key its lines, pub (or sec) the first of them,   *)
(* which the pipe may deliver in parts, then status and photo.             *)
(***************************************************************************)
Described(k, kind) ==
    <<Write("output", Line(kind, k, FALSE)), Write("output", Line(kind, k, TRUE))>>
    \o (IF kind = "pub" /\ Photo[k] > 0
        THEN <<Write("status", Attribute(k))>>
             \o [i \in 1..Photo[k] |-> Write("attribute", [key |-> k, part |-> i])]
        ELSE <<>>)
Listing(secret) ==
    FlattenSeq([i \in 1..Len(Listed(secret)) |->
        Described(Listed(secret)[i], IF secret THEN "sec" ELSE "pub")])

Gpg(todo) == [NoChild EXCEPT !.alive = TRUE, !.todo = todo]

-----------------------------------------------------------------------------
(***************************************************************************)
(* The collection.  c is the state of a load with the items it fills.      *)
(***************************************************************************)
With(f, k, v) == [x \in DOMAIN f \cup {k} |-> IF x = k THEN v ELSE f[x]]
Without(f, k) == [x \in DOMAIN f \ {k} |-> f[x]]

\* process_records_as_public_key and _secret_key
PublicKey(c, k) ==
    LET new == [photos |-> c.load.attributes[k],
                secret |-> k \in DOMAIN c.items /\ c.items[k].secret]
    IN  [items |-> With(c.items, k, new),
         load |-> [c.load EXCEPT !.attributes[k] = <<>>, !.difference = @ \ {k}]]
SecretKey(c, k) ==
    IF k \in DOMAIN c.items THEN [c EXCEPT !.items[k].secret = TRUE] ELSE c

\* process_records_as_key
RecordsAsKey(c) ==
    LET first == Head(c.load.records)
        rest  == [c EXCEPT !.load.records = <<>>]
    IN  IF first.kind = "pub" THEN PublicKey(rest, first.key) ELSE SecretKey(rest, first.key)

\* on_line_parse_output
OutputLine(c, line) ==
    LET made == IF c.load.records = <<>> THEN c ELSE RecordsAsKey(c)
    IN  [made EXCEPT !.load.records = <<line>>]

\* _gcr_util_parse_lines: a line is there when its end is, and what follows
\* the last line break waits (gpg ends all its lines).
Lines(out) ==
    LET ends == SetToSortSeq({i \in 2..Len(out) : out[i].eol}, <)
    IN  [j \in 1..Len(ends) |-> out[ends[j]]]
UnparsedForgotten(out) == <<>>
Unparsed(out) == IF out = <<>> \/ Last(out).eol THEN <<>> ELSE <<Last(out)>>
Parsed(c) == FoldLeft(OutputLine, [c EXCEPT !.load.out = Unparsed(@)], Lines(c.load.out))

\* on_gnupg_process_output_data
OutputData(c, data) == Parsed([c EXCEPT !.load.out = @ \o data])

\* process_outstanding_attributes
\* The whole buffer is taken, also what is of the next photo.
OutstandingWhole(l) ==
    IF l.queue = <<>> \/ Len(l.buf) < Head(l.queue).length THEN l
    ELSE [l EXCEPT !.queue = Tail(@),
                   !.attributes[Head(l.queue).key] = Append(@, l.buf),
                   !.buf = <<>>]
RECURSIVE Outstanding(_)
Outstanding(l) ==
    IF l.queue = <<>> \/ Len(l.buf) < Head(l.queue).length THEN l
    ELSE LET a == Head(l.queue)
         IN  Outstanding([l EXCEPT
                !.queue = Tail(@),
                !.attributes[a.key] = Append(@, SubSeq(l.buf, 1, a.length)),
                !.buf = SubSeq(@, a.length + 1, Len(@))])

\* on_gnupg_process_status_record and on_gnupg_process_attribute_data
StatusRecords(c, data) == [c EXCEPT !.load = Outstanding([@ EXCEPT !.queue = @ \o data])]
AttributeData(c, data) == [c EXCEPT !.load = Outstanding([@ EXCEPT !.buf = @ \o data])]

\* What a stream or a signal does with the data of a pipe; a cancelled stream
\* takes none.
Received(c, f, data) ==
    CASE f = "status"    -> StatusRecords(c, data)
      [] f = "attribute" -> IF stopped THEN c ELSE AttributeData(c, data)
      [] f = "output"    -> IF stopped THEN c ELSE OutputData(c, data)
      [] f = "error"     -> c

Collection == [items |-> items, load |-> load]
Keeps(c) == items' = c.items /\ load' = c.load

-----------------------------------------------------------------------------
(***************************************************************************)
(* Starting gpg, and what happens when it is done.                         *)
(***************************************************************************)
\* What run_async makes of it: late, if the cancellable is cancelled already.
Spawn(p, flags, todo, late) ==
    \/ /\ proc' = Started(p, {"input", "output", "error"} \cup flags, late)
       /\ child' = IF late THEN Terminated(proc', Gpg(todo)) ELSE Gpg(todo)
       /\ pipe' = Empty /\ faults' = faults
    \/ /\ faults > 0 /\ faults' = faults - 1
       /\ proc' = NotStarted(p) /\ child' = NoChild /\ pipe' = Empty

Released == child' = NoChild /\ pipe' = Empty /\ faults' = faults

LoadEnds(p, c, outcome) ==
    /\ proc' = p /\ items' = c.items /\ load' = NoLoad /\ result' = outcome
    /\ Released /\ listed' = listed

\* on_gnupg_process_completed: an error ends the load, the first phase leads
\* to the second, and after that the keys that were not listed go.
LoadCompleted(p) ==
    LET last == IF load.records = <<>> THEN Collection ELSE RecordsAsKey(Collection)
    IN  CASE Result(p) # "none" -> LoadEnds(Cleared(p), Collection, Result(p))
          [] Result(p) = "none" /\ load.phase = "public" ->
                /\ items' = last.items /\ result' = result
                /\ load' = [last.load EXCEPT !.phase = "secret"]
                /\ listed' = [listed EXCEPT !.secret = ToSet(Listed(TRUE))]
                /\ Spawn(Cleared(p), {}, Listing(TRUE), stopped)
          [] Result(p) = "none" /\ load.phase = "secret" ->
                LoadEnds(Cleared(p),
                         [last EXCEPT !.items = [k \in DOMAIN @ \ last.load.difference |-> @[k]]],
                         "ok")

\* on_process_run_complete
ImportCompleted(p) ==
    /\ proc' = Cleared(p)
    /\ result' = IF Result(p) = "none" THEN "ok" ELSE Result(p)
    /\ Released /\ UNCHANGED <<items, load, listed>>

Callback(p) ==
    /\ \/ job = "load" /\ LoadCompleted(p)
       \/ job = "import" /\ ImportCompleted(p)
    /\ UNCHANGED <<packets, imported, due>>

-----------------------------------------------------------------------------
(***************************************************************************)
(* The main loop.                                                          *)
(***************************************************************************)
Busy == proc.running \/ proc.later
Fixed == UNCHANGED <<job, keyring, queued, budget>>

DispatchInput ==
    /\ at = "input"
    /\ LET fed == Fed(proc, packets)
       IN  /\ pipe' = [pipe EXCEPT !["input"] = @ \o fed.sent]
           /\ packets' = fed.packets
           /\ proc' = fed.proc
    /\ at' = NextFd("input")
    /\ UNCHANGED <<revents, child, stopped, faults, items, load, imported, due, listed, result>>
    /\ Fixed

\* on_process_status_record
Told(f, data) == IF f = "status" THEN imported \cup ToSet(data) ELSE imported

DispatchRead(f) ==
    /\ at = f /\ "IN" \in revents[f] /\ Returns(f)
    /\ pipe' = After(f)
    /\ \/ /\ job = "load" /\ Keeps(Received(Collection, f, Taken(f)))
          /\ imported' = imported
       \/ /\ job = "import" /\ imported' = Told(f, Taken(f))
          /\ UNCHANGED <<items, load>>
    /\ IF Again(f) THEN UNCHANGED <<at, proc>> ELSE at' = NextFd(f) /\ proc' = HungUp(proc, f)
    /\ UNCHANGED <<revents, child, stopped, faults, packets, due, listed, result>>
    /\ Fixed

DispatchHangup(f) ==
    /\ at = f /\ "IN" \notin revents[f]
    /\ at' = NextFd(f) /\ proc' = Closed(proc, f)
    /\ UNCHANGED <<revents, pipe, child, stopped, faults, clientVars>>
    /\ Fixed

SettledWith(p) ==
    IF Finished(p) THEN Callback(Completed(p))
    ELSE proc' = p /\ UNCHANGED <<child, pipe, faults, clientVars>>

DispatchEnds ==
    /\ at = "end" /\ at' = "loop" /\ revents' = [f \in Fd |-> {}]
    /\ SettledWith(proc) /\ stopped' = stopped /\ Fixed

\* on_gnupg_process_child_exited
ChildExited ==
    /\ at = "loop" /\ proc.pid /\ ~child.alive
    /\ SettledWith(ExitSeen(proc)) /\ UNCHANGED <<at, revents, stopped>> /\ Fixed

\* on_run_async_ready_callback_later
CallbackLater ==
    /\ at = "loop" /\ proc.later
    /\ Callback([proc EXCEPT !.later = FALSE])
    /\ UNCHANGED <<at, revents, stopped>> /\ Fixed

Looping ==
    \/ Poll /\ UNCHANGED <<clientVars>> /\ Fixed
    \/ DispatchInput \/ DispatchEnds \/ ChildExited \/ CallbackLater
    \/ \E f \in Outputs : DispatchRead(f) \/ DispatchHangup(f)

-----------------------------------------------------------------------------
(***************************************************************************)
(* The program, and others.                                                *)
(***************************************************************************)
Begins(j) ==
    /\ job = j /\ at = "loop" /\ ~Busy /\ budget.runs > 0
    /\ budget' = [budget EXCEPT !.runs = @ - 1]
    /\ stopped' \in {FALSE, stopped}
    /\ result' = "none"
    /\ UNCHANGED <<at, revents, job, keyring, queued, imported>>

\* _gcr_gnupg_collection_load_async
LoadAsync ==
    /\ Begins("load")
    /\ load' = [NoLoad EXCEPT !.phase = "public", !.difference = DOMAIN items]
    /\ Spawn(proc, {"status", "attribute"}, Listing(FALSE), stopped')
    /\ listed' = [public |-> ToSet(Listed(FALSE)), secret |-> {}]
    /\ UNCHANGED <<items, packets, due>>

\* _gcr_gnupg_importer_queue_for_parsed and _gcr_gnupg_importer_import_async
QueueForParsed ==
    /\ job = "import" /\ at = "loop"
    /\ \E k \in Packet \ ToSet(queued) :
           /\ packets' = Append(packets, k) /\ queued' = Append(queued, k)
           /\ due' = IF "input" \in proc.fds THEN due \cup {k} ELSE due
    /\ UNCHANGED <<processVars, job, keyring, items, load, imported, listed, result,
                   budget>>
ImportAsync ==
    /\ Begins("import") /\ Spawn(proc, {"status"}, <<ReadInput>>, stopped')
    /\ due' = ToSet(packets)
    /\ UNCHANGED <<items, load, packets, listed>>

\* g_cancellable_cancel, from the main loop
Cancel ==
    /\ at = "loop" /\ ~stopped
    /\ stopped' = TRUE
    /\ IF proc.connected THEN proc' = Cancelled(proc) /\ child' = Terminated(proc, child)
       ELSE UNCHANGED <<proc, child>>
    /\ UNCHANGED <<at, revents, pipe, faults, clientVars>> /\ Fixed

\* Somebody edits the keyring.  Only a gpg that starts sees it, so that the
\* edits made while one runs may all come after its end.
EditKeyring ==
    /\ at = "loop" /\ ~child.alive /\ budget.changes > 0 /\ budget' = [budget EXCEPT !.changes = @ - 1]
    /\ \E k \in Key : \E to \in {"absent", "public", "secret"} \ {keyring[k]} :
           keyring' = [keyring EXCEPT ![k] = to]
    /\ UNCHANGED <<processVars, job, clientVars, queued>>

Init ==
    /\ ProcessInit /\ job \in Jobs
    /\ keyring \in Keyrings
    /\ items = <<>> /\ load = NoLoad /\ packets = <<>> /\ imported = {} /\ due = {}
    /\ queued = <<>> /\ listed = [public |-> {}, secret |-> {}] /\ result = "none"
    /\ \E t \in IF job = "load" THEN Troubles ELSE {[faults |-> 1, changes |-> 0]} :
           budget = [runs |-> MaxRuns, changes |-> t.changes] /\ faults = t.faults

Child == ChildRuns /\ UNCHANGED <<clientVars>> /\ Fixed
Next ==
    \/ Looping \/ Child \/ LoadAsync \/ QueueForParsed \/ ImportAsync \/ Cancel \/ EditKeyring

Spec == Init /\ [][Next]_vars

\* The main loop goes round, and gpg comes to an end.
Fairness == WF_vars(Looping) /\ WF_vars(Child)
FairSpec == Spec /\ Fairness

-----------------------------------------------------------------------------
(***************************************************************************)
(* Properties.                                                             *)
(***************************************************************************)
\* After a load that went well the collection has the keys of the public
\* listing, no more and no less, and those of the secret one are marked,
\* however the pipes cut the lines (on_gnupg_process_completed).
ItemsMirrorListing ==
    job = "load" /\ result = "ok" =>
        /\ DOMAIN items = listed.public
        /\ \A k \in listed.secret \cap listed.public : items[k].secret

\* Status records and photo data come over two pipes; whole photos are put
\* together, each for its own key (process_outstanding_attribute).
PhotosAreTheirs ==
    \A k \in DOMAIN items : \A photo \in ToSet(items[k].photos) :
        photo = [i \in 1..Photo[k] |-> [key |-> k, part |-> i]]

\* An import that went well has had gpg import all that the stream held when it
\* began, and what was queued until gpg's input was closed; nothing of that is
\* left, though the same stream may have fed an import that failed before.
ImportsAll ==
    job = "import" /\ result = "ok" => due \subseteq imported \ ToSet(packets)

\* The two ways in which a run does not end: the main loop waits in read()
\* for a child that waits itself, and a full pipe to a child that is dead.
ChildWaits ==
    /\ child.alive /\ child.todo # <<>>
    /\ LET fd == Head(child.todo).fd
       IN  IF fd = "input" THEN pipe[fd] = <<>> /\ fd \in proc.fds ELSE Len(pipe[fd]) = PipeSize
Stuck ==
    \/ at \in Outputs /\ "IN" \in revents[at] /\ pipe[at] = <<>> /\ ChildWaits
    \/ "input" \in proc.fds /\ ~child.alive /\ Len(pipe["input"]) = PipeSize

\* Else every run ends, cancelled or not, whatever order the exit and the
\* ends of the pipes are seen in.
EndsOrStuck == Busy ~> (~Busy \/ Stuck)
=============================================================================
