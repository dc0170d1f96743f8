# Verification of gcr

TLA+ models of gcr (the crypto user interface libraries and prompter of GNOME:
`gck`, `gcr`, `egg` and `ui`), checked with TLC and, in part, proved with TLAPS.
Every definition is a translation of the C source; `PROJECT.json` maps each to its
lines. Paths below are relative to `src/`.

This document has four parts: what the system consists of (1), what is modelled
and how (2), what is checked and proved (3), and what comes next (4).

## 1. The system

### Prompting: three processes on the session bus

A program asks the user something (a password, a confirmation) through a separate
process, so that the secret does not pass through the program's own windows.

| Component | Source | State | Operations |
|---|---|---|---|
| System prompter | `gcr/gcr-system-prompter.c` | table of callbacks with the watch of each caller's name, queue of callbacks without a prompt, table of active prompts; an `ActivePrompt` with its reference count, cancellable, `ready` flag, dialog and secret exchange | D-Bus methods BeginPrompting, PerformPrompt, StopPrompting; a caller's name vanishes; the dialog answers or closes; a Ready or Done call to a caller completes; register, unregister |
| System prompt | `gcr/gcr-system-prompt.c`, `gcr/gcr-prompt.c` | exported object, prompter's name owner, `pending` operation with its closure (cancellable, timeout source, wait source, name watch), last response, secret exchange | open, password/confirm (sync and async), close; methods PromptReady and PromptDone from the prompter; timeout, cancellation, loss of the prompter |
| Prompt dialog | `ui/gcr-prompt-dialog.c` | mode, the open question's result, entries, last reply, closed flag, keyboard grab, window state | password_async, confirm_async, close, dispose; the user's typing and buttons; window events |
| Prompter process | `ui/gcr-prompter-tool.c` | main loop, inactivity timeout, the two bus names | on_prompter_prompting, on_bus_acquired, on_name_lost, on_timeout_quit, the end of main |
| Secret exchange | `gcr/gcr-secret-exchange.c` (with `egg/egg-dh.c`, `egg/egg-hkdf.c`) | key pair, derived transport key, secret, flags | begin, send, receive |
| Mock prompter | `gcr/gcr-mock-prompter.c` | a script of expected prompts | a test double of the dialog |

A caller's GcrSystemPrompt exports an object, calls BeginPrompting on the prompter
(which D-Bus starts if need be) and waits until the prompter calls PromptReady on
that object. Each question is a PerformPrompt call that returns at once; the
answer comes later, as the argument of another PromptReady. PromptDone ends it.
Secrets in either direction are encrypted with the secret exchange.

What is hard here: calls of three processes cross; the caller, the prompter or the
bus may go at any time; a prompt may be stopped while a call about it is in
flight, and begun again with the same callback; disposing of a dialog completes
its question synchronously, in the middle of another function; sync operations
iterate a main context of their own; closing completes operations later, from an
idle source.

What makes it correct: the prompter's three tables agree; prompts are shown in the
order in which callers began; an `ActivePrompt` is freed exactly when nobody holds
it; a caller is told exactly once that it is over; every operation of a caller
completes, with an answer that the user gave to that very question; nobody waits for
ever; a dialog answers each question from what was typed for it. Where the code falls
short of this, section 3 says so.

### gck: the PKCS#11 wrapper

| Component | Source | State and hard behaviour | Correct when |
|---|---|---|---|
| Calls | `gck/gck-call.c` | a call runs in a thread pool, may be cancelled while it runs, is re-queued if its `complete` says so, completes in the main loop | it completes once; what it did is not reported as undone |
| Sessions | `gck/gck-session.c`, `gck-password.c`, `gck-interaction.c` | a session handle that is discarded once; opening with a login; a PIN loop; multi-part operations with re-authentication | no handle is lost or closed twice |
| Enumerators | `gck/gck-enumerator.c` | a state machine over modules, slots, sessions, objects; a chain of enumerators; the state is checked out while a call runs | what stays is found, states are put back |
| Objects, caches | `gck/gck-object.c`, `gck-object-cache.c` | attributes cached under a mutex, asynchronous updates | the cache holds what some update read |
| Slots, modules | `gck/gck-slot.c`, `gck-module.c`, `gck-modules.c`, `gck-uri.c` | initialise and finalise | finalised once |
| Attributes | `gck/gck-attributes.c` | builder and immutable sets that share reference-counted values | a value lives as long as its holders; each list is as if it were alone |
| Helpers, mock module | `gck/gck-misc.c`, `gck-mock.c`, ... | | |

### gcr: certificates, keys, collections

| Component | Source | State and hard behaviour | Correct when |
|---|---|---|---|
| Library | `gcr/gcr-library.c` | module list initialised from several threads | initialised once, seen by all |
| Importers | `gcr/gcr-importer.c`, `gcr-pkcs11-importer.c` | a queue of objects to create on a token, partial failure, cancellation | what is reported imported is on the token |
| GnuPG | `gcr/gcr-gnupg-process.c`, `gcr-gnupg-collection.c`, ... | a child process with pipes that end in any order; a collection loaded twice at once | completes once, after all output |
| Collections | `gcr/gcr-union-collection.c`, `gcr-filter-collection.c`, ... | counted membership, re-filtering on signals | contains exactly what its parts do |
| Chains, trust | `gcr/gcr-certificate-chain.c`, `gcr-trust.c` | a chain built step by step with lookups | ends; its status says why |
| Parser | `gcr/gcr-parser.c`, `gcr-openpgp.c`, `gcr-openssh.c` | formats tried one after the other, passwords, an async variant | nothing of a failed format is kept |
| Certificates | `gcr/gcr-certificate.c`, ... | reads fields out of DER | |

### egg and ui

| Component | Source | State and hard behaviour | Correct when |
|---|---|---|---|
| Secure memory | `egg/egg-secure-memory.c` | blocks of locked pages, cells in two rings, merging of neighbours, growth in place, pools of meta data | what is allocated is apart, zero at first, and keeps its contents |
| Buffers and codecs | `egg/egg-buffer.c`, `egg-padding.c`, `egg-armor.c`, ... | offsets and failure flags of a growing buffer | what was added is read back |
| ASN.1 | `egg/egg-asn1x.c` | definitions turned into trees of nodes, DER/BER in and out | a valid tree survives encoding |
| Symmetric keys | `egg/egg-symkey.c`, `egg-openssl.c` | calls into libgcrypt | |
| Collection model | `ui/gcr-collection-model.c` | rows with indices that follow a collection, a sort order, a selection | its view mirrors the collection |
| Viewer | `ui/gcr-viewer-widget.c`, `gcr-unlock-renderer.c` | files read side by side, renderers for locked blocks | what is unlocked is shown |
| Import button | `ui/gcr-import-button.c`, `gcr-pkcs11-import-interaction.c` | imports under way, importers to choose from | an import ends, and says what it did |
| Secure entry buffer, renderers | `ui/gcr-secure-entry-buffer.c`, ... | text | |

`PROJECT.json` lists every component with its status, and under `hazards` what in
the code is hard to test, line by line.

## 2. The modules

```
WaitQueue ----------- the queue as an order, with the operators of the lemmas
PromptQueue --------- abstract specification: one line, one screen
SystemPrompter ------ the service; implements PromptQueue
  PrompterProcess --- the service in its process; MCPrompterProcess,
                      SystemPrompterProofs (of both)
  PromptSystem ------ the service, the bus, one SystemPrompt in detail,
    SystemPrompt      other callers; MCPromptSystem, PromptPhases (what
                      holds between the two), PromptSystemProofs
PromptDialog -------- the dialog                            \
SecretExchange ------ both sides of the exchange             > MCSecrets; SecretsProofs
SecureMemory -------- the allocator; implements SecureHeap  /

GckCall ------------- calls, the thread pool, the queue of completed calls
  GckSession -------- the sessions on one token; MCGckSession, GckSessionProofs
GckAttributes ------- builders and bundles; implements AttributeLists;
                      MCGckAttributes, GckAttributesProofs
GckEnumerator ------- chained enumerators
  GckObjects -------- objects and their caches; MCGckObjects, GckObjectsProofs

GcrGnupgProcess ----- one run of gpg and its pipes
  GcrGnupg ---------- the collection and the importer         > MCWidgets
GcrLibrary ---------- the modules and URIs of the process
  GcrTrust ---------- trust assertions on the tokens
    GcrCertificateChain  chains; MCGcrCertificateChain, GcrProofs
GcrCollections ------ simple, union and filter collections; GcrProofs
  GcrCollectionModel  the tree model over them                > MCWidgets
GcrParser ----------- parsing, as operators
  GcrViewer --------- the viewer and its renderers            > MCWidgets
GcrImporting -------- import button and importers; MCItems    > MCWidgets;
                      MCGcrImporting, GcrProofs

Lists, ListLemmas --- loops that select from a list; facts about lists
```

A module named MC... instantiates what it is listed with for TLC. A composition
such as MCSecrets holds parts that share nothing: a behaviour is one of one part,
while the others stay in their initial state, so that the state space is the sum
and not the product.

Definitions with names such as `ClosedLeaks` stand before the definition they are
a faulty variant of; they are used by the mutants listed in `PROJECT.json`, which
show that each property can fail.

### Prompting

**SystemPrompter.** One action per D-Bus method, bus callback, dialog callback
and call completion. The service is single threaded, so a handler is one step.
The helpers of the code that several handlers share (`prompt_stop_prompting`,
`prompt_next_ready`, `prompt_send_ready`) are operators on a record of the tables,
so that a handler is the composition of the calls it makes. The queue is a
function: `waiting[c]` is c and everybody ahead of it, which is what makes leaving
the queue from any place easy to state and to prove. `Prompt` is the set of
`ActivePrompt` structures; a structure stays allocated while `refs > 0`, so that
completions of a stopped prompt find it. What a handler sends is in `out`, for one
step; the bus of PromptSystem takes it from there. Freed structures may be used
again at once, as memory may. Left out: the properties passed to the dialog,
the contents of the exchange.

**SystemPrompt** is one GcrSystemPrompt with its operations: number 0 is the
opening and 1 .. MaxOp are questions. An operation is a record of the sources and
calls that hold its GSimpleAsyncResult. Where a source runs matters: `context`
says in which main context the exported object is called, and a sync operation
iterates only its own.

**PromptSystem** joins the two with the bus: two FIFO channels, errors for absent
peers, activation, a prompter that exits, crashes and is started again. Other
callbacks begin, perform and stop as they please.

**PromptDialog.** The functions of the dialog map a record of its private data to
the records that may result; there can be several because the callback of a
question runs inside, and may ask the next one. Events of the window are queued
and dispatched later, as GDK does.

**SecretExchange.** Both sides, and all strings made so far, any of which may be
received at any time. Cryptography is ideal: a key is known by the two public
keys it comes from; what was encrypted under another key fails its padding check
or, by chance, gives noise.

**PromptQueue** is what callers see of the service: they join the end of a line, the
head of it is shown, and they leave alone, together with all others of their program,
or all at once.

**PrompterProcess** extends SystemPrompter with the main loop. The timeout is
modelled with its source number, which outlives the source once it has fired.

**SecureMemory** keeps blocks of words; the rings of cells are sequences that begin
where the block points. All functions but one hold the lock throughout and are one
action; `egg_secure_realloc_full` lets go of it before it moves memory to another
block, and the move is a separate action. `SecureHeap` is what the header
promises: memory that is nobody else's, zeroed when allocated and kept when
resized; the bytes by which it grows may be anything. The mapping reads each returned pointer through the cells.

### gck

**GckCall.** A call is made once, in the thread of its caller or for the pool, and
is cancelled at any time. A thread looks at the cancellable before it runs the
function of a call; `process_result` looks again. The main loop reports completed
calls, and so does whoever makes the next asynchronous call
(`_gck_call_async_go`): that report is part of the action that makes the call. The
path that queues a call again when its `complete` function returns FALSE is left
out, since no caller passes one; so is `_gck_call_async_short`, which nobody uses.

**GckSession** extends it with what the functions of the calls do, one step for
each PKCS#11 function, so that calls in several threads interleave at each of
them. The token is external and behaves as PKCS#11 says: the login is a state of
the token, not of a session, and goes with the last session; a session has one
search and one key operation at a time (another is refused as active); a PIN that
was wrong too often is locked. `Auth` gives the kinds of token; Init chooses one.
Session objects in `Raw` come from `gck_session_from_handle`, and no two of them
have the same handle. A call keeps a reference to its session (`Users`), and the
handle is closed with the last reference, by the default handler of
discard-handle. The program is assumed to call the finish function in the callback
of an opening, as the API asks. The steps of an operation are the same in the
thread of the program as in the pool, but there the program keeps the session
until the operation returns.

**GckAttributes** has builders, attributes and bundles that share values: a value is
a block of memory with a count in front of it, and of one kind of memory. Two threads pass bundles on, and a
token whose values change fills a builder in by the two calls that PKCS#11 asks
for, with other steps between them; either may fail, and the builder is cleared. A
value may be copied into a builder or taken over from the caller, which are different
to a secure builder. `AttributeLists` has no memory: every list
holds its values itself. That GckAttributes implements it says that sharing cannot
be seen.

**GckEnumerator** has one step for each state function. The state is taken out of
the enumerator while a call works on it, so a second call finds none and is
refused; the states of a chain are taken one after the other. Tokens and objects
come and go between any two steps, and any C_ function may fail, whatever the reason:
the walk goes on with what is next (`Passing` notes which objects it leaves behind, for
the property alone). The criteria of a URI and the types of objects
are constants.

**GckObjects** adds the cache that an object comes with: updates and lookups that
overlap, the program that sets attributes or destroys the object, and others that
change it. An attribute's value is the number of the change it is of, so that what
is newer is known.

### gcr and ui

**GcrGnupgProcess** is one run of gpg: a GSource that polls five pipes and serves one
after the other while the child goes on, a child watch, and cancellation. Pipes
hold `PipeSize` pieces, a read returns at most `Block` of them.

**GcrGnupg** makes of it the two phases of a load (public keys, then secret keys, with
photos over a pipe of their own) and the importer with its stream. The keyring may
change between the phases.

**GcrLibrary** has the lock, the list of modules and the two URIs, set up by whatever
call comes first and changed by the program without the lock. A URI is the set of
slots that it matches. **GcrTrust** adds the assertions on the tokens with their
lookup, addition and removal, slot by slot, and **GcrCertificateChain** the chain:
a build works on a copy, in a thread or with the main loop blocked, and its end
replaces what the chain is by then.

**GcrCollections** has simple and single collections, the union that counts objects
and the filter that looks at a property. Signals are synchronous, so what a change
causes in all listeners is one step; handlers do not call back into collections.
**GcrCollectionModel** follows them with its rows: `view` is what a view knows that
applies each signal in order, by the path it comes with.

**GcrParser** is one operator per parsing function on the parser's state. Data is
abstract: a record with a kind and what that kind encloses. The table of formats is
that of the code, in its order. It uses RECURSIVE operators, as blocks enclose
blocks; nothing is proved of it. **GcrViewer** loads files side by side, shows a
renderer for what was parsed, and unlocks. **GcrImporting** is the import button,
the choice of importers (`gcr-importer.c`) and the PKCS#11 importer with its states
open, supplement and create; the tokens may refuse, fail, or the user cancel.

## 3. What is checked and proved

### Runs

| Run | Instance | Shows |
|---|---|---|
| process | 3 callbacks of 2 callers, 2 structures, single mode, with the process and its timeout, fair | the service implements the queue (who came first is shown first), its messages are in order and end with one Done, nobody who comes while the timeout fires is left behind, and a process that nobody prompts at exits |
| prompter_waits | the same | *violation*: a queue waits behind an empty screen |
| system_prompt | 2 callbacks, the caller asks 2 questions in any mix of sync and async; the prompter may quit or crash | an answer reaches the question it was given to, or a later one that was dropped and is told what was heard last; nobody waits for nothing |
| stale_answer | the same | *violation*: a question that the user never answered is told yes |
| system_live | 1 question, async, with cancellation, timeout, and a prompter started twice | every operation ends, and nothing is kept for a closed prompt, with crashes, unless the caller gave up before it heard anything |
| secrets | a dialog with 2 questions; an exchange of a secret with 2 keys a side; an allocator of 2 blocks of 12 words, 3 lengths | what answers a question was typed for it; a side reads what was sent last; the allocator implements the heap and its cells tile the blocks; questions end |
| session | 2 calls, 2 sessions (one of them from a handle), one thread in the pool, every kind of token | no handle is used after it was closed, a login lasts, an operation ends with a call that succeeds, no PIN is sent twice, every call ends |
| attributes | 2 builders, one of them secure, 2 bundles, 2 blocks, 2 threads, 2 attributes | blocks are freed with their last holder and not before; what came from secure memory, or was copied or read by a secure builder, is in secure memory in every list; sharing cannot be seen |
| objects | an enumerator over 2 slots chained to that of a session; 2 calls that overlap; 3 objects that come and go | what stays is found, unless a function failed on it; an update brings nothing older than itself |
| certs | 4 certificates of which two sign each other, 2 tokens, 2 calls, one trouble | modules are initialised once; what was removed is gone; a chain is in order with a justified status; only what is missing is added; every call ends, unless issuers go round in a circle |
| widgets | a tree model over 3 objects in a union of 2 collections; a viewer with 2 files; an import of 3 items out of 5 into 3 slots with one fault; two runs of gpg over 2 keys with photos, with pipes of 2 pieces and one fault or one change of the keyring | the collections are exact, the rows and the view of the model mirror them; what is unlocked is shown; objects are created once, a pair shares its id, success means that everything was imported, and imports end; a run of gpg that ends well is complete: the items are those listed, photos are of their keys, gpg has had what was queued; one that does not end is in one of two known states |
| import_cancelled | 1 item | *violation*: an import whose button is disposed of never completes |

### Bounds

Two callers and three callbacks (two of one caller) are the least with a queue of
two behind an active prompt and a vanished name that takes several prompts with
it. Two structures let a stopped prompt with a call in flight coexist with a new
one for the same callback; a third would need two calls in flight for prompts
already stopped, which do not interact. `MaxOp = 2` questions let an answer meet
the wrong question. `MaxStarts = 2` is one crash and one restart. `MaxEvents = 3`
window events suffice for one change of visibility (two events) and one of state
to be under way together. `MaxKeys = 2` lets each side begin again once. Queues of
messages need no bound: the senders wait for replies.

In session, two calls meet at every step of each other, on one session or on two:
one logs out, closes the last session or begins a search in the middle of the
other. One may be in the thread of the program and one in the pool, so one thread
in the pool lets a call run beside another and also wait for one. Two wrong PINs
lock the PIN, so that both a retry and a lock occur, and one batch of objects
makes the loop over them run twice. Three calls (18 million states, explored once
without liveness) show nothing else and take too long to be repeated, and the
proofs hold for any number of everything.

In secrets, words of 2 bytes and pages of 4 words make lengths of 1, 13 and 24
bytes a small cell, one that shares a block with others, and one that needs a
block of its own; two slots let an allocation fail for want of a block. Pools of
two items fill.

In attributes two blocks suffice for an attribute to be shared and changed at the
same time, and for a lack of memory that the code's callers never see (an
allocation waits for a block). In objects, `Want` asks for one object (the state is
put back in the middle) and for all; two events let an object go and another come.
In certs, `MaxChain = 6` is beyond every chain without a circle. In widgets, an
object that is itself a collection gives the tree its second level; two files may
be read at once; the five kinds of items are two certificates, a key, a request
(no importer takes it) and PGP packets, and of the three slots one is not
importable and one refuses keys. A pipe from gpg that holds 2 pieces, of a listing of
more, makes both sides wait; photos of 1 and of 2 pieces, read 2 at a time, lie in the
buffer together, in part and whole. A load meets a failure or a change of the keyring
(`Troubles`), not both, which keeps the states few.

Deadlock is not checked for systems that really stop: a caller that has asked
everything, an exited process, a disposed dialog.

### Fairness

Fairness is weak and on what the libraries promise: a D-Bus call completes, with
an error after its default timeout at the latest (the models assume that this is
longer than a message takes to arrive); main loops that are iterated dispatch
their sources, idle sources and timeouts; and a user who sees a dialog disposes of
it in the end. Nothing is assumed of callers. A sync operation iterates only its
own context, so nothing in the main context is fair while it runs. In session,
the threads of the pool take what is in its queue, PKCS#11 functions return, a
user who is asked for a PIN enters one or gives up, and the main loop reports what
is completed; each is weakly fair. The PIN loop ends because the token locks the
PIN, not by fairness.

The same holds of the other runs: a child process that is not killed goes on or
exits, GSources whose condition holds are dispatched, PKCS#11 functions return, a
file is read to its end, a user who is asked answers or cancels. Programs that
change keyrings, tokens or files are never fair, and nothing is assumed of faults.

### Proofs

`SystemPrompterProofs` proves for any callbacks, callers, structures and either
mode: types (TypeCorrect), the queue (QueueStaysInLine), agreement of the tables
(TablesAgree, TableStaysSound), the mode (ModeIsRespected), completions
(CompletionsArePaired), reference counts (RefsAreCounted), cancelled leftovers
(LeftoversStayCancelled), exchange before answers (AnswersFollowExchange) and that
nothing is kept for the departed (NothingIsKept). They all follow from one
inductive invariant (theorem Invariant). None of these is inductive alone: that a
completion finds its structure (reference counts) needs that the table maps each
callback to its own structure (TableSound), which needs that only one callback
does so, which needs that a callback in the queue has no structure. The proof
mirrors the code: a handler is a composition of operators on the record of the
tables, so there is one lemma for each such operator (StopPrompting,
NextReady, ...) saying that it keeps a record *sound*, and a step of the
specification cites the lemmas of the functions it calls. The lemmas about the
queue are in terms of WaitQueue alone.

Its second part, about PrompterProcess, builds on that invariant: ProcessInvariant
adds what the main loop and the timer of the tool know of the service, NobodyStaysBehind is the
run's NobodyLeftBehind, EndsAreTold its action property EndsWithDone (whose two halves
are that an end is told, and that Done tells of an end, once), and
QueueIsImplemented the refinement ImplementsQueue: each handler is a step of
PromptQueue (somebody joins the line, a program leaves it, the head is shown, ...) or a
stutter, by lemmas about the same operators on the tables.

`PromptSystemProofs` is about the service and its caller together, across the bus:
NobodyForgotten (NobodyIsForgotten), AnswersStayTheUsers (AnswersAreTheUsers) and
ClosedAreDropped (NoPromptForTheClosed), for any number of questions, sync or async, any
other callers, and any number of exits and restarts of the prompter. The invariants are
defined in PromptPhases. The first follows from SystemInvariant, which has four parts:

- the invariant of the service (IInv), which every step of the caller keeps, and
  which every step of the service keeps by its own lemmas;
- what the caller knows by itself (CallerSound): what is pending has not completed,
  the opening comes before all questions, questions come one after the other, the
  object is dispatched in the context where the replies are, and no call but that of
  the pending question is in flight unless an earlier one was given up (OneCall);
- one phase at a time (Phased), as long as the prompt is open and nothing is given
  up: nothing sent, opening call sent, waiting for the turn, at rest, question sent,
  question on the screen or its answer under way. A phase says what each of the two
  channels holds, and what the structure of the caller is waiting for. That the
  answer cannot overtake the reply to the call (ReturnFirst) is what makes
  prompt_method_ready right, which has no other way to tell what it answers;
- a question that is on its way or on the screen, and is not given up, is the one
  that is pending (AskedIsPending). This holds when the prompt is closed, too.

AnswersStayTheUsers adds to it what was heard (HeardInv): the last response was told to
a question that came before any that may still be told it, and what is pending has not
failed. A question that is asked and answered hears its own answer by the phases; one that
is dropped hears the last response, which by HeardInv is what an earlier one has heard.
Most steps leave what was heard alone (Gentle); the ones that do not are the answer and
the finish.

For a step of the service it suffices what it does to the caller's place: it is left
alone (Stays), its turn comes (Turns) or it is lost (Leaves), and what is said to the
caller meanwhile. For a step of the caller the service is as before, so that its
operations (the lemmas ...Sound) and the channels (the lemmas ...Keeps) are apart.
A crash of the prompter needs no case of its own in the phases: each phase allows
that the service does not know the caller, and then the channel holds no Ready.

ClosedAreDropped is about the time when the phases are over, and needs an invariant of
its own beside that one (ClosingInv). As long as the prompter has the caller on its books,
or the opening call is on its way (Held):

- a prompt that is open and has heard anything has begun, and is exported (Usable), and
  for one that is closed Stop is on its way, unless the caller gave up and heard nothing
  (Dropped). So closing has to send Stop, which it does only if it has begun and knows
  that the prompter is there;
- whoever has begun knows that (OwnerSeen): the caller watches the name before it sends
  the opening call, is told before the reply to that call, and both are dispatched in one
  context, so that begun_prompting is never set before prompt_owner is (OwnerSoon);
- the opening call is sent once, and until it arrives the service says nothing (Unknown);
  a caller on the books was not refused (Accepted), and is not after Done (Over);
- a caller that has heard nothing has not answered, so the first Ready call to its
  structure has not ended (Unheard). This is why nobody has been asked anything if the
  caller gave up before it heard anything.

`SecretsProofs` is about the three parts of MCSecrets. KeysFollowFlags: a side of an
exchange uses only keys it has, whatever strings come in whatever order (the
invariant is the types and KeysAreThere itself). SecretsArrive: until somebody
begins again, a side reads the secret of the string it received last and both
sides have the same key; the invariant says that until then each side has at most
its first pair, that a derived key is the one key made of the two first pairs, and
that every secret made so far is under it. AnswersAreTyped (PasswordsAreTyped): the
dialog is a composition of functions on one record, like the service, so its
invariant is stated of that record (Sound) and kept by each function, from asking
a question to disposing of the dialog in the middle of one.

The third part is the allocator: CellsAlwaysTile (CellsTile) and HeapImplemented (the
refinement ImplementsHeap), for any sizes of words, pages, blocks and pools, any lengths
and any number of threads. Both follow from one invariant (MemoryInv):

- the heap is Good. Each cell in use or not has a place in a block, between guards that
  name it, with room for what was asked for (CellOK, GuardsStand); cells do not
  overlap (Apart) and leave no word out (Covered); the rings hold each cell once
  (RingsBut); an item that a pool gave out is a cell or a block (TakenBut). This is
  about pairs of cells and single words, so that nothing has to be summed over a ring;
- what is being moved is still the program's, and smaller than what it wants, as long as
  nobody knows where to (MovingOK). `egg_secure_realloc_full` relies on it when it copies.

CellsTile alone is not inductive: `sec_free` finds its neighbours by their guards, so
that guards have to stand on every word that borders on a cell, and what the program
or a clearing loop writes must stay between them (Inside). A function is a sequence of
steps on one heap, in the middle of which a cell is in no ring or an item has no use:
Good(h, x, X) allows for that cell x and those items X. There is a lemma for each step
(joining, splitting, shifting, filling, guards, pools), one for each loop, and one for
each function: SecAllocGets, SecFreeSheds, SecReallocRegets, BlockCreateKeeps,
BlockDestroyKeeps, AllocFullProvides. Each says as well which cells the program may see
change (Keeps), from which the refinement follows: all other pointers see what they
saw (OthersStay), what is new is zero (SeesZeros) and what is resized or moved starts
with what was there (SeesStart).

`GckSessionProofs` proves, for any number of calls, sessions, handles, threads,
tries and batches, every invariant of the run session: types (TypeCorrect),
OpenHandlesUsed (the run's CallsUseOpenHandles), HandlesHaveHolders, LoginsLast
(LoginLasts), OperationsAreEnded (OperationsEnd) and PinsSentOnce (EachPinSentOnce),
from one inductive invariant (Invariance). Its parts hang together:

- the queues hold each call once, and only calls in the right phase (QueueOK);
- a call that is not reported has a live session with the handle that it copied,
  or an object that it alone opens (JobOK), and the handles of live objects and of
  openings are apart (HandlesApart). So the handle that a call copied is open, and
  no report closes the handle of another call;
- a login lasts also from the moment that an opening found the user logged in, or
  logged in itself, to its report (LoginsOK): its handle is open meanwhile, so
  the token keeps a session;
- a search or key operation under way has an owner: a call on that handle that
  runs, or one that failed (OperationsOK);
- a PIN that was sent is not with a call that is about to send it (PinsOK).

A report of a completed call is part of three actions. So the invariant is stated
of values, not of variables, and the lemmas say how the values survive what can
happen to a call (it is made, moved, reported; an object is dropped, disposed of);
an action is one of these or two in a row. The steps of the functions are
classified by their effect first (Effect), so that the proof has one case for
each effect and not one for each function and property.

`GckObjectsProofs` proves, for any tokens, objects, sizes of batches and numbers
of readers, NoObjectIsMissed (EndMeansAll: when a chain of enumerators says that
there is nothing more, every object that was there all along has been returned, unless a C_ function failed on it)
and UpdatesBringNews (UpdatesAreFresh), from one invariant (Invariance): what an
enumerator has still to do, what it has found but not returned, and what was
returned, and what was passed over because a function failed, cover together the objects
that never left. The chain is of at most two
enumerators, as in the model.

`GcrProofs` proves ModulesAreOnce (ModulesOnce), RemovalsAreComplete
(RemovedIsGone), ChainsAreInOrder (BuiltInOrder) and OnlyWhatIsMissing
(AddsWhatIsMissing) for any certificates, tokens, slots and threads, and from any
initial contents of the tokens (the run starts from those of MCInit). A chain is a
list whose neighbours are issuer and subject; modules are appended by loops over
lists, which is where the lemmas of ListLemmas are needed.

It also proves CollectionsStayExact (CollectionsAreExact), for any finite sets of
objects and of collections: whatever is added, removed, taken into the union, dropped from
it, filtered and changed, in any order, the union counts each object once for each of its
members that has it, and the filter has what its callback accepts. The property is its own
invariant, once the types are added. The work is in the loops over signals: if no
object is told of twice (ToldOnce, which each operation's signals are shown to obey), the
counts after the loop are those of CountsAfter, the union tells of exactly the objects that
are new to it or gone from it, and the filter takes these as a set, whatever their order.
The specification, CollectionsSpec, is of the collections by themselves; each step
of GcrCollectionModel, where the run checks the property, is one of its steps or leaves
the collections as they are.

And it proves of imports IdsArePaired (PairsShareId) and SuccessIsComplete
(SuccessMeansAll), for any items, pairs, slots and faults. The invariant is of one token
at a time (SlotKnown): an item that was given to its importer is in one place and once, on
the token, in the queue, in the call that creates it, or among those that failed
(Placed); and ids come from passes that have been, so that two attributes have one id
only if one pass paired them (Identified). A pass of supplementing is a recursive function
over the queue. A success is reported with an empty queue and no call under way, so what
was given is then on the token, or had failed before.

`GckAttributesProofs` proves every property of the run attributes, for any blocks,
types, contents, builders, bundles and readers: CountsOfHolders (CountsAreHolders: the
count of each block of memory is the number of places in lists that use it), SecretsSecure
(SecretsStaySecure) and AttributesAreLists, the refinement ImplementsLists. An
operation works on one list and on the blocks, and is a loop over another list. So
the argument is about one list and the blocks at a time:

- Spare: by how much the count of each block exceeds its uses in this list. To begin
  with, that is the number of its uses in all the other lists (Accounts). Each
  operation on a list (adding, setting, copying, dropping) keeps Spare, whether it
  takes a new block, shares one, or gives one back and frees it with the last use.
  So the counts are right afterwards whatever the other lists are;
- a loop is a recursive function over the indices of the list that it reads, with one
  invariant for each step, and Guided (ListLemmas) takes that from the first to the last;
- what a token writes goes to blocks that the reader alone holds (ReadingInv), the
  one place where a block that exists is written to;
- so a block that stays is never changed (BlocksStay), and every other list looks to its
  readers as before. What each operation does to its own list, as readers see it (Seen),
  is what AttributeLists says, where values are copied and there are no blocks.

The counts do not follow from themselves: that an operation may give back a block
needs that its count is at least one, hence that every use is counted, and that a list
is the only holder of what it overwrites needs that counts are not too small.

`ListLemmas` says what the operators on lists return that the models are built
from: Kept of Lists (a loop that selects from a list), and Range, Reverse,
FlattenSeq and SetToSeq. Some of them are defined by recursion over a list, so that
an induction is needed; as an induction over operators is out of the provers'
reach, it is one over sets: a set of numbers that has 0, and with each number the
next one, has all (SetInduction), which follows from the well-foundedness of the
order. GuidedRecursion does the same for loops: a function that is defined by its
value at 0 and a step, with an invariant that each step keeps. SelectSeq and folds have an operator as an argument and stay out of reach,
so the models that are proved about use Kept, or a function over the indices.

Assumptions are those named in the modules: that a callback has an owner, that
`None` is none of the other values, that sizes are positive, that there are finitely many
objects and collections, that each slot is listed once, that a default block has
room for two guards and a word between them (DEFAULT_BLOCK_SIZE is 16384 bytes), and the
like; TLC evaluates each of them.

Only model-checked:

- liveness (fairness and ENABLED are beyond the prover): IdleProcessExits,
  OperationsFinish, QuestionsEnd, CallsFinish, EndsOrStuck, EndsOrCircles,
  UnlockOpens, ImportsEnd;
- GcrParser with GcrViewer, GcrCollectionModel and GcrGnupg (EachObjectOnce, ViewMirrors,
  RowsMirror, ItemsMirrorListing, PhotosAreTheirs, ImportsAll): they are recursive or use what is, and are out of the
  prover's reach.

### Disagreements between the code and what is said of it

Three are runs, listed under `findings`: a caller waits though nothing is shown
(prompter_waits), a question that is dropped is told the answer to an earlier one
(stale_answer), and an import never completes once it is cancelled
(import_cancelled). The others were met while modelling. The models do what the
code does, and their properties name the exception where one is needed.

Prompting:

- An answer is taken for that to the next question, after a cancelled one
  (`gcr/gcr-system-prompt.c:1140`), and the reference held by `pending` leaks there.
- A later question may be forgotten after that: question 1 is given up while its call
  is in flight, its answer is taken for question 2, and when the call of question 2
  fails ("already performing") `on_perform_prompt_complete` sets `pending` to NULL
  though question 3 is pending by then, and completes question 2 again (`:1140`).
  Question 3 never completes. So `NobodyIsForgotten` and `AnswersAreTheUsers` except
  questions with an earlier one that was given up (`AbortedBefore`).
- Opening that times out completes twice (`:902`).
- A prompt that is closed, or whose prompter is lost, during its second question reports
  the answer to the first, since `perform_close` leaves `last_response` (`:475`): the run
  stale_answer. `AnswersAreTheUsers` says that nothing but such an answer is heard then.
- A sync question hangs when the prompter vanishes: the source of its cancellation
  is in the main context (`:1146`). So the run system_live is of async calls.
- In paranoid mode every new password is refused as blank
  (`ui/gcr-prompt-dialog.c:655`); an open question is not answered when the dialog is
  closed (`:956`); a question asked after closing is answered twice (`:848`); an
  assertion in dispose fails if the callback asks again (`:726`).
- A side of an exchange that has derived a key never derives another, and reports
  success for what it cannot read (`gcr/gcr-secret-exchange.c:445`).

gck and secure memory:

- `gck/gck-call.c:135` says "Don't call the callback when cancelled", but the
  callback is called (line 152), with the result changed to cancelled. What the
  function did, such as a login, has happened all the same.
- An opening whose login fails, or that is cancelled after C_OpenSession, leaves a
  handle that nobody closes (`gck/gck-session.c:410`).
- A failed C_FindObjects, or a key that is not authenticated, leaves the operation
  active on the session, and the next one of its kind is refused (`:1548`, `:2621`);
  `OperationsEnd` has this exception, and the same for a C_FindObjectsFinal that
  fails (`:1560`).
- A key is taken not to need authentication when its attribute cannot be read
  (`:3487`).
- An allocation of whole pages, not below the default block size, gets a block
  without room for its guards: it fails and the empty block stays
  (`egg/egg-secure-memory.c:951`). Growing within a cell does not clear the new bytes.
  `gcr_secure_memory_try_realloc` asserts what its doc says may be NULL.
- `gck_attribute_equal` takes two invalid attributes for different when one keeps a
  block.
- Objects that vanish between being found and being read count as wanted
  (`gck/gck-enumerator.c:479`); a call that is refused in the middle of a chain loses
  the states it took (`:1006`); sessions and searches that fail are passed over
  without an error (`:344`, `:457`), as are objects that cannot be read (`:551`), slots
  without token information (`:256`) and a module that does not list its slots. So an
  enumerator may come to its end without objects that were there all the time, and nobody
  is told; `EndMeansAll` excepts them.
- A builder made with GCK_BUILDER_SECURE_MEMORY promises that "non-pageable memory will be
  used for the various values" (`gck/gck-attributes.c:201`, also `:177`). What it is given
  with gck_builder_take_data stays where it is, whatever the flag says (`:455`, `:469`),
  and an attribute copied to it from another list shares that list's block (`:396`).
  `SecretsStaySecure` is about what it copies itself or reads from a token, and about what
  lies in secure memory already.
- An async lookup or update for a class without default types never calls back
  (`gck/gck-object-cache.c:260`); two updates may end in either order.

gcr and ui:

- Of a key whose photo comes late no photo is kept, which
  `tests/test-gnupg-collection.c` expects; a block read in full blocks the main loop
  until more comes (`gcr/gcr-gnupg-process.c:587`); a stdin that is full when the child
  has died never ends (`:774`); `secret_records` stay from load to load; the icon is
  cached (`gcr-gnupg-key.c:407`); an import that is tried again does not send again
  what a failed one had taken from the stream (`gcr/gcr-gnupg-importer.c:334`, against
  "import the queued items", `gcr/gcr-importer.c:376` and `:456`), so that a success says
  nothing of it: `ImportsAll` is about what the stream holds when the import begins.
- Removal of a pin returns success though a slot could not be searched
  (`gcr/gcr-trust.c:559`, doc at `:599`); `perform_add` and `perform_remove` dereference
  `error` when it is NULL (`:350`, `:562`); two concurrent calls pin twice (doc `:405`).
- A chain with a circle of issuers is built for ever
  (`gcr/gcr-certificate-chain.c:300`); a certificate added during an async build is
  lost (`:840`).
- The slot where assertions are stored is not among those where they are looked up;
  a store URI set by the program alone turns the configured lookups off; modules
  added without the lock while others append may be lost (`gcr/gcr-library.c`).
- An object in two places of the tree gets one row
  (`ui/gcr-collection-model.c:526`, `:663`): the model adds it in one only (`MayAdd`).
  Sorting by a closure does not find the row that is being inserted (`:269`), a
  change of the closure or of a label does not sort again (`:1049`), the unsorted
  order compares truncated pointers (`:293`), and toggling a selection tells nobody.
- `loading` is never TRUE (`ui/gcr-viewer-widget.c:475`, `:525`), so files are read at
  the same time and a name may be given to items of another file; `load_data` shows a
  failure beside the unlock renderer (`:554`).
- A cancelled parse of a stream recurses without end (`gcr/gcr-parser.c:2878`). The
  first PEM block that fails hides those behind it, and a failure after a success is
  silent (`:1852`). PKCS#12 without a MAC loses or repeats objects. Passwords that
  were wrong stay. The second reference to a stacked GcrParsed is not a copy (`:2571`).
  An OpenPGP armor is tried before PEM, and encrypted PEM asks for a password before
  its format is looked at (`:1772`, `:2091`).
- The button's importers are never made again after a success, or when the first
  item had none (`ui/gcr-import-button.c:162`); items set before are queued in reverse.
  The PKCS#11 importer queues what it cannot take (`gcr/gcr-pkcs11-importer.c:832`
  against the doc in `gcr/gcr-importer.c`); items queued after the supplement lack
  CKA_TOKEN and CKA_ID; a key added after its certificate, or a second certificate for
  a key, gets an id of its own (the exception in `PairsShareId`); an item that failed
  is no longer in the queue; the label typed with the login is ignored
  (`ui/gcr-pkcs11-import-interaction.c:121`).

### Not modelled

In prompting: properties that the prompt forwards to the dialog, password
strength, layout and wording; callers that run GcrSystemPrompt in a thread-default
context of their own; the death of the one caller that PromptSystem models in
detail (the service's side of it is in SystemPrompter); cryptography.

In gck: setting a PIN, creating, copying, deriving and wrapping objects, each of
which is a call with one PKCS#11 function; conversions of typed values.

Assumptions that the models make, besides the bounds: one load of a GnuPG
collection at a time, SIGPIPE is ignored and gpg ends its lines; tokens stay where
they are for trust and chains (GckEnumerator has those that come and go); the
viewer's window stays open, as its callbacks use a widget that was disposed of; a
wrong password decrypts to what no format takes; labels are left out of imports.

## 4. Plan

The modules above are what the plan asked for first: prompting, which is where three
processes meet, then the calls and sessions of gck, then what is built on them. What
comes next, in this order:

1. Proofs: that bytes which were cleared do not come back in memory that grows
   (SecureMemory), beside what HeapImplemented says.
2. Modules and slots of gck: initialisation and finalisation, with GckCall.
3. The buffer of egg: growth, offsets and the failed flag; padding as operators
   against a reference definition; lengths in egg-asn1x.
4. Key mechanisms of certificate requests.
