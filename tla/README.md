# wldm in TLA+

wldm is a display manager for one seat: a root daemon that starts a greeter,
authenticates users through PAM in short-lived worker processes, launches user
sessions, and tells a D-Bus adapter what is running. The TLA+ modules here model
the daemon, the processes around it and the channels between them, and say what
they promise; TLC checks them on small instances and TLAPS proves the most
important promises for every instance.

Paths below are relative to `src/wldm/` of the repository, `Documentation/` to its top.

## The system

| component | state it keeps | operations | talks to | module |
|---|---|---|---|---|
| Supervisor (`daemon.py`: `run_daemon_async`, `ensure_managed_clients`, `wait_for_stop_or_client`, `cleanup_async`) | `DaemonState`: clients, failures, backend, active sessions, session tasks | start and restart managed clients, fall back to curses, stop everything | greeter and adapter processes, their channels, session processes | `Supervisor` |
| Auth broker (`daemon.py`: `handle_client`, `handle_request_async`; `daemon_auth.py`) | `ClientState`: writer, task, ready, `auth_session`, `auth_timer`; `AuthSessionState.ready` | create-, continue-, cancel-, start-session, get-state, power actions, the auth timeout | greeter over a framed socket, one PAM worker per attempt over another | `AuthBroker`, `LoginGate` |
| PAM worker (`pam/worker.py`) | the PAM transaction, the prompt broker, the response array | start, prompt, answer, cancel, verdict | the daemon; PAM by blocking callbacks | `PamWorker`, `WorkerPromise` |
| Greeter UI (`greeter/auth.py`, `greeter/gtk`, `greeter/curses`) | `conversation_pending`, `session_ready`, `auth_in_progress`, the entries, the focus | login and cancel buttons, events | greeter client | `Login` |
| Greeter client (`greeter/client.py`, `ipc_client.py`), last session (`state.py`) | the channel and its lock; a file | `send_recv_answer`, `poll_events`, re-exec; load and save | the daemon, the disk | `Login` |
| Session wrappers (`session/greeter.py`, `session/user.py`, `pam/funcs.py`, `tty.py`) | the PAM session, the terminal, the child | open, fork, exec, wait, close, hooks | PAM, the kernel | `SessionWrapper` |
| D-Bus adapter (`dbus_adapter.py`, `ipc_client.py`) | the last snapshot, the exported objects, the owned name | ask for a snapshot, apply one, export, quit | the daemon, the bus | `DbusMirror` |
| Protocols (`protocol/`) | none | encode, decode, read frames of at most 2048 bytes | both ends of every channel | `Wire` |
| Process helpers (`process.py`) | none | terminate a process or a group, first politely | the kernel | `AuthBroker`, `Supervisor`, `SessionWrapper` |
| Catalogue, command lines, configuration, policy, audit, helpers | none | read and translate | files | not modelled |

Everything in the daemon is one asyncio loop, so handlers, the timeout task, the
monitors of sessions and the main loop interleave at `await` and nowhere else.
Workers, sessions and clients are separate processes that may die at any moment;
each channel is a stream socket whose end of file is the only sign of that.

What is hard in this code, by component, and what makes it correct:

* **Broker.** A conversation is stopped from five places (replace, cancel, worker
  failure, disconnection, timeout), and each of them suspends in the middle until
  the worker is gone. The timer wakes whenever it likes, in particular while a
  handler waits for the worker. A worker that gave its verdict still ends its PAM
  transaction, as root. One authentication must open one session at most,
  for its own user. Each request gets one response, in order. A conversation
  nobody finishes must not last, and no worker may be left behind in PAM.
* **PAM worker.** PAM blocks and calls back with batches of messages; a cancel is
  only read inside a prompt; the daemon's end may be closed at any moment. Native
  memory must be freed once (it is not always, see below), replies must stay with their messages, and "ready" must
  mean that PAM accepted the user and then the account.
* **Supervisor.** Failure counting across restarts and back ends; shutdown next to
  running handlers; a process group that does not exist yet when it is signalled.
  Nothing may be left running, and a stop must end.
* **Greeter.** Responses and events share a channel; an event may reset the
  conversation while a reply is under way; re-exec forgets what was not saved. What
  the screen offers must be what the daemon waits for.
* **Sessions.** Every step of opening a session can fail, before or after the fork,
  and the wrapper can be killed where it waits. What was opened is given back, once,
  and by the parent.
* **Adapter.** Its start races the events the daemon already broadcasts, and a
  broadcast waits behind a greeter that does not read. The bus must end up with the
  daemon's table.
* **Protocols.** Frames arrive in pieces and bodies are positional and untagged: what
  is decoded must be what was written.

## Modules

    LoginGate              what a login promises, with no channel, worker or timer
    AuthBroker             the broker, its workers, timer and greeter
    AuthBrokerInv          its inductive invariant                 EXTENDS AuthBroker
    AuthRefinement         the refinement mapping to LoginGate     EXTENDS AuthBroker
    AuthBroker_proofs      theorems about the broker, the refinement among them
    Induction              induction on numbers, for the proofs about sequences
    WorkerPromise          what the daemon relies on of a PAM worker
    PamWorker              the PAM worker, an INSTANCE of WorkerPromise in it
    PamWorkerInv, PamWorker_proofs
    Supervisor             the main loop, restarts and shutdown
    SupervisorInv, Supervisor_proofs
    SessionWrapper         the wrappers of sessions and of the greeter
    SessionWrapperInv, SessionWrapper_proofs
    DbusMirror             the daemon's broadcasts and the D-Bus adapter
    DbusMirrorInv, DbusMirror_proofs
    Login                  a greeter front end and the daemon it talks to
    LoginInv, Login_proofs
    Wire                   encoding, decoding and reading of frames
    WireInv, Wire_proofs
    MC*                    instances for TLC

Every model is a view of the same program, and they meet where one's environment is
another's subject. The worker that `AuthBroker` assumes is the one `PamWorker` shows to
keep `WorkerPromise`. The daemon that `Login` assumes is `AuthBroker` with its worker
reduced to what it says. A login in `Supervisor` is reduced to what makes a handler
wait. `Supervisor` knows of a session's process; `SessionWrapper` is inside it.
`DbusMirror` has the daemon's broadcasts, which the other views of the daemon leave out.
All of them take frames as messages; `Wire` has their cells.

### AuthBroker

The coroutine that serves the greeter is `pc`, the place where it is suspended:

| `pc` | in the code |
|---|---|
| `none` | no greeter connected |
| `read` | `handle_client` waits for a frame |
| `replace`, `cancel` | create- or cancel-session waits in `stop_client_auth_session` |
| `launch`, `greet`, `first` | `start_auth_session`: before the process is created, before the start message is written, waiting for the first message |
| `answer` | `continue_auth_session` waits for the worker |
| `drop` | the worker failed or hung up; waiting for it to be stopped before answering |
| `spawn`, `control` | before `create_subprocess_exec` of a session, of a power command |
| `final` | the `finally` clause of `handle_client` |

A step is the code between two suspensions. `drain()` on these sockets does not
suspend: the greeter is taken to read what it asks for, and frames are two kilobytes at
most, far below the transport's high-water mark. (`DbusMirror` has the greeter that does
not read.) `auth`, `ready` and `timer` are `client.auth_session`,
`AuthSessionState.ready` and `client.auth_timer`. `worker`, `toWorker`,
`fromWorker` and `link` are, per attempt, the process, the two directions of its
channel and whether the daemon's end is open. `requests` and `out` are the two
directions of the greeter's channel. `awaiting`, `opened`, `granted` and `stopped`
are history: they are written and never read by the code's guards (`awaiting` also
bounds how many requests the greeter may pipeline).

The stop of a worker is two steps: `BeginStop` cancels the timer, writes a cancel
when asked to, closes the daemon's end and suspends; `EndStop` needs the process
gone. In between the worker, the greeter and, for the timer's own stop, the handler
run. A cancelled timer task runs no more code, because every suspension inside
`run_auth_timeout` lets `CancelledError` through to its end.

An exception raised while a request is served (`Raise`) is caught nowhere before
the `finally` clause of `handle_client`.

The greeter is arbitrary: it sends any request at any time, pipelines, reads or
does not, and leaves. Requests whose frame does not decode are `malformed`. The
worker follows `pam/worker.py`, with PAM free to ask, accept, refuse or hang. After its
verdict it is `ending`: the `finally` clauses, `pam_end` among them, run while the
daemon already has the verdict, and start-session forgets the attempt without waiting
for them.

What the data is reduced to: a username is a model value; a reply is only "fits the
auth field limit or not"; the commands and names of a session are left out. Whether a
response fits a frame is a choice (`Responses`, when `LongMessages`): the table of
sessions, a prompt, PAM's words or the id and action a request is answered with may be
too long, and `send_message` then logs and drops it. `out` keeps the place of such a
response as `unsent`, which no reader sees; events that carry a command or the table
are dropped likewise (`Telling`).

Left out of the module: a second client of the daemon, which may ask the same things
over its own channel; the stop that `cleanup_async` performs during shutdown (in
`Supervisor`); well-formed frames that are not requests (no client sends them).

### LoginGate and the refinement

The gate has five variables and six actions: an attempt is begun, accepted by PAM,
abandoned, spent; spending opens a session or wastes the attempt. `UnderWay` in
`AuthRefinement` maps the broker to it. The point of the mapping is that an attempt
counts as abandoned when the daemon *begins* to stop its worker, although
`client.auth_session` goes on naming it for as long as the process takes to die:
nothing that happens in that window, not even a verdict "ready" already on its way,
brings the attempt back.

### PamWorker and WorkerPromise

`pc` is the place of `run_auth_session`, or of the conversation callback inside it:

| `pc` | in the code |
|---|---|
| `boot` | waiting for the start message |
| `init` | the broker is registered, before `pam_start` |
| `pam` | inside `pam_authenticate` or `pam_acct_mgmt` (`stage`) |
| `callback` | `_conversation_conv`, between two messages of the batch |
| `asking` | `PromptBroker`, waiting for the daemon's reply to a prompt |
| `ready`, `failing` | about to write the verdict |
| `finish`, `unregister` | before `pam_end`, before the broker is forgotten |
| `exited`, `killed`, `crashed` | gone by itself, by `terminate_process`, or by the C library |

A call of PAM is a batch of messages, each of which asks for an answer, informs, or has
a style the worker does not know. `memory` says of the response array (block 0) and of
the text of each response whether it is free, the worker's, PAM's or `lost`; an
allocation may fail. `_free_response_array` frees the array, but reads each response
through a `c_char_p` field (`pam/_ffi.py`), which yields a Python bytes object: `free()`
gets the inside of that copy, unless the answer is empty (`blank`), and the response
itself is lost. `spoilt` remembers the call; from then on the worker may crash
(`HeapFails`). Prompts are numbered by `asked`, and `slots`
remembers which of them each response answers, so that a reply in the wrong place can be
told. PAM is an oracle: it may go on after `PAM_CONV_ERR` or accept in spite of it.

`WorkerPromise` is what `AuthBroker` takes a worker to be: at most one prompt under way,
one verdict and nothing after it, and "ready" only after PAM accepted the user's secrets
and then the account. `PromiseKept` is the refinement, by the mapping `Life`.

### Supervisor

`main` is the place where `run_daemon_async` is suspended or about to run:

| `main` | in the code |
|---|---|
| `ensure`, `ensure-adapter` | `ensure_managed_clients`, before the greeter and before the adapter |
| `wait` | `wait_for_stop_or_client` |
| `close`, `join` | `close_client_channel` of the client that exited (`at`), before it closes and while it awaits the handler's task |
| `pause` | `asyncio.sleep(1)` |
| `stop-auth`, `stopping` | `cleanup_async`, before and in `stop_client_auth_session` |
| `close-all`, `join-all` | its `close_client_channel` for each client |
| `end`, `await` | its calls of `terminate_process_group`, and `asyncio.gather` at the end; in the wait for a process (`at`) that was signalled |
| `exited` | `run_daemon_async` returned |

`passes` counts the runs of `cleanup_async` still to come: one, or two after an
exception. `proc` is each process: not there, `young` (before `setsid`, so no process
group bears its pid), `leader` of its group, `exited`, or `astray`: the wrapper died of the
daemon's signal and the program it forked did not. The D-Bus adapter stays
young: nothing in it or in `start_client` makes it a leader. `handler` is, for each
client, where `handle_client` is suspended; `worker` is the PAM worker it has, `ending`
after its verdict and `doomed` when somebody is stopping it; `stray` is a worker that
start-session let go of before it had ended. `inbox` counts the requests of a client:
what one asks for is chosen as it is read. Closing a channel loses what the daemon has not
received yet (`CloseChannel`) and keeps what it has, which the handler still serves:
this is how a create- or start-session can be served during shutdown.

`cause` and `fruitless` are history. `SlowStart` chooses whether a wrapper can be
signalled before its `setsid`.

Left out: the cancellation of the main task, which nothing in the program requests;
a signal after `remove_stop_handlers`, which kills the daemon outright; the frames the
adapter could send and does not; the program of the greeter, which a signalled wrapper
can leave behind as a session's can.

### SessionWrapper

One wrapper per user session and one for the greeter; `pc` follows
`run_user_session` and `run_greeter_session` from the console (`start`, `console`,
`picked`, `tty`, `leader`) through PAM (`pam`, `creds`, `open`, `ready`) and the fork
(`forked`, `waiting`) to the clean-up of the nested `with` and `finally` clauses
(`reaped`, `closing`, `uncred`, `ending`, `untty`, `exiting`, `exited`). `announced` is
the daemon's part: its monitor noticed the end and switched the console back. `held` is
what the wrapper opened and did not give back; what the kernel takes back from a dead
process (`Lasting` is the rest) leaves it when the wrapper is killed. `child` is the
forked process, `astray` when the greeter's child failed before its exec and runs on
into the parent's clean-up code.

Any call that opens or gives may fail, at most `MaxFaults` times in all; `OpenTtyFails`
has both ways, the open that fails and the `fchown` that fails after it. The calls of
the clean-up, `pam_setcred`, `pam_close_session` and the `fchown` of
`TTYdevice.close`, may fail at any time when `CloseFails`, and are only logged or
skip what follows them, as in the code. `failed` remembers which of the calls that give
or give back did. `pam_end`, `os.close` and the record of a logout are taken to
succeed. `Signals` lets the daemon send SIGTERM to a wrapper's group.
Terminals are shared: `PickTty` is VT_OPENQRY, `OpenTty` a later step of its own, so two
wrappers may be given one terminal. The environment, the dropping of privileges and the
records of wtmp only succeed or fail.

### DbusMirror

The daemon's table (`sessions`, `ready`), its three senders of broadcasts (the handler
before and after a launch, the monitor of a session that ends) and the adapter. `adapter`
is its stage: `down`, `booting` before the connection is up, `asking` after its first
request, `serving`, or `failed` for a start that failed and left no process. A thread of
the adapter reads `inbox` and queues callbacks (`idle`), which the main loop runs:
`UpdateState` is the whole of the update, objects withdrawn and registered and signals
emitted. `watcher` is a bus client that listed the sessions once and applies the signals.

`send_message` to a greeter whose buffer is full suspends the broadcast before the
adapter's turn: `stalled` is what waits there. A broadcast that comes out behind a newer
one makes `overtaken` true until a newer state is sent.

### Login

`app` is the front end: `stage` of the conversation (`name`, a typed prompt, a note,
`ready`), the name it was begun for, the fields, `busy` for `auth_in_progress`. GTK and
curses share the machine and differ where the code does: which fields can be edited when,
what the cancel key may do, which calls refresh the list. `waiting` is the request that
`send_recv_answer` is blocked on; events that arrive before the answer are handled
first. A request and its response are `mine` while the process image that made it runs:
`HandleReexec` replaces the image and disowns them. `disk` is the last-session file,
`latest` the session that really completed last.

The daemon is `AuthBroker` as a well-behaved greeter sees it, one step per request: a
worker's end counts as a failure, and the launch of a session is two steps, since a
request can arrive and a session can end between the spawn and the re-exec. A
create- or continue-session is taken off as its worker speaks, which it need not do.
`LongMessages` lets what PAM says exceed a frame: the response is dropped (`PassOn`)
and nothing else answers. `Frail` lets the channel close and the front end die;
`Restart` may bring the other front end.

### Wire

A byte is a cell below `Base`, a four-byte header two cells, the codec for UTF-8 one
two-cell character among one-cell ones. The layouts of the writers and of the readers
are separate definitions, as they are separate code; a parser yields the set of its
results, empty for `ProtocolError`, and fields are parsed one after the other (`InTurn`).
`WellFormed` says which messages there are to send: the fields of the layout, each of
what its encoder can pack (`struct` refuses a length or an integer beyond its field, and
a `str` has a UTF-8 encoding or none). The instance and the proofs both take the messages
from it. The stream delivers any number of cells a read asked
for; the writer may close or die inside a frame (`Cut`). The greeter's reader takes a
header cut short for a clean end, the daemon's and the worker's report it (`strict`).

## Properties and runs

| run | instance | properties |
|---|---|---|
| `auth_safety` | 2 attempts, 2 users, timeout 6 s, responses that do not fit, 2 requests in flight, power off; attempts and users symmetric | `SessionsAuthenticated`, `NoStrayWorker`, `TimerWatchesPending`, `ResponsesInOrder`, `AuthInv`, `GateSpec` |
| `auth_progress` | 2 attempts, 1 user, timeout 1 s, responses that do not fit, 1 in flight, power on; `FairSpec` | `IdleConversationExpires`, `HungWorkerReleased`, `RequestsServed` |
| `auth_late_answer` | 1 attempt | `ReplyAnswered` is violated |
| `supervisor_safety` | `max-restarts` 1, curses only, adapter, 1 session, early signals, 2 requests in a channel | `HandlerGoneBeforeRestart`, `NoOrphans`, `NoLateSession`, `SupInv` |
| `supervisor_liveness` | `max-restarts` 2, GTK first, no adapter, 1 session, wrappers that lead their groups, 1 request in a channel; `FairSpec` | `CrashBudget`, `ShutdownEnds`, `GreeterReplaced` |
| `mirror` | 2 sessions, a frame with room for 1, 1 loss of the bus name, a greeter that may stop reading; `FairSpec` | `NothingMissed`, `ExportsSnapshot`, `ObserversAgree`, `NeverEarly`, `MirrorSettles` |
| `wrapper` | 1 user and the greeter, 2 terminals, 3 faults, failing clean-ups, signals; `FairSpec` | `LeavesNothing`, `ProgramRunsInside`, `ConsoleAccounted`, `PostHookInTime`, `EndsWithProgram` |
| `login` | 2 users, 1 command, both front ends, timeouts, lost channels, responses that do not fit, 2 sessions, 2 attempts | `TypeOK`, `InStep`, `NeverMisnamed`, `StartHonoured` |
| `login_progress` | the same with 1 user; `FairSpec` | `Unlocks`, `ForgottenExpires` |
| `login_remembers` | 1 user, 2 commands, GTK, 1 session, nothing that fails | `RemembersLast` is violated |
| `wire` | base 10, bodies of at most 28 bytes, pairs of messages of every layout; `FairSpec` | `StreamInv`, `Undistorted`, `Unambiguous`, `ReadingEnds` |
| `pam_worker` | 2 calls of PAM, batches of up to 3 messages; `FairSpec` | `MemorySound`, `AnswersInPlace`, `HungUpEnds`, `PromiseKept` |

Why these bounds are enough:

* *Broker.* Two attempts are what the properties are about: the one being stopped and
  the one that replaces it, the one a stale timer watched and the one that is pending
  now. Two users make "for its own user" mean something. Two requests in flight let a
  request arrive while the previous one is being served, which is all a queue can add,
  since requests are served one at a time. The timeout of 6 gives the timer both of its
  phases, 1 only the second, 0 disables it: the code distinguishes no more. (No run has
  0; `RequestsServed` was checked with it outside of the runs.) When every
  attempt is used a create-session can only fail to launch, so behaviours end with the
  greeter still free to do the rest. Power actions are in one run only: a command is a
  suspension that touches nothing else. `MaxInFlight` is the one bound that is not in the
  code.
* *Supervisor.* `max-restarts` 2 lets a back end fail once and be tried again, and the
  fallback start a second count; 1 is the smallest. One session is enough for a launch
  to race the end of everything; two requests in a client's channel (`MaxInbox`, not in
  the code) are what a create or an accepted start needs to be buffered behind another
  when the channel is closed, and one is enough for a handler to hold up a shutdown. The
  channel is a count, since the client may ask for anything and only the order in which
  the daemon reads matters.
* *Adapter.* Two sessions are the one that starts while another one ends. Room for one
  is what makes a table too large; a second loss of the name repeats the first, since
  the adapter that lost it is a new process. `MaxListed` stands for the frame limit and
  is the code's, `MaxLosses` is a bound.
* *Wrappers.* A user's wrapper and the greeter's already compete for the terminals; the
  second terminal is the one that is free. Three faults break a step, the clean-up that
  follows, and one more. `WrapperInv` is checked by TLC with two users as well, outside
  of the runs (one fault and three terminals, or failing clean-ups and two), and proved
  for any number.
* *Login.* Two users tell a conversation begun for one from a field edited to the
  other. Two sessions and two attempts let one session end while the next login is
  under way. The second command matters only to what is stored, so only
  `login_remembers` has it. Whether a front end is released does not depend on names,
  so `login_progress` has one user.
* *Wire.* Base 10 lets a two-cell length announce a body beyond the limit. Messages come
  in pairs because that is what a reader can confuse: the end of one with the beginning
  of the next. Fields are empty, one cell, or a wide character; lists have none, one or
  two entries. A state with two sessions fills a body of 28 cells; with longer
  names it takes 30, and `encode_frame` refuses it. The proofs have any number of
  messages, of any length that fits.
* *PAM worker.* Two calls bring a second batch after a first, which is where state left
  over would bite; three messages have a first, a middle and a last.

The proofs below cover all other values of the constants.

`CHECK_DEADLOCK FALSE` is where the system really stops: the daemon ended, the wrappers
exited, the stream was read, the worker is gone.

**Fairness.** It is weak everywhere, and of the program only:

* `DaemonFairness` (broker): the handler, the timer task and the death of a worker that
  is being stopped. The loop runs every task that can run, and `terminate_process` ends
  with SIGKILL. Nothing is assumed of the greeter or of PAM. Only `RequestsServed` has
  the hypothesis `PamFairness`, that a worker left alone goes on, because the wait for a
  new worker's first message is under no timer: with a PAM module that hangs there, or
  after an answer with the timeout disabled, the daemon does wait for ever.
  `HungWorkerReleased` says that with a timeout the second case cannot happen.
* `LoopFairness` (supervisor): the coroutines, and the end of a process group that is
  being waited for. `FairSpec` adds `PamFairness`, and `ShutdownEnds` does need it:
  `close_client_channel` awaits a handler, which may be awaiting the first message of a
  worker that `client.auth_session` does not name yet, so that nobody stops it. Nothing
  is assumed of users: a session that was not signalled need never end.
* Adapter: the daemon's loop, the adapter's process, its thread and its main loop, and
  the replacement of a greeter that is gone. A greeter that stopped reading need not
  read again, which is why `MirrorSettles` is about what the daemon managed to send.
* Wrappers: a wrapper runs, calls and hooks return, a child reaches its exec or fails,
  the daemon's monitor notices an end. A program need not end.
* Login: a front end polls, timers fire, a spawned session is announced, and the daemon
  serves what needs no worker (`ServesAlone`). Nothing is assumed of users, of PAM or of
  the end of sessions: a worker may never speak. The wait for the first word of a new
  one is under no timer (`daemon_auth.py:147`), nor is any when the timeout is 0, and
  `Unlocks` leaves just these waits out (`Held`); the waits after the first word it does
  not, since the timer ends them. It leaves out as well the front end whose answer was
  dropped because PAM's words exceed a frame (`Unheard`, `daemon.py:332-338`): nothing in
  the code answers it later.
* PAM worker: PAM's functions return and the worker goes on. Nothing is assumed of the
  daemon, so `HungUpEnds` does not rest on its answers.
* Wire: the reader goes on. The writer need not.

## Where the code and its documentation disagree

Two runs end in a violation, each of a sentence of `Documentation/`:

* `auth_late_answer`. `protocol.md`: "each greeter reply gets exactly one response".
  The worker dies while the greeter is being asked, or the timeout task is in the
  middle of stopping it. `client.auth_session` does not tell, so continue-session writes
  to a closed channel, `drain()` raises `ConnectionResetError`, and the greeter's
  channel is closed under it.
* `login_remembers`. `configuration.md`: the greeter "stores the last successfully
  completed username and session command". The front end keeps both in memory, and
  re-execution wipes them before `session-finished` could save them.

Others showed while the models were written. The models behave as the code does, and
the properties are stated about what remains true.

* *Broker.* A PAM message just under the frame limit travels from the worker, but the
  response that repeats it with an id and an action exceeds the limit, and
  `send_message` logs and drops it; so it does a state with many sessions, and an error
  that echoes a long action. That request is never answered, against the sentence
  above, and the front end waits on. `ResponsesInOrder` says what remains: no response
  overtakes another or comes twice, and only dropped ones are missed. A worker that said
  "ready" still runs `pam_end` as root when start-session forgets it; nobody awaits it,
  at shutdown either.
  A cancel is read by the worker only inside a prompt and does not stick: PAM may ask
  again, and still accept.
* *PAM worker.* `_free_response_array` frees each response through a `c_char_p` field,
  which ctypes reads as a bytes object. `free()` is given a pointer into that object,
  which `calloc` never returned, and the text of the answer, often a password, is
  never freed nor wiped. glibc aborts on such a pointer or carries on with a damaged
  heap. It takes a PAM module that asks for several things in one call and a call that
  is broken off after the first was answered; `MemorySound` says that it takes that,
  `OneByOneIsSound` that modules which ask for one thing at a time are safe.
* *Supervisor.* `architecture.md` lists what shutdown terminates, "instead of leaving
  cage, adapter, or user-session processes behind", but
  `terminate_process_group` returns at once when no group bears the pid. The adapter
  never leads a group, so closing its channel is all that tells it; a wrapper signalled
  before its `setsid` is passed over, and `asyncio.gather` then waits for its user to
  log out: `ShutdownEnds` fails when `SlowStart` is TRUE. After SIGTERM it waits for the
  wrapper only (`process.py:64`): no wrapper handles the signal, so the wait ends at once,
  SIGKILL is never sent, and a program that heeds SIGTERM late or not at all outlives the
  daemon (`astray`). `NoOrphans` is about wrappers and held workers for that reason. The
  compositor of the greeter is in the same position. An adapter whose start failed
  is tried again only when the greeter exits.
* *Adapter.* An event broadcast before the response to its first get-state is taken for
  that response, and the adapter fails. A table that outgrows a frame is not sent, so
  the bus keeps the old one. `client.ready` changes what a snapshot says without an
  event. Two broadcasts suspended behind a greeter that does not read may come out in
  the wrong order (`overtaken`), and the older one stays on the bus until the next.
* *Wrappers.* When `pam_setcred(PAM_DELETE_CRED)` fails, the PAM session is not closed;
  when `pam_close_session` fails, that is logged and nothing more. A terminal that cannot
  be given to the user stays open until the wrapper exits, and one that cannot be taken
  back stays the user's.
  SIGTERM kills a wrapper before its post hook. A child of the greeter's wrapper that
  fails before its exec runs the parent's clean-up and closes the PAM session under it.
  Hooks see an empty `WLDM_SESSION_COMMAND`. The terminal VT_OPENQRY reported may be
  taken before it is opened, and a greeter that restarts takes the console from a
  running session.
* *Login.* What is stored as the last user is what stands in the name field when a
  session ends, typed or chosen, whoever's session it was. A
  session that ends in the middle of a round trip makes the front end forget the name
  of the conversation that goes on. After it the curses front end leaves the focus
  where it was, whatever its field's `grab_focus` says.

## What is proved

Every theorem is for all values of the constants, from the assumptions named in the
module of the model: null values are not members, bounds are natural numbers, the sets
of sessions and clients are disjoint, messages are well formed. Most properties
are not inductive as they stand; each module `*Inv` has the strengthening, as a
conjunction of named parts, and each proof has one lemma per action or kind of step,
with a step per part.

* `AuthBroker_proofs`: `Spec => []AuthInv`, and from it type correctness
  (`TypeCorrect`), `SessionsAuthenticated`, `NoStrayWorker`, and that the timer watches
  the pending conversation and every pending conversation is watched (`TimerSound`).
  `WarningBeforeExpiry` is the arithmetic of the timer for every timeout, which the
  model's phases do not show: the warning falls before the expiry, and only a timeout of
  one second has none.
  `AuthInv` adds what each place of the handler says of its locals (`HandlerInv`: at
  `launch`, `greet`, `first` and `spawn` there is no conversation; the attempt being
  started is not ready), that a handler stopping a conversation has no timer beside it
  (`TimerInv`), the life of a worker (`WorkerInv`: a worker in PAM is held; one that is
  ending is held, or was ready and never stopped; a "ready" on the channel means PAM
  accepted that attempt; an attempt that was stopped has its channel closed, so its
  verdict can no longer be read; only an unborn attempt can be launched) and the
  exclusion that makes an attempt spendable once (`SpendInv`: where an attempt is
  remembered as opened, about to be opened, under way or being started excludes the
  other places).
  `ImplementsGate` is `Spec => GateSpec`, with the same invariant: one lemma for the ways
  to give a conversation up, one for each action the gate sees, stuttering for the rest.
  `AnsweredInOrder` is `ResponsesInOrder`, with or without responses that are dropped.
  The equation between what the greeter waits for and the three places a request can be in is its
  own invariant once `HandlerInv` says that no request is held between two; each step
  is a lemma on what appending to, taking from or clearing a queue does to the answers
  in it.
* `Supervisor_proofs`: `Spec => []SupInv`, `CrashBudget`, `HandlerGoneBeforeRestart`,
  `NoOrphans` and the action property `NoLateSession`. `failures` counts for the back
  end in use and trails the count of useless greeters by at most one back end's share
  (`CountInv`); a client without a process has no handler, except the one whose channel
  is being closed (`HandlerInv`), so when cleanup begins to end processes no handler is
  left to launch anything; a running session is monitored, and cleanup gathers the
  monitors (`SessionInv`). `NoOrphans` covers wrappers, monitors and the worker the
  daemon holds; of programs left by their wrapper and of workers let go of at
  start-session there is nothing to prove, since the code does not track them.
* `PamWorker_proofs`: `WorkerInvariant`, from it `MemoryIsSound` (the array is freed
  once or PAM's; what is lost was answered in a call that failed later),
  `OneByOneIsSound`, `AnswersStayInPlace`, `BrokerHeld` (the registry is empty outside of
  a run), `VerdictSaid` (a crash after a wrong `free()` is the one silent end), and
  `KeepsPromise`: the worker implements `WorkerPromise`, a crash being one more death. The
  invariant ties every block of memory to the place of the callback: before the
  hand-over the worker owns the array and the responses written so far, and no others;
  every way to break off frees the array and loses just the responses.
* `SessionWrapper_proofs`: `WrapperInvariant`, `NothingLeft`, `RunsInside`,
  `ConsoleHeld`, and the action property `PostHookHonoured`. The invariant says of each
  place of a wrapper what it holds at least and at most, which failing call answers for
  what its clean-up passed by (`LeftBehind`), and what the child may be; the shared terminals are the one thing two wrappers have in common,
  and the invariant does not need them to be distinct.
* `DbusMirror_proofs`: `MirrorInvariant`, `NothingIsMissed`, `ExportsAreSnapshot`,
  `SignalsSuffice` and `NothingShownEarly`. The chain from the daemon's table to the
  bus (broadcasts waiting, frames sent, callbacks queued, objects exported) has the
  newest state sent as its last element or is empty and has arrived.
* `Login_proofs`: `TypesHold` (`TypeOK`), `LoginInvariantHolds`, and from it
  `ScreenInStep` (`InStep`), `StartsHonoured` and `NeverTakenForAnother`
  (`NeverMisnamed`). The two queues carry the
  argument: one request at most belongs to the running process image, it is the last
  one, and its response is not written before everything ahead of it was served
  (`ChannelInv`); what an older image left there is served while the present one is
  still at its first request (`StaleInv`); a prompt or verdict on its way is the daemon's
  attempt, unless an expiry follows it (`ReplyInv`), and so is the screen, unless a
  deciding reply, an expiry or a re-execution is on its way (`ScreenInv`). Every action
  is first shown to be one of fourteen kinds of step, and each part of the invariant is
  proved for the kinds. TLC checks `LoginInvariant` on the instance of `login` as well,
  outside of the runs.

* `Wire_proofs`: `RoundTrip` and `NoPartIsWhole`, on the codecs, for messages of any
  length: every kind of field reads its own encoding and leaves what follows (`Reads`),
  looks at nothing beyond what it takes (`Local`), and parsers in turn do so too; the
  writer's and the reader's layouts agree because each pair of them is equal. Then
  `StreamHolds`: what the reader holds of a frame, followed by what is on the wire, is
  the join of the frames of the messages not decoded yet, all of it while the writer
  lives and a beginning of it afterwards (`Framed`), and no read goes past its frame
  (`Bounded`). `NothingDistorted` and `NothingAmbiguous` follow from it and the codecs.

The proofs about queues and cells need induction over numbers. The library's rule takes
an operator, which no installed prover instantiates; `Induction` derives a rule about
sets from well-foundedness instead, and from it that a recursive function computes what
its equation says. It serves what is recursive over one number: a filter of a queue,
`FlattenSeq`, parsers in turn.

Only model-checked: liveness (`IdleConversationExpires`, `HungWorkerReleased`,
`RequestsServed`, `ShutdownEnds`, `GreeterReplaced`, `MirrorSettles`, `EndsWithProgram`,
`Unlocks`, `ForgottenExpires`, `ReadingEnds`, `HungUpEnds`), which is out of the prover's
reach, as is ENABLED, and what the two runs that end in a violation show.

## Not modelled

* The session catalogue, configuration, the seat policy and the audit log: files and
  records that are read or written once and keep no state another part depends on.
  What configuration decides is a CONSTANT where it matters (`AuthTimeout`,
  `MaxRestarts`, `PowerEnabled`, `FirstBackend`, `AdapterEnabled`).
* Command lines (`command.py`, `greeter/account.py`): pure translation of a desktop
  entry's Exec and of the configured command.
* Widgets, drawing, themes and keyboard layouts; wiping of secrets; foreign-function
  declarations; logging.
* A second SIGTERM after `remove_stop_handlers`, which kills the daemon outright, and
  the cancellation of the main task, which nothing in the program requests.
* A second client of the daemon that sends requests: the adapter could, and sends only
  get-state.
