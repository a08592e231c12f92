---------------------------- MODULE CodexReader ----------------------------
(***************************************************************************)
(* codex.Reader.Read: start `codex app-server` in a process group of its   *)
(* own, run a JSON-RPC handshake and one request over its pipes, close its *)
(* stdin, wait for it to exit, and name the windows it answered with.      *)
(*                                                                         *)
(* The other side is not this repository's: a wrapper and the native       *)
(* binary it starts, which share the three pipes and the process group,    *)
(* and os/exec, whose watcher kills the group when the context is done and *)
(* whose Wait gives whoever still holds stderr WaitDelay to let go.        *)
(* Time does not pass while Read has something to do that waits for nobody.*)
(***************************************************************************)
EXTENDS LimitsReader, Sequences

CONSTANTS
  Timeout,    \* Reader.Timeout
  WaitDelay,  \* cmd.WaitDelay
  Lengths,    \* the windowDurationMins a window may state
  PipeSize    \* lines the stdout pipe holds: a bound of the model

ASSUME CodexAssumption ==
  /\ Timeout \in Nat /\ WaitDelay \in Nat
  /\ Lengths \subseteq Nat \ {0}
  /\ PipeSize \in Nat \ {0}

Absent == -1     \* no such window
Unstated == 0    \* a window without windowDurationMins

(* What the result of account/rateLimits/read may be: no rateLimits in it, *)
(* or two windows either of which may be missing.                          *)
Window == Lengths \cup {Unstated, Absent}
NoResult == [limits |-> FALSE, primary |-> Absent, secondary |-> Absent]
Results == [limits : {TRUE}, primary : Window, secondary : Window] \cup {NoResult}

VARIABLES
  wrapper,    \* the process Read started: "none", "alive", "exited0", "exited1", "reaped"
  native,     \* the binary under it: "none", "alive", "gone"
  pending,    \* the ids of the requests it has received and not answered
  stdinOpen,  \* Read has not closed its end of stdin
  stdout,     \* the lines in the pipe
  cancelled,  \* the caller's context is done: the client left, or shutdown
  watcher,    \* os/exec's: "none", "watching", "killed" (it fired), "returned"
  expiry,     \* when WaitDelay is over
  raw,        \* what exchange returned: [ok, result]
  waitErr     \* cmd.Wait returned an error

processVars == <<wrapper, native, pending, stdout>>
execVars == <<watcher, expiry, waitErr>>
codexVars == <<processVars, stdinOpen, cancelled, execVars, raw>>

NoRaw == [ok |-> FALSE, result |-> NoResult]

CodexInit ==
  /\ wrapper = "none" /\ native = "none"
  /\ pending = {} /\ stdinOpen = TRUE /\ stdout = << >>
  /\ cancelled = FALSE
  /\ watcher = "none" /\ expiry = 0
  /\ raw = NoRaw /\ waitErr = FALSE

-----------------------------------------------------------------------------
(* The child process.  Whoever is alive holds the other end of the pipes.  *)

PipesHeld == wrapper = "alive" \/ native = "alive"

Line(kind, id, result) == [kind |-> kind, id |-> id, result |-> result]

Write(line) ==
  /\ native = "alive"
  /\ stdout' = Append(stdout, line)
  /\ UNCHANGED <<wrapper, native, stdinOpen, cancelled, execVars, raw, pc, time, given>>

(* A notification, or a request of the server's own: it numbers these      *)
(* itself, so their ids may well be those Read uses.                       *)
OwnLines == {Line("notification", 0, NoResult)} \cup
            {Line("request", id, NoResult) : id \in {1, 2}}

ServerSpeaks(line) ==
  /\ line \in OwnLines
  /\ Len(stdout) < PipeSize
  /\ Write(line)
  /\ UNCHANGED <<pending, reply, blamed>>

StatedWindows(result) ==
  {position \in {"primary", "secondary"} : result[position] # Absent}

(* Two windows the answer gives the same length. *)
Contradicts(result) ==
  result.primary = result.secondary /\ result.primary \in Lengths

ServerAnswers(id, result) ==
  /\ id \in pending
  /\ Len(stdout) < PipeSize
  /\ Write(Line("result", id, result))
  /\ pending' = pending \ {id}
  /\ IF id = 2
     THEN /\ reply' = [made |-> TRUE, windows |-> StatedWindows(result)]
          /\ blamed' = (blamed \/ ~result.limits \/ Contradicts(result))
     ELSE UNCHANGED <<reply, blamed>>

(* An error response, or a line that is no JSON, has an id that is no      *)
(* integer, or is longer than the scanner's buffer.                        *)
BadLines == {Line("undecodable", 0, NoResult)} \cup
            {Line("error", id, NoResult) : id \in {1, 2}}

ServerFails(line) ==
  /\ line \in BadLines
  /\ line.kind = "error" => line.id \in pending
  /\ Len(stdout) < PipeSize
  /\ Write(line)
  /\ pending' = pending \ {line.id}
  /\ blamed' = TRUE
  /\ UNCHANGED reply

(* A native that ends before stdin does leaves on its own account. *)
NativeExits ==
  /\ native = "alive"
  /\ native' = "gone"
  /\ blamed' = (blamed \/ stdinOpen)
  /\ UNCHANGED <<wrapper, pending, stdout, stdinOpen, cancelled, execVars, raw,
                 pc, time, reply, given>>

(* The wrapper waits for the native binary and exits as it did: one that   *)
(* fails, or goes first, is to blame.                                      *)
WrapperExits(code) ==
  /\ wrapper = "alive"
  /\ wrapper' = code
  /\ blamed' = (blamed \/ native = "alive" \/ code # "exited0")
  /\ UNCHANGED <<native, pending, stdout, stdinOpen, cancelled, execVars, raw,
                 pc, time, reply, given>>

-----------------------------------------------------------------------------
(* os/exec. *)

CtxDone == cancelled \/ time >= Timeout

CallerLeaves ==
  /\ ~cancelled /\ cancelled' = TRUE
  /\ blamed' = TRUE
  /\ UNCHANGED <<processVars, stdinOpen, execVars, raw, pc, time, reply, given>>

(* Mutant: the kill reaches the wrapper only. *)
Kill_WrapperOnly ==
  /\ wrapper' = IF wrapper = "alive" THEN "exited1" ELSE wrapper
  /\ UNCHANGED native

(* cmd.Cancel: SIGKILL to the process group. *)
Kill ==
  /\ wrapper' = IF wrapper = "alive" THEN "exited1" ELSE wrapper
  /\ native' = "gone"

(* The watcher, until Wait asks for its result.  Whatever the kill returns *)
(* (a group already gone is an error too), Wait will report an error.      *)
WatcherFires ==
  /\ watcher = "watching" /\ CtxDone
  /\ Kill
  /\ watcher' = "killed"
  /\ expiry' = time + WaitDelay
  /\ blamed' = TRUE
  /\ UNCHANGED <<pending, stdout, stdinOpen, cancelled, waitErr, raw, pc, time, reply, given>>

-----------------------------------------------------------------------------
(* Read. *)

Start(ok) ==
  /\ pc = "start"
  /\ IF ok
     THEN /\ wrapper' = "alive" /\ native' = "alive" /\ watcher' = "watching"
          /\ pc' = "initialize" /\ UNCHANGED blamed
     ELSE pc' = "failed" /\ blamed' = TRUE /\ UNCHANGED <<wrapper, native, watcher>>
  /\ UNCHANGED <<time, reply, given, pending, stdout, stdinOpen, cancelled, expiry, waitErr, raw>>

(* The two sends; the second one follows the notification "initialized".   *)
(* A pipe nobody reads any more fails the write.                           *)
Send(id) ==
  /\ pc = IF id = 1 THEN "initialize" ELSE "ask"
  /\ IF PipesHeld
     THEN /\ pending' = pending \cup (IF native = "alive" THEN {id} ELSE {})
          /\ pc' = IF id = 1 THEN "await1" ELSE "await2"
     ELSE pc' = "close" /\ UNCHANGED pending
  /\ UNCHANGED <<time, reply, given, blamed, wrapper, native, stdout, stdinOpen,
                 cancelled, execVars, raw>>

(* Mutant: whatever carries the id is taken for the response. *)
IsResponse_AnyWithTheId(line, id) == line.id = id

(* A line with our id and no method. *)
IsResponse(line, id) == line.id = id /\ line.kind \notin {"notification", "request"}

(* awaitResponse: one turn of its loop. *)
Scan(id) ==
  /\ pc = IF id = 1 THEN "await1" ELSE "await2"
  /\ \/ /\ stdout # << >>
        /\ stdout' = Tail(stdout)
        /\ LET line == Head(stdout)
           IN  \/ /\ line.kind # "undecodable" /\ ~IsResponse(line, id)
                  /\ UNCHANGED <<pc, raw>>
               \/ /\ line.kind = "undecodable" \/ (IsResponse(line, id) /\ line.kind = "error")
                  /\ pc' = "close" /\ UNCHANGED raw
               \/ /\ line.kind \notin {"undecodable", "error"} /\ IsResponse(line, id)
                  /\ pc' = IF id = 1 THEN "ask" ELSE "close"
                  /\ raw' = IF id = 1 THEN raw ELSE [ok |-> TRUE, result |-> line.result]
     \/ /\ stdout = << >> /\ ~PipesHeld    \* the output ended
        /\ pc' = "close" /\ UNCHANGED <<stdout, raw>>
  /\ UNCHANGED <<time, reply, given, blamed, wrapper, native, pending, stdinOpen,
                 cancelled, execVars>>

CloseStdin ==
  /\ pc = "close"
  /\ stdinOpen' = FALSE
  /\ pc' = "wait"
  /\ UNCHANGED <<time, reply, given, blamed, processVars, cancelled, execVars, raw>>

(* cmd.Wait, first: the process has exited.  *)
Reap ==
  /\ pc = "wait" /\ wrapper \in {"exited0", "exited1"}
  /\ waitErr' = (wrapper = "exited1")
  /\ wrapper' = "reaped"
  /\ pc' = "result"
  /\ UNCHANGED <<time, reply, given, blamed, native, pending, stdout, stdinOpen,
                 cancelled, watcher, expiry, raw>>

(* Then: the watcher's result.  Until here the context may still fire.     *)
WatcherReturns ==
  /\ pc = "result"
  /\ waitErr' = (waitErr \/ watcher = "killed")
  /\ expiry' = IF watcher = "killed" THEN expiry ELSE time + WaitDelay
  /\ watcher' = IF watcher = "killed" THEN "killed" ELSE "returned"
  /\ pc' = "drain"
  /\ UNCHANGED <<time, reply, given, blamed, processVars, stdinOpen, cancelled, raw>>

(* Mutant: no WaitDelay, so Wait waits for stderr however long it takes.   *)
Drain_Forever ==
  /\ pc = "drain"
  /\ native # "alive"
  /\ pc' = "decode"
  /\ UNCHANGED <<time, reply, given, blamed, codexVars>>

(* Last: stderr has ended, or is closed over whoever holds it (ErrWaitDelay). *)
Drain ==
  /\ pc = "drain"
  /\ native # "alive" \/ time >= expiry
  /\ waitErr' = (waitErr \/ native = "alive")
  /\ pc' = "decode"
  /\ UNCHANGED <<time, reply, given, blamed, processVars, stdinOpen, cancelled,
                 watcher, expiry, raw>>

(* Windows are keyed by their length, or by position without one. *)
keyForWindow(minutes, position) ==
  CASE minutes = Unstated -> <<position>>
    [] minutes = 300      -> <<"five_hour">>
    [] minutes = 10080    -> <<"weekly">>
    [] OTHER              -> <<minutes, "m">>

addWindow(windows, result, position) ==
  IF result[position] = Absent THEN windows
  ELSE Put(windows, keyForWindow(result[position], position), position)

(* Mutant: the window that comes last keeps the key. *)
RefusesToDrop_LastWins(result) == FALSE

RefusesToDrop(result) ==
  /\ result.primary # Absent /\ result.secondary # Absent
  /\ keyForWindow(result.primary, "primary") = keyForWindow(result.secondary, "secondary")

normalize(result) == addWindow(addWindow(NoWindows, result, "primary"), result, "secondary")

(* The end of Read: any error fails it, an answer without windows does not.*)
Decode ==
  /\ pc = "decode"
  /\ IF raw.ok /\ ~waitErr /\ raw.result.limits /\ ~RefusesToDrop(raw.result)
     THEN pc' = "ok" /\ given' = normalize(raw.result)
     ELSE pc' = "failed" /\ UNCHANGED given
  /\ UNCHANGED <<time, reply, blamed, codexVars>>

ReadStep ==
  \/ \E ok \in BOOLEAN : Start(ok)
  \/ \E id \in {1, 2} : Send(id) \/ Scan(id)
  \/ CloseStdin \/ Reap \/ WatcherReturns \/ Drain \/ Decode

-----------------------------------------------------------------------------
(* Time passes while Read waits for the process, or lets a line wait.      *)
CodexAdvance ==
  /\ ~(watcher = "watching" /\ CtxDone)
  /\ \/ pc \in {"await1", "await2"} /\ PipesHeld
     \/ pc = "wait" /\ wrapper = "alive"
     \/ pc = "drain" /\ native = "alive" /\ time < expiry
  /\ time' = time + 1
  /\ UNCHANGED <<pc, reply, given, blamed, codexVars>>

CodexNext ==
  \/ \E line \in OwnLines : ServerSpeaks(line)
  \/ ServerAnswers(1, NoResult)
  \/ \E result \in Results : ServerAnswers(2, result)
  \/ \E line \in BadLines : ServerFails(line)
  \/ NativeExits
  \/ \E code \in {"exited0", "exited1"} : WrapperExits(code)
  \/ WatcherFires
  \/ ReadStep
  \/ CodexAdvance

-----------------------------------------------------------------------------
(* A read that has returned leaves no process behind, unless the wrapper   *)
(* went first and alone, before the timeout: then the timeout no longer    *)
(* applies, and the native binary is left running, the read having failed. *)
NoStrayProcess ==
  pc \in {"ok", "failed"} /\ native = "alive" => pc = "failed" /\ watcher = "returned"
=============================================================================
