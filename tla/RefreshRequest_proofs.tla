----------------------- MODULE RefreshRequest_proofs -----------------------
(* Theorems about RefreshRequest, for any timeouts, window lengths and     *)
(* pipe size.                                                              *)
EXTENDS RefreshRequest, TLAPS

-----------------------------------------------------------------------------
(* No stray process. *)

(* The steps of a read that come before a process exists, and those of the *)
(* Anthropic read, which never starts one.                                 *)
NoProcessYet == {"idle", "credentials", "request", "body", "start"}

(* Once the watcher has killed the group nobody of it lives; Wait is past  *)
(* the watcher when it drains stderr; and draining over a living holder is *)
(* an error.                                                               *)
StrayInv ==
  /\ native = "alive" => watcher \in {"watching", "returned"}
  /\ pc \in NoProcessYet => native # "alive"
  /\ pc \in {"drain", "decode"} => watcher \in {"killed", "returned"}
  /\ pc = "decode" /\ native = "alive" => waitErr
  /\ NoStrayProcess

LEMMA StrayInit == Init => StrayInv
BY DEF Init, ReaderInit, AnthropicInit, CodexInit, StrayInv, NoProcessYet, NoStrayProcess

LEMMA StrayChild ==
  ASSUME StrayInv,
         \/ \E line \in OwnLines : ServerSpeaks(line)
         \/ ServerAnswers(1, NoResult)
         \/ \E result \in Results : ServerAnswers(2, result)
         \/ \E line \in BadLines : ServerFails(line)
         \/ NativeExits
         \/ \E code \in {"exited0", "exited1"} : WrapperExits(code)
         \/ WatcherFires
         \/ CallerLeaves
  PROVE  StrayInv'
<1> USE DEF StrayInv, NoStrayProcess, NoProcessYet, execVars, processVars
<1>1. CASE \E line \in OwnLines : ServerSpeaks(line)
  BY <1>1 DEF ServerSpeaks, Write
<1>2. CASE ServerAnswers(1, NoResult)
  BY <1>2 DEF ServerAnswers, Write
<1>3. CASE \E result \in Results : ServerAnswers(2, result)
  BY <1>3 DEF ServerAnswers, Write
<1>4. CASE \E line \in BadLines : ServerFails(line)
  BY <1>4 DEF ServerFails, Write
<1>5. CASE NativeExits
  BY <1>5 DEF NativeExits
<1>6. CASE \E code \in {"exited0", "exited1"} : WrapperExits(code)
  BY <1>6 DEF WrapperExits
<1>7. CASE WatcherFires
  BY <1>7 DEF WatcherFires, Kill
<1>8. CASE CallerLeaves
  BY <1>8 DEF CallerLeaves
<1> QED
  BY <1>1, <1>2, <1>3, <1>4, <1>5, <1>6, <1>7, <1>8

LEMMA StrayRead ==
  ASSUME StrayInv, ReadStep \/ CodexAdvance
  PROVE  StrayInv'
<1> USE DEF StrayInv, NoStrayProcess, NoProcessYet, execVars, processVars
<1>1. CASE \E ok \in BOOLEAN : Start(ok)
  BY <1>1 DEF Start
<1>2. CASE \E id \in {1, 2} : Send(id)
  BY <1>2 DEF Send
<1>3. CASE \E id \in {1, 2} : Scan(id)
  BY <1>3 DEF Scan
<1>4. CASE CloseStdin
  BY <1>4 DEF CloseStdin
<1>5. CASE Reap
  BY <1>5 DEF Reap
<1>6. CASE WatcherReturns
  BY <1>6 DEF WatcherReturns
<1>7. CASE Drain
  BY <1>7 DEF Drain
<1>8. CASE Decode
  BY <1>8 DEF Decode, codexVars
<1>9. CASE CodexAdvance
  BY <1>9 DEF CodexAdvance, codexVars
<1> QED
  BY <1>1, <1>2, <1>3, <1>4, <1>5, <1>6, <1>7, <1>8, <1>9 DEF ReadStep

LEMMA StrayAnthropic ==
  ASSUME StrayInv, AnthropicNext, UNCHANGED codexVars
  PROVE  StrayInv'
<1> USE DEF StrayInv, NoStrayProcess, NoProcessYet, codexVars, execVars, processVars
<1>1. CASE \E found \in BOOLEAN : LoadCredentials(found)
  BY <1>1 DEF LoadCredentials
<1>2. CASE \E st \in {"200", "other"} : Do(st)
  BY <1>2 DEF Do
<1>3. CASE \E b \in Bodies : States(b)
  BY <1>3 DEF States
<1>4. CASE \E parses \in BOOLEAN : ReadBody(parses)
  BY <1>4 DEF ReadBody
<1>5. CASE HTTPFails
  BY <1>5 DEF HTTPFails
<1>6. CASE HTTPAdvance
  BY <1>6 DEF HTTPAdvance
<1> QED
  BY <1>1, <1>2, <1>3, <1>4, <1>5, <1>6 DEF AnthropicNext

LEMMA StrayRequest ==
  ASSUME StrayInv, (\E p \in {"anthropic", "codex", "unknown"} : Ask(p)) \/ Answer
  PROVE  StrayInv'
<1> USE DEF StrayInv, NoStrayProcess, NoProcessYet, codexVars, execVars, processVars
<1>1. CASE \E p \in {"anthropic", "codex", "unknown"} : Ask(p)
  BY <1>1 DEF Ask, Refuse, readerVars
<1>2. CASE Answer
  BY <1>2 DEF Answer, Store, BadGateway, readerVars
<1> QED
  BY <1>1, <1>2

(* A read that has returned leaves no process behind, unless the wrapper   *)
(* went before the timeout and left the native binary alone.               *)
THEOREM NoStrayProcessHolds == Spec => []NoStrayProcess
<1>1. Init => StrayInv
  BY StrayInit
<1>2. StrayInv /\ [Next]_vars => StrayInv'
  <2> SUFFICES ASSUME StrayInv, [Next]_vars PROVE StrayInv'
    OBVIOUS
  <2>1. CASE Codex(CodexNext) \/ ClientLeaves
    <3>1. CodexNext \/ CallerLeaves
      BY <2>1 DEF Codex, ClientLeaves
    <3> QED
      BY <3>1, StrayChild, StrayRead DEF CodexNext
  <2>2. CASE Anthropic(AnthropicNext)
    BY <2>2, StrayAnthropic DEF Anthropic
  <2>3. CASE (\E p \in {"anthropic", "codex", "unknown"} : Ask(p)) \/ Answer
    BY <2>3, StrayRequest
  <2>4. CASE UNCHANGED vars
    BY <2>4 DEF vars, readerVars, codexVars, processVars, execVars, StrayInv,
                NoStrayProcess, NoProcessYet
  <2> QED
    BY <2>1, <2>2, <2>3, <2>4 DEF Next
<1>3. StrayInv => NoStrayProcess
  BY DEF StrayInv
<1> QED
  BY <1>1, <1>2, <1>3, PTL DEF Spec

-----------------------------------------------------------------------------
(* Every failure has a cause. *)

LEMMA ResultType ==
  ASSUME NEW result \in Results
  PROVE  /\ result.limits \in BOOLEAN
         /\ result.primary \in Window /\ result.secondary \in Window
<1>1. CASE result \in [limits : {TRUE}, primary : Window, secondary : Window]
  BY <1>1
<1>2. CASE result = NoResult
  BY <1>2 DEF NoResult, Window
<1> QED
  BY <1>1, <1>2 DEF Results

(* Two windows share a key only if they state the same length. *)
LEMMA KeysDiffer ==
  ASSUME NEW result \in Results, RefusesToDrop(result)
  PROVE  Contradicts(result)
<1> DEFINE p == result.primary
           s == result.secondary
<1>1. p \in Lengths \cup {Unstated} /\ s \in Lengths \cup {Unstated}
  BY ResultType DEF RefusesToDrop, Window
<1>2. Lengths \subseteq Nat \ {0}
  BY CodexAssumption
<1>3. keyForWindow(p, "primary") = keyForWindow(s, "secondary")
  BY DEF RefusesToDrop
<1>4. p = s /\ p # Unstated
  <2>1. CASE p = Unstated
    BY <1>1, <1>2, <1>3, <2>1 DEF keyForWindow, Unstated
  <2>2. CASE s = Unstated
    BY <1>1, <1>2, <1>3, <2>2 DEF keyForWindow, Unstated
  <2>3. CASE p # Unstated /\ s # Unstated
    BY <1>1, <1>2, <1>3, <2>3 DEF keyForWindow, Unstated
  <2> QED
    BY <2>1, <2>2, <2>3
<1> QED
  BY <1>1, <1>4 DEF Contradicts

(* What the server may write without being to blame. *)
HarmlessLines ==
  {line \in [kind : {"notification", "request", "result"}, id : 0 .. 2, result : Results] :
    line.kind = "result" /\ line.id = 2 =>
      line.result.limits /\ ~Contradicts(line.result)}

(* While nothing outside has gone wrong: the native binary answers until   *)
(* stdin is closed, the wrapper follows it, Wait reports nothing, and what *)
(* the exchange has returned is decodable.                                 *)
Blameless ==
  /\ pc # "failed"
  /\ native = "gone" => ~stdinOpen
  /\ wrapper \in {"none", "alive", "exited0", "reaped"}
  /\ native \in {"none", "alive", "gone"} /\ (native = "none" => wrapper = "none")
  /\ wrapper \in {"exited0", "reaped"} => native = "gone"
  /\ watcher # "killed" /\ waitErr = FALSE
  /\ stdout \in Seq(HarmlessLines)
  /\ pc \in {"initialize", "await1", "ask", "await2"} => native = "alive" /\ stdinOpen
  /\ pc \in NoProcessYet => stdinOpen
  /\ pc \in {"result", "drain", "decode"} => wrapper = "reaped"
  /\ pc \in {"close", "wait", "result", "drain", "decode"} =>
       raw.ok /\ raw.result \in Results /\ raw.result.limits /\ ~Contradicts(raw.result)

CauseInv == blamed \in BOOLEAN /\ (~blamed => Blameless)

LEMMA CauseInit == Init => CauseInv
<1> SUFFICES ASSUME Init PROVE CauseInv
  OBVIOUS
<1>1. blamed \in BOOLEAN
  BY DEF Init, ReaderInit
<1>2. stdout = << >>
  BY DEF Init, CodexInit
<1>3. stdout \in Seq(HarmlessLines)
  BY <1>2
<1>4. Blameless
  BY <1>3 DEF Init, ReaderInit, CodexInit, Blameless, NoProcessYet
<1> QED
  BY <1>1, <1>4 DEF CauseInv

LEMMA CauseChild ==
  ASSUME CauseInv,
         \/ \E line \in OwnLines : ServerSpeaks(line)
         \/ ServerAnswers(1, NoResult)
         \/ \E result \in Results : ServerAnswers(2, result)
         \/ \E line \in BadLines : ServerFails(line)
         \/ NativeExits
         \/ \E code \in {"exited0", "exited1"} : WrapperExits(code)
         \/ WatcherFires
         \/ CallerLeaves
  PROVE  CauseInv'
<1> USE DEF CauseInv, Blameless, NoProcessYet, execVars
<1>0. NoResult \in Results
  BY DEF Results
<1>1. CASE \E line \in OwnLines : ServerSpeaks(line)
  <2> PICK line \in OwnLines : ServerSpeaks(line)
    BY <1>1
  <2>1. line \in HarmlessLines
    BY <1>0 DEF OwnLines, Line, HarmlessLines
  <2> QED
    BY <2>1 DEF ServerSpeaks, Write
<1>2. CASE ServerAnswers(1, NoResult)
  <2>1. Line("result", 1, NoResult) \in HarmlessLines
    BY <1>0 DEF Line, HarmlessLines
  <2> QED
    BY <1>2, <2>1 DEF ServerAnswers, Write
<1>3. CASE \E result \in Results : ServerAnswers(2, result)
  <2> PICK result \in Results : ServerAnswers(2, result)
    BY <1>3
  <2> HIDE DEF Blameless
  <2>1. blamed' = (blamed \/ ~result.limits \/ Contradicts(result))
    BY DEF ServerAnswers
  <2>2. result.limits \in BOOLEAN /\ Contradicts(result) \in BOOLEAN
    BY ResultType DEF Contradicts
  <2>3. blamed' \in BOOLEAN
    BY <2>1, <2>2
  <2>4. ASSUME ~blamed' PROVE Blameless'
    <3>1. ~blamed /\ result.limits /\ ~Contradicts(result)
      BY <2>1, <2>2, <2>4
    <3>2. Line("result", 2, result) \in HarmlessLines
      BY <3>1 DEF Line, HarmlessLines
    <3> QED
      BY <3>1, <3>2 DEF ServerAnswers, Write, Blameless, NoProcessYet
  <2> QED
    BY <2>3, <2>4
<1>4. CASE \E line \in BadLines : ServerFails(line)
  <2> HIDE DEF Blameless
  <2>1. blamed' = TRUE
    BY <1>4 DEF ServerFails
  <2> QED
    BY <2>1
<1>5. CASE NativeExits
  BY <1>5 DEF NativeExits
<1>6. CASE \E code \in {"exited0", "exited1"} : WrapperExits(code)
  <2> PICK code \in {"exited0", "exited1"} : WrapperExits(code)
    BY <1>6
  <2> HIDE DEF Blameless
  <2>1. blamed' = (blamed \/ native = "alive" \/ code # "exited0")
    BY DEF WrapperExits
  <2>2. ASSUME ~blamed' PROVE Blameless'
    <3>1. Blameless /\ native # "alive" /\ code = "exited0"
      BY <2>1, <2>2
    <3>2. /\ wrapper = "alive" /\ wrapper' = "exited0"
          /\ UNCHANGED <<native, stdout, stdinOpen, watcher, waitErr, raw, pc>>
      BY <3>1 DEF WrapperExits
    <3> QED
      BY <3>1, <3>2 DEF Blameless, NoProcessYet
  <2> QED
    BY <2>1, <2>2
<1>7. CASE WatcherFires
  BY <1>7 DEF WatcherFires
<1>8. CASE CallerLeaves
  BY <1>8 DEF CallerLeaves
<1> QED
  BY <1>1, <1>2, <1>3, <1>4, <1>5, <1>6, <1>7, <1>8

LEMMA CauseScan ==
  ASSUME CauseInv, NEW id \in {1, 2}, Scan(id)
  PROVE  CauseInv'
<1>1. blamed' = blamed
  BY DEF Scan
<1>2. ASSUME ~blamed PROVE Blameless'
  <2>1. Blameless
    BY <1>2 DEF CauseInv
  <2>2. pc = IF id = 1 THEN "await1" ELSE "await2"
    BY DEF Scan
  <2>3. native = "alive" /\ stdinOpen
    BY <2>1, <2>2 DEF Blameless
  <2>4. stdout # << >>
    BY <2>3 DEF Scan, PipesHeld
  <2>5. Head(stdout) \in HarmlessLines /\ Tail(stdout) \in Seq(HarmlessLines)
    BY <2>1, <2>4 DEF Blameless
  <2>6. stdout' \in Seq(HarmlessLines)
    BY <2>4, <2>5 DEF Scan
  <2>7. Head(stdout).kind \notin {"undecodable", "error"}
    BY <2>5 DEF HarmlessLines
  <2>8. \/ pc' = pc
        \/ id = 1 /\ pc' = "ask"
        \/ /\ id = 2 /\ pc' = "close"
           /\ IsResponse(Head(stdout), 2)
           /\ raw' = [ok |-> TRUE, result |-> Head(stdout).result]
    BY <2>4, <2>7 DEF Scan
  <2>9. ASSUME IsResponse(Head(stdout), 2)
        PROVE  /\ Head(stdout).result \in Results
               /\ Head(stdout).result.limits
               /\ ~Contradicts(Head(stdout).result)
    BY <2>5, <2>9 DEF HarmlessLines, IsResponse
  <2>10. UNCHANGED <<native, wrapper, stdinOpen, watcher, waitErr>>
    BY DEF Scan, execVars
  <2>11. raw' = [ok |-> TRUE, result |-> Head(stdout).result] =>
           raw'.ok /\ raw'.result = Head(stdout).result
    OBVIOUS
  <2> QED
    BY <2>1, <2>2, <2>3, <2>6, <2>8, <2>9, <2>10, <2>11 DEF Blameless, NoProcessYet
<1> QED
  BY <1>1, <1>2 DEF CauseInv

LEMMA CauseRead ==
  ASSUME CauseInv, ReadStep \/ CodexAdvance
  PROVE  CauseInv'
<1> USE DEF CauseInv, Blameless, NoProcessYet, execVars, processVars
<1>1. CASE \E ok \in BOOLEAN : Start(ok)
  <2>1. CASE Start(TRUE)
    BY <2>1 DEF Start
  <2>2. CASE Start(FALSE)
    <3> HIDE DEF Blameless
    <3>1. blamed' = TRUE
      BY <2>2 DEF Start
    <3> QED
      BY <3>1
  <2> QED
    BY <1>1, <2>1, <2>2
<1>2. CASE \E id \in {1, 2} : Send(id)
  BY <1>2 DEF Send, PipesHeld
<1>3. CASE \E id \in {1, 2} : Scan(id)
  BY <1>3, CauseScan
<1>4. CASE CloseStdin
  BY <1>4 DEF CloseStdin
<1>5. CASE Reap
  BY <1>5 DEF Reap
<1>6. CASE WatcherReturns
  BY <1>6 DEF WatcherReturns
<1>7. CASE Drain
  BY <1>7 DEF Drain
<1>8. CASE Decode
  <2>1. ~blamed => ~RefusesToDrop(raw.result)
    BY <1>8, KeysDiffer DEF Decode
  <2> QED
    BY <1>8, <2>1 DEF Decode, codexVars
<1>9. CASE CodexAdvance
  BY <1>9 DEF CodexAdvance, codexVars
<1> QED
  BY <1>1, <1>2, <1>3, <1>4, <1>5, <1>6, <1>7, <1>8, <1>9 DEF ReadStep

LEMMA CauseAnthropic ==
  ASSUME CauseInv, AnthropicNext, UNCHANGED codexVars
  PROVE  CauseInv'
<1> USE DEF CauseInv, Blameless, NoProcessYet, codexVars, execVars, processVars
<1>1. CASE \E found \in BOOLEAN : LoadCredentials(found)
  BY <1>1 DEF LoadCredentials
<1>2. CASE \E st \in {"200", "other"} : Do(st)
  BY <1>2 DEF Do
<1>3. CASE \E b \in Bodies : States(b)
  BY <1>3 DEF States
<1>4. CASE \E parses \in BOOLEAN : ReadBody(parses)
  BY <1>4 DEF ReadBody
<1>5. CASE HTTPFails
  BY <1>5 DEF HTTPFails
<1>6. CASE HTTPAdvance
  BY <1>6 DEF HTTPAdvance
<1> QED
  BY <1>1, <1>2, <1>3, <1>4, <1>5, <1>6 DEF AnthropicNext

LEMMA CauseRequest ==
  ASSUME CauseInv, (\E p \in {"anthropic", "codex", "unknown"} : Ask(p)) \/ Answer
  PROVE  CauseInv'
<1> USE DEF CauseInv, Blameless, NoProcessYet, codexVars, execVars, processVars
<1>1. CASE \E p \in {"anthropic", "codex", "unknown"} : Ask(p)
  BY <1>1 DEF Ask, Refuse, readerVars
<1>2. CASE Answer
  BY <1>2 DEF Answer, Store, BadGateway, readerVars
<1> QED
  BY <1>1, <1>2

(* A read fails only because of something outside this program, whatever   *)
(* the server says between its answers and however its exit falls between  *)
(* the steps of Wait.                                                      *)
THEOREM EveryFailureHasACauseHolds == Spec => []EveryFailureHasACause
<1>1. Init => CauseInv
  BY CauseInit
<1>2. CauseInv /\ [Next]_vars => CauseInv'
  <2> SUFFICES ASSUME CauseInv, [Next]_vars PROVE CauseInv'
    OBVIOUS
  <2>1. CASE Codex(CodexNext) \/ ClientLeaves
    <3>1. CodexNext \/ CallerLeaves
      BY <2>1 DEF Codex, ClientLeaves
    <3> QED
      BY <3>1, CauseChild, CauseRead DEF CodexNext
  <2>2. CASE Anthropic(AnthropicNext)
    BY <2>2, CauseAnthropic DEF Anthropic
  <2>3. CASE (\E p \in {"anthropic", "codex", "unknown"} : Ask(p)) \/ Answer
    BY <2>3, CauseRequest
  <2>4. CASE UNCHANGED vars
    BY <2>4 DEF vars, readerVars, codexVars, processVars, execVars, CauseInv, Blameless, NoProcessYet
  <2> QED
    BY <2>1, <2>2, <2>3, <2>4 DEF Next
<1>3. CauseInv => EveryFailureHasACause
  BY DEF CauseInv, Blameless, EveryFailureHasACause
<1> QED
  BY <1>1, <1>2, <1>3, PTL DEF Spec

-----------------------------------------------------------------------------
(* Every window under a key of its own. *)

(* The windows W are all given, and each once: each has its key, g says    *)
(* which, and there are no other keys.                                     *)
GivesAll(f, W) ==
  /\ {f[key] : key \in DOMAIN f} = W
  /\ \A key1, key2 \in DOMAIN f : f[key1] = f[key2] => key1 = key2

LEMMA EachItsKey ==
  ASSUME NEW W, NEW f, NEW g,
         DOMAIN f = {g[w] : w \in W},
         \A w \in W : f[g[w]] = w
  PROVE  GivesAll(f, W)
BY DEF GivesAll

LEMMA NoWindowsDomain == DOMAIN NoWindows = {}
BY DEF NoWindows

LEMMA NormalizeKeepsAll ==
  ASSUME NEW result, result = [limits |-> result.limits, primary |-> result.primary,
                               secondary |-> result.secondary],
         ~RefusesToDrop(result)
  PROVE  GivesAll(normalize(result), StatedWindows(result))
<1> DEFINE W == StatedWindows(result)
           g == [position \in W |-> keyForWindow(result[position], position)]
           first == addWindow(NoWindows, result, "primary")
           out == normalize(result)
           p == keyForWindow(result["primary"], "primary")
           s == keyForWindow(result["secondary"], "secondary")
<1>0. result["primary"] = result.primary /\ result["secondary"] = result.secondary
  OBVIOUS
<1>1. /\ "primary" \in W <=> result["primary"] # Absent
      /\ "secondary" \in W <=> result["secondary"] # Absent
      /\ W \subseteq {"primary", "secondary"}
  BY DEF StatedWindows
<1>2. "primary" \in W /\ "secondary" \in W => p # s
  BY <1>0, <1>1 DEF RefusesToDrop
<1>3. out = addWindow(first, result, "secondary")
  BY DEF normalize
<1>4. /\ "primary" \in W => first = Put(NoWindows, p, "primary")
      /\ "primary" \notin W => first = NoWindows
      /\ "secondary" \in W => out = Put(first, s, "secondary")
      /\ "secondary" \notin W => out = first
  BY <1>1, <1>3 DEF addWindow
<1>5. /\ "primary" \in W => g["primary"] = p
      /\ "secondary" \in W => g["secondary"] = s
  OBVIOUS
<1> HIDE DEF first, out, p, s, W
<1>6. IF "primary" \in W THEN DOMAIN first = {p} /\ first[p] = "primary" ELSE DOMAIN first = {}
  BY <1>4, NoWindowsDomain DEF Put
<1>7. /\ DOMAIN out = {g[w] : w \in W}
      /\ \A w \in W : out[g[w]] = w
  <2>1. CASE "secondary" \in W
    <3>1. /\ DOMAIN out = DOMAIN first \cup {s} /\ out[s] = "secondary"
          /\ \A k \in DOMAIN first : k # s => out[k] = first[k]
      BY <1>4, <2>1 DEF Put
    <3>2. CASE "primary" \in W
      <4>1. W = {"primary", "secondary"} /\ {g[w] : w \in W} = {g["primary"], g["secondary"]}
        BY <1>1, <2>1, <3>2
      <4> QED
        BY <1>2, <1>5, <1>6, <2>1, <3>1, <3>2, <4>1
    <3>3. CASE "primary" \notin W
      <4>1. W = {"secondary"}
        BY <1>1, <2>1, <3>3
      <4> QED
        BY <1>5, <1>6, <2>1, <3>1, <3>3, <4>1
    <3> QED
      BY <3>2, <3>3
  <2>2. CASE "secondary" \notin W
    <3>1. out = first
      BY <1>4, <2>2
    <3>2. CASE "primary" \in W
      <4>1. W = {"primary"}
        BY <1>1, <2>2, <3>2
      <4> QED
        BY <1>5, <1>6, <3>1, <3>2, <4>1
    <3>3. CASE "primary" \notin W
      <4>1. W = {}
        BY <1>1, <2>2, <3>3
      <4> QED
        BY <1>6, <3>1, <3>3, <4>1
    <3> QED
      BY <3>2, <3>3
  <2> QED
    BY <2>1, <2>2
<1> HIDE DEF g
<1> QED
  BY <1>7, EachItsKey DEF out, W

(* What a body states. *)
Stated(b) == b.rolling \cup (IF b.extra = "enabled" THEN {"extra_usage"} ELSE {})

LEMMA WindowsKeepsAll ==
  ASSUME NEW b \in Bodies
  PROVE  GivesAll(Windows(b), Stated(b))
<1> DEFINE W == Stated(b)
           g == [w \in W |-> <<w>>]
           rolling == [k \in {<<key>> : key \in b.rolling} |-> k[1]]
           out == Windows(b)
<1>4. DOMAIN rolling = {<<key>> : key \in b.rolling} /\ \A key \in b.rolling : rolling[<<key>>] = key
  OBVIOUS
<1>5. out = IF b.extra = "enabled" THEN Put(rolling, <<"extra_usage">>, "extra_usage") ELSE rolling
  BY DEF Windows
<1> HIDE DEF rolling, out
<1>6. DOMAIN out = {<<w>> : w \in W} /\ \A w \in W : out[<<w>>] = w
  <2>1. CASE b.extra = "enabled"
    <3>1. /\ DOMAIN out = DOMAIN rolling \cup {<<"extra_usage">>}
          /\ out[<<"extra_usage">>] = "extra_usage"
          /\ \A k \in DOMAIN rolling : k # <<"extra_usage">> => out[k] = rolling[k]
      BY <1>5, <2>1 DEF Put
    <3>2. W = b.rolling \cup {"extra_usage"}
      BY <2>1 DEF Stated
    <3>3. ASSUME NEW w \in W PROVE out[<<w>>] = w
      <4>1. CASE w = "extra_usage"
        BY <3>1, <4>1
      <4>2. CASE w # "extra_usage"
        <5>1. w \in b.rolling /\ <<w>> # <<"extra_usage">>
          BY <3>2, <3>3, <4>2
        <5> QED
          BY <1>4, <3>1, <5>1
      <4> QED
        BY <4>1, <4>2
    <3>4. DOMAIN out = {<<w>> : w \in W}
      BY <1>4, <3>1, <3>2
    <3> QED
      BY <3>3, <3>4
  <2>2. CASE b.extra # "enabled"
    BY <1>4, <1>5, <2>2 DEF Stated
  <2> QED
    BY <2>1, <2>2
<1> HIDE DEF W
<1>7. DOMAIN out = {g[w] : w \in W} /\ \A w \in W : out[g[w]] = w
  BY <1>6
<1> HIDE DEF g
<1> QED
  BY <1>7, EachItsKey DEF out, W

-----------------------------------------------------------------------------
(* The promise is kept. *)

CodexSteps == {"start", "initialize", "await1", "ask", "await2", "close", "wait",
               "result", "drain", "decode"}
HTTPSteps == {"credentials", "request", "body"}

(* Lines of which a result of the second request is what was replied. *)
TrueLines ==
  {line \in [kind : {"notification", "request", "result", "error", "undecodable"},
             id : 0 .. 2, result : Results] :
    line.kind = "result" /\ line.id = 2 =>
      reply.made /\ reply.windows = StatedWindows(line.result)}

(* Who runs which steps. *)
Roles ==
  /\ pc \in {"idle", "ok", "failed"} \cup CodexSteps \cup HTTPSteps
  /\ provider \in {"none", "anthropic", "codex", "unknown"}
  /\ pc \in CodexSteps => provider = "codex"
  /\ pc \in HTTPSteps => provider = "anthropic"
  /\ pc \in {"ok", "failed"} => provider \in {"anthropic", "codex"}
  /\ provider # "codex" => native # "alive" /\ wrapper # "alive" /\ watcher = "none" /\ pending = {}

(* How far the clock is: the timeout ends the watching, and WaitDelay      *)
(* starts no later than that.                                              *)
Clock ==
  /\ time \in Nat /\ expiry \in Nat /\ expiry <= Longest
  /\ provider = "codex" => time <= Longest
  /\ provider # "codex" => time <= HTTPTimeout
  /\ pc \in {"idle", "credentials", "start"} => time = 0
  /\ watcher \in {"none", "watching", "killed", "returned"}
  /\ watcher = "watching" => time <= Timeout
  /\ watcher = "killed" => native # "alive" /\ wrapper # "alive"
  /\ pc \in {"initialize", "await1", "ask", "await2", "close", "wait", "result"} =>
       watcher \in {"watching", "killed"}

(* What has been replied, and that it is what the read holds. *)
Faithful ==
  /\ reply \in [made : BOOLEAN,
                windows : SUBSET (RollingKeys \cup {"extra_usage", "primary", "secondary"})]
  /\ body \in Bodies
  /\ pending \subseteq {1, 2}
  /\ 2 \in pending => ~reply.made
  /\ pc \in {"idle", "credentials", "request", "start", "initialize", "await1", "ask"} =>
       ~reply.made /\ 2 \notin pending
  /\ stdout \in Seq(TrueLines)
  /\ raw \in [ok : BOOLEAN, result : Results]
  /\ raw.ok => reply.made /\ reply.windows = StatedWindows(raw.result)
  /\ pc = "body" /\ reply.made => reply.windows = Stated(body)

Kept == Roles /\ Clock /\ Faithful

LEMMA Constants ==
  /\ Timeout \in Nat /\ WaitDelay \in Nat /\ HTTPTimeout \in Nat
  /\ Longest \in Nat /\ Longest = Timeout + WaitDelay
BY CodexAssumption, AnthropicAssumption DEF Longest

LEMMA KeptInit == Init => Kept
<1> SUFFICES ASSUME Init PROVE Kept
  OBVIOUS
<1>1. Roles
  BY DEF Init, ReaderInit, CodexInit, Roles, CodexSteps, HTTPSteps
<1>2. Clock
  BY Constants DEF Init, ReaderInit, CodexInit, Clock
<1>3. Faithful
  <2>1. stdout = << >>
    BY DEF Init, CodexInit
  <2>2. stdout \in Seq(TrueLines)
    BY <2>1
  <2>3. NoBody \in Bodies
    BY DEF NoBody, Bodies, Extras
  <2>4. NoRaw \in [ok : BOOLEAN, result : Results] /\ ~NoRaw.ok
    BY DEF NoRaw, Results
  <2> QED
    BY <2>2, <2>3, <2>4 DEF Init, ReaderInit, AnthropicInit, CodexInit, Faithful
<1> QED
  BY <1>1, <1>2, <1>3 DEF Kept

(* The lines in the pipe and what the exchange has returned stay true when *)
(* the reply does not change.                                              *)
LEMMA SameReply ==
  ASSUME UNCHANGED reply
  PROVE  TrueLines' = TrueLines
BY DEF TrueLines

LEMMA FirstReply ==
  ASSUME ~reply.made
  PROVE  TrueLines \subseteq TrueLines'
BY DEF TrueLines

(* The steps that write no line, take none and state nothing. *)
Keeps == UNCHANGED <<reply, body, stdout, raw>> /\ pending' = pending

LEMMA FaithfulKept ==
  ASSUME Faithful, Keeps,
         pc' \in {"idle", "credentials", "request", "start", "initialize", "await1", "ask"} =>
           pc \in {"idle", "credentials", "request", "start", "initialize", "await1", "ask"},
         pc' = "body" => pc \in {"body", "request"}
  PROVE  Faithful'
<1>1. stdout' \in Seq(TrueLines')
  BY SameReply DEF Keeps, Faithful
<1>2. pc' = "body" /\ reply.made => pc = "body"
  BY DEF Faithful
<1> QED
  BY <1>1, <1>2 DEF Keeps, Faithful

LEMMA KeptChild ==
  ASSUME Kept, UNCHANGED <<requestVars, anthropicVars>>,
         \/ \E line \in OwnLines : ServerSpeaks(line)
         \/ ServerAnswers(1, NoResult)
         \/ \E result \in Results : ServerAnswers(2, result)
         \/ \E line \in BadLines : ServerFails(line)
         \/ NativeExits
         \/ \E code \in {"exited0", "exited1"} : WrapperExits(code)
         \/ WatcherFires
         \/ CallerLeaves
  PROVE  Kept'
<1> USE DEF Kept
<1>0. NoResult \in Results
  BY DEF Results
<1>1. ASSUME NEW line, Write(line), line \in TrueLines', pending' \subseteq pending,
             \/ UNCHANGED reply
             \/ /\ ~reply.made /\ 2 \notin pending' /\ 2 \in pending
                /\ reply' \in [made : BOOLEAN, windows : SUBSET {"primary", "secondary"}]
      PROVE  Kept'
  <2>1. /\ native = "alive" /\ stdout' = Append(stdout, line)
        /\ UNCHANGED <<wrapper, native, watcher, expiry, raw, pc, time, provider, body>>
    BY <1>1 DEF Write, execVars, requestVars, anthropicVars
  <2>2. provider = "codex" /\ pc \notin HTTPSteps
    BY <2>1 DEF Roles, HTTPSteps
  <2>3. Roles'
    BY <2>1, <2>2 DEF Roles
  <2>4. Clock'
    BY <2>1 DEF Clock, Longest
  <2>5. stdout' \in Seq(TrueLines')
    <3>1. TrueLines \subseteq TrueLines'
      BY <1>1, SameReply, FirstReply
    <3>2. stdout \in Seq(TrueLines')
      BY <3>1 DEF Faithful
    <3> QED
      BY <1>1, <2>1, <3>2
  <2>6. CASE UNCHANGED reply
    <3>1. pc' # "body"
      BY <2>1, <2>2 DEF HTTPSteps
    <3>2. Faithful'
      BY <1>1, <2>1, <2>5, <2>6, <3>1 DEF Faithful
    <3> QED
      BY <2>3, <2>4, <3>2
  <2>7. CASE /\ ~reply.made /\ 2 \notin pending' /\ 2 \in pending
             /\ reply' \in [made : BOOLEAN, windows : SUBSET {"primary", "secondary"}]
    <3>1. ~raw.ok /\ pc' # "body"
      BY <2>1, <2>2, <2>7 DEF Faithful, HTTPSteps
    <3>2. pc' \notin {"idle", "credentials", "request", "start", "initialize", "await1", "ask"}
      BY <2>1, <2>7 DEF Faithful
    <3>3. reply' \in [made : BOOLEAN,
                      windows : SUBSET (RollingKeys \cup {"extra_usage", "primary", "secondary"})]
      BY <2>7
    <3>4. Faithful'
      BY <1>1, <2>1, <2>5, <2>7, <3>1, <3>2, <3>3 DEF Faithful
    <3> QED
      BY <2>3, <2>4, <3>4
  <2>8. QED
    BY <1>1, <2>3, <2>4, <2>6, <2>7
<1>2. ASSUME NEW line \in OwnLines, ServerSpeaks(line) PROVE Kept'
  <2>1. UNCHANGED reply /\ pending' = pending /\ Write(line)
    BY <1>2 DEF ServerSpeaks
  <2>2. line \in TrueLines'
    BY <1>0, <2>1 DEF OwnLines, Line, TrueLines
  <2> QED
    BY <1>1, <2>1, <2>2
<1>3. CASE ServerAnswers(1, NoResult)
  <2>1. UNCHANGED reply /\ pending' \subseteq pending /\ Write(Line("result", 1, NoResult))
    BY <1>3 DEF ServerAnswers
  <2>2. Line("result", 1, NoResult) \in TrueLines'
    BY <1>0, <2>1 DEF Line, TrueLines
  <2> QED
    BY <1>1, <2>1, <2>2
<1>4. ASSUME NEW result \in Results, ServerAnswers(2, result) PROVE Kept'
  <2>1. /\ 2 \in pending /\ pending' = pending \ {2} /\ Write(Line("result", 2, result))
        /\ reply' = [made |-> TRUE, windows |-> StatedWindows(result)]
    BY <1>4 DEF ServerAnswers
  <2>2. Line("result", 2, result) \in TrueLines'
    BY <2>1 DEF Line, TrueLines
  <2>3. StatedWindows(result) \subseteq {"primary", "secondary"}
    BY DEF StatedWindows
  <2>4. reply' \in [made : BOOLEAN, windows : SUBSET {"primary", "secondary"}]
    BY <2>1, <2>3
  <2>5. ~reply.made
    BY <2>1 DEF Faithful
  <2> QED
    BY <1>1, <2>1, <2>2, <2>4, <2>5
<1>5. ASSUME NEW line \in BadLines, ServerFails(line) PROVE Kept'
  <2>1. UNCHANGED reply /\ pending' \subseteq pending /\ Write(line)
    BY <1>5 DEF ServerFails
  <2>2. line \in TrueLines'
    BY <1>0, <2>1 DEF BadLines, Line, TrueLines
  <2> QED
    BY <1>1, <2>1, <2>2
<1>6. CASE \/ NativeExits \/ \E code \in {"exited0", "exited1"} : WrapperExits(code)
           \/ WatcherFires \/ CallerLeaves
  <2>1. Keeps /\ UNCHANGED <<pc, provider, time>>
    BY <1>6 DEF Keeps, NativeExits, WrapperExits, WatcherFires, CallerLeaves, processVars,
                requestVars, anthropicVars
  <2>2. Roles'
    BY <1>6, <2>1 DEF Roles, Keeps, NativeExits, WrapperExits, WatcherFires, Kill, CallerLeaves,
                      processVars, execVars
  <2>3. Clock'
    <3>1. CASE WatcherFires
      <4>1. time + WaitDelay \in Nat /\ time + WaitDelay <= Longest
        BY <3>1, Constants DEF WatcherFires, Clock
      <4> QED
        BY <2>1, <3>1, <4>1 DEF WatcherFires, Kill, Clock, Longest
    <3>2. CASE NativeExits \/ \E code \in {"exited0", "exited1"} : WrapperExits(code)
      BY <2>1, <3>2 DEF Clock, NativeExits, WrapperExits, execVars, Longest
    <3>3. CASE CallerLeaves
      BY <2>1, <3>3 DEF Clock, CallerLeaves, execVars, processVars, Longest
    <3> QED
      BY <1>6, <3>1, <3>2, <3>3
  <2>4. Faithful'
    BY <2>1, FaithfulKept
  <2> QED
    BY <2>2, <2>3, <2>4
<1> QED
  BY <1>2, <1>3, <1>4, <1>5, <1>6

LEMMA KeptRead ==
  ASSUME Kept, UNCHANGED <<requestVars, anthropicVars>>, ReadStep \/ CodexAdvance
  PROVE  Kept'
<1> USE DEF Kept
<1>0. provider' = provider /\ body' = body
  BY DEF requestVars, anthropicVars
<1>1. ASSUME NEW ok \in BOOLEAN, Start(ok) PROVE Kept'
  <2>1. Keeps /\ pc = "start" /\ pc' \in {"initialize", "failed"} /\ UNCHANGED <<time, expiry>>
    BY <1>0, <1>1 DEF Start, Keeps
  <2>2. provider = "codex"
    BY <2>1 DEF Roles, CodexSteps
  <2>3. Roles'
    BY <1>0, <2>1, <2>2 DEF Roles, CodexSteps, HTTPSteps
  <2>4. \/ wrapper' = "alive" /\ native' = "alive" /\ watcher' = "watching"
        \/ pc' = "failed" /\ UNCHANGED <<wrapper, native, watcher>>
    BY <1>1 DEF Start
  <2>5. Clock'
    BY <1>0, <2>1, <2>2, <2>4, Constants DEF Clock, Longest
  <2>6. Faithful'
    BY <2>1, FaithfulKept
  <2> QED
    BY <2>3, <2>5, <2>6
<1>2. ASSUME NEW id \in {1, 2}, Send(id) PROVE Kept'
  <2>1. /\ UNCHANGED <<reply, body, stdout, raw, time, native, wrapper, watcher, expiry>>
        /\ pc \in {"initialize", "ask"} /\ pc' \in {"await1", "await2", "close"}
        /\ pending' \subseteq pending \cup {id}
        /\ id = 1 => pc' # "await2" /\ pc = "initialize"
        /\ id = 2 => pc' # "await1" /\ pc = "ask"
    BY <1>0, <1>2 DEF Send, execVars
  <2>2. provider = "codex" /\ ~reply.made /\ 2 \notin pending
    BY <2>1 DEF Roles, CodexSteps, Faithful
  <2>3. Roles'
    BY <1>0, <2>1, <2>2 DEF Roles, CodexSteps, HTTPSteps
  <2>4. Clock'
    BY <1>0, <2>1, <2>2 DEF Clock, Longest
  <2>5. stdout' \in Seq(TrueLines')
    BY <2>1, SameReply DEF Faithful
  <2>6. pending' \subseteq {1, 2}
    BY <2>1 DEF Faithful
  <2>7. pc' = "await1" => 2 \notin pending'
    BY <2>1, <2>2
  <2>8. Faithful'
    BY <2>1, <2>2, <2>5, <2>6, <2>7 DEF Faithful
  <2> QED
    BY <2>3, <2>4, <2>8
<1>3. ASSUME NEW id \in {1, 2}, Scan(id) PROVE Kept'
  <2>1. /\ UNCHANGED <<reply, body, pending, time, native, wrapper, watcher, expiry>>
        /\ pc = IF id = 1 THEN "await1" ELSE "await2"
        /\ pc' = pc \/ pc' = "close" \/ (id = 1 /\ pc' = "ask")
        /\ stdout' = stdout \/ (stdout # << >> /\ stdout' = Tail(stdout))
    BY <1>0, <1>3 DEF Scan, execVars
  <2>2. provider = "codex"
    BY <2>1 DEF Roles, CodexSteps
  <2>3. Roles'
    BY <1>0, <2>1, <2>2 DEF Roles, CodexSteps, HTTPSteps
  <2>4. Clock'
    BY <1>0, <2>1, <2>2 DEF Clock, Longest
  <2>5. stdout' \in Seq(TrueLines) /\ (stdout # << >> => Head(stdout) \in TrueLines)
    BY <2>1 DEF Faithful
  <2>6. stdout' \in Seq(TrueLines')
    BY <2>1, <2>5, SameReply
  <2>7. \/ raw' = raw
        \/ /\ stdout # << >> /\ id = 2
           /\ IsResponse(Head(stdout), 2) /\ Head(stdout).kind \notin {"undecodable", "error"}
           /\ raw' = [ok |-> TRUE, result |-> Head(stdout).result]
    BY <1>3 DEF Scan
  <2>8. raw' \in [ok : BOOLEAN, result : Results] /\
        (raw'.ok => reply.made /\ reply.windows = StatedWindows(raw'.result))
    <3>1. CASE raw' = raw
      BY <3>1 DEF Faithful
    <3>2. CASE /\ stdout # << >> /\ id = 2
               /\ IsResponse(Head(stdout), 2) /\ Head(stdout).kind \notin {"undecodable", "error"}
               /\ raw' = [ok |-> TRUE, result |-> Head(stdout).result]
      <4>1. /\ Head(stdout).result \in Results
            /\ reply.made /\ reply.windows = StatedWindows(Head(stdout).result)
        BY <2>5, <3>2 DEF TrueLines, IsResponse
      <4>2. raw'.result = Head(stdout).result
        BY <3>2
      <4> QED
        BY <3>2, <4>1, <4>2
    <3> QED
      BY <2>7, <3>1, <3>2
  <2>9. Faithful'
    BY <2>1, <2>6, <2>8 DEF Faithful
  <2> QED
    BY <2>3, <2>4, <2>9
<1>4. CASE CloseStdin \/ Reap
  <2>1. /\ Keeps /\ UNCHANGED <<time, native, watcher, expiry>>
        /\ pc \in {"close", "wait"} /\ pc' \in {"wait", "result"}
        /\ wrapper' = wrapper \/ wrapper' = "reaped"
    BY <1>0, <1>4 DEF CloseStdin, Reap, Keeps, processVars, execVars
  <2>2. Roles'
    BY <1>0, <2>1 DEF Roles, CodexSteps, HTTPSteps, Keeps
  <2>3. Clock'
    BY <1>0, <2>1 DEF Clock, Longest
  <2>4. Faithful'
    BY <2>1, FaithfulKept
  <2> QED
    BY <2>2, <2>3, <2>4
<1>5. CASE WatcherReturns
  <2>1. /\ Keeps /\ UNCHANGED <<time, native, wrapper>>
        /\ pc = "result" /\ pc' = "drain"
    BY <1>0, <1>5 DEF WatcherReturns, Keeps, processVars
  <2>2. provider = "codex" /\ watcher \in {"watching", "killed"}
    BY <2>1 DEF Roles, CodexSteps, Clock
  <2>3. Roles'
    BY <1>0, <2>1, <2>2 DEF Roles, CodexSteps, HTTPSteps
  <2>4. \/ watcher = "killed" /\ UNCHANGED <<watcher, expiry>>
        \/ watcher = "watching" /\ watcher' = "returned" /\ expiry' = time + WaitDelay
    BY <1>5, <2>2 DEF WatcherReturns
  <2>5. watcher = "watching" => time + WaitDelay \in Nat /\ time + WaitDelay <= Longest
    BY Constants DEF Clock
  <2>6. Clock'
    BY <1>0, <2>1, <2>4, <2>5 DEF Clock, Longest
  <2>7. Faithful'
    BY <2>1, FaithfulKept
  <2> QED
    BY <2>3, <2>6, <2>7
<1>6. CASE Drain \/ Decode
  <2>1. /\ Keeps /\ UNCHANGED <<time, native, wrapper, watcher, expiry>>
        /\ pc \in {"drain", "decode"} /\ pc' \in {"decode", "ok", "failed"}
    BY <1>0, <1>6 DEF Drain, Decode, Keeps, codexVars, processVars, execVars
  <2>2. Roles'
    BY <1>0, <2>1 DEF Roles, CodexSteps, HTTPSteps, Keeps
  <2>3. Clock'
    BY <1>0, <2>1 DEF Clock, Longest
  <2>4. Faithful'
    BY <2>1, FaithfulKept
  <2> QED
    BY <2>2, <2>3, <2>4
<1>7. CASE CodexAdvance
  <2>1. /\ Keeps /\ UNCHANGED <<pc, native, wrapper, watcher, expiry>>
        /\ time' = time + 1 /\ pc \in {"await1", "await2", "wait", "drain"}
    BY <1>0, <1>7 DEF CodexAdvance, Keeps, codexVars, processVars, execVars
  <2>2. provider = "codex" /\ time < Longest /\ (watcher = "watching" => time < Timeout)
    BY <1>7, <2>1, Constants DEF CodexAdvance, CtxDone, PipesHeld, Roles, CodexSteps, Clock
  <2>3. Roles'
    BY <1>0, <2>1 DEF Roles, Keeps
  <2>4. Clock'
    BY <1>0, <2>1, <2>2, Constants DEF Clock
  <2>5. Faithful'
    BY <2>1, FaithfulKept
  <2> QED
    BY <2>3, <2>4, <2>5
<1> QED
  BY <1>1, <1>2, <1>3, <1>4, <1>5, <1>6, <1>7 DEF ReadStep

LEMMA KeptAnthropic ==
  ASSUME Kept, AnthropicNext, UNCHANGED <<requestVars, codexVars>>
  PROVE  Kept'
<1> USE DEF Kept
<1>0. /\ UNCHANGED <<provider, stdout, raw, pending, native, wrapper, watcher, expiry>>
  BY DEF requestVars, codexVars, processVars, execVars
<1>1. /\ pc \in HTTPSteps /\ pc' \in HTTPSteps \cup {"ok", "failed"}
      /\ pc' = "credentials" => pc = "credentials"
      /\ time' = time \/ (time < HTTPTimeout /\ time' = time + 1 /\ pc' = pc /\ pc # "credentials")
  BY DEF AnthropicNext, LoadCredentials, Do, States, ReadBody, HTTPFails, HTTPAdvance, HTTPSteps
<1>2. provider = "anthropic"
  BY <1>1 DEF Roles
<1>3. Roles'
  BY <1>0, <1>1, <1>2 DEF Roles, HTTPSteps, CodexSteps
<1>4. Clock'
  BY <1>0, <1>1, <1>2, Constants DEF Clock, HTTPSteps, Roles
<1>5. Faithful'
  <2>1. CASE \E b \in Bodies : States(b)
    <3>1. PICK b \in Bodies : States(b)
      BY <2>1
    <3>2. /\ pc = "body" /\ pc' = "body" /\ ~reply.made /\ body' = b
          /\ reply' = [made |-> TRUE, windows |-> Stated(b)]
      BY <3>1 DEF States, Stated
    <3>3. Stated(b) \subseteq RollingKeys \cup {"extra_usage"}
      BY DEF Stated, Bodies
    <3>4. stdout' \in Seq(TrueLines')
      BY <1>0, <3>2, FirstReply DEF Faithful
    <3>5. reply'.windows = Stated(body') /\
          reply' \in [made : BOOLEAN,
                      windows : SUBSET (RollingKeys \cup {"extra_usage", "primary", "secondary"})]
      BY <3>2, <3>3
    <3>6. ~raw.ok /\ pending = {}
      BY <1>2, <3>2 DEF Faithful, Roles
    <3> QED
      BY <1>0, <3>2, <3>4, <3>5, <3>6 DEF Faithful
  <2>2. CASE ~\E b \in Bodies : States(b)
    <3>1. UNCHANGED <<reply, body>> /\ (pc' = "body" => pc \in {"body", "request"}) /\
          (pc' = "request" => pc \in {"credentials", "request"})
      BY <2>2 DEF AnthropicNext, LoadCredentials, Do, ReadBody, HTTPFails, HTTPAdvance, anthropicVars
    <3>2. Keeps
      BY <1>0, <3>1 DEF Keeps
    <3> QED
      BY <1>1, <3>1, <3>2, FaithfulKept DEF HTTPSteps
  <2> QED
    BY <2>1, <2>2
<1> QED
  BY <1>3, <1>4, <1>5

LEMMA KeptRequest ==
  ASSUME Kept, (\E p \in {"anthropic", "codex", "unknown"} : Ask(p)) \/ Answer
  PROVE  Kept'
<1> USE DEF Kept
<1>1. /\ Keeps /\ UNCHANGED <<time, native, wrapper, watcher, expiry>>
      /\ \/ pc' = pc /\ provider' = provider
         \/ /\ pc = "idle" /\ provider = "none"
            /\ \/ pc' = "idle" /\ provider' \in {"anthropic", "codex", "unknown"}
               \/ pc' = "start" /\ provider' = "codex"
               \/ pc' = "credentials" /\ provider' = "anthropic"
  BY DEF Ask, Refuse, Answer, Store, BadGateway, Keeps, readerVars, codexVars, processVars,
         execVars, anthropicVars
<1>2. Roles'
  BY <1>1 DEF Roles, CodexSteps, HTTPSteps, Keeps
<1>3. Clock'
  BY <1>1, Constants DEF Clock, Longest
<1>4. Faithful'
  BY <1>1, FaithfulKept
<1> QED
  BY <1>2, <1>3, <1>4

LEMMA KeptNext == Kept /\ [Next]_vars => Kept'
<1> SUFFICES ASSUME Kept, [Next]_vars PROVE Kept'
  OBVIOUS
<1>1. CASE Codex(CodexNext) \/ ClientLeaves
  <2>1. (CodexNext \/ CallerLeaves) /\ UNCHANGED <<requestVars, anthropicVars>>
    BY <1>1 DEF Codex, ClientLeaves
  <2> QED
    BY <2>1, KeptChild, KeptRead DEF CodexNext
<1>2. CASE Anthropic(AnthropicNext)
  BY <1>2, KeptAnthropic DEF Anthropic
<1>3. CASE (\E p \in {"anthropic", "codex", "unknown"} : Ask(p)) \/ Answer
  BY <1>3, KeptRequest
<1>4. CASE UNCHANGED vars
  <2>1. Keeps /\ UNCHANGED <<pc, provider, time, native, wrapper, watcher, expiry>>
    BY <1>4 DEF vars, Keeps, readerVars, anthropicVars, codexVars, processVars, execVars, requestVars
  <2>2. Roles'
    BY <2>1 DEF Kept, Roles, Keeps
  <2>3. Clock'
    BY <2>1 DEF Kept, Clock, Longest
  <2> QED
    BY <2>1, <2>2, <2>3, FaithfulKept DEF Kept
<1> QED
  BY <1>1, <1>2, <1>3, <1>4 DEF Next

(* The phase of the promise, as RefreshRequest maps it, and what maps to   *)
(* each of its actions.                                                    *)
Phase == IF pc \in {"idle", "ok", "failed"} THEN pc ELSE "reading"

LEMMA PromiseStutters ==
  ASSUME UNCHANGED <<reply, given, time, provider>>, Phase' = Phase,
         pc' = "idle" <=> pc = "idle"
  PROVE  UNCHANGED Promise!vars
BY DEF Promise!vars, Budget, Phase

LEMMA PromiseFails ==
  ASSUME UNCHANGED <<reply, given, time, provider>>, Phase = "reading", pc' = "failed"
  PROVE  Promise!Next
<1>1. Budget' = Budget
  BY DEF Budget, Phase
<1> QED
  BY <1>1 DEF Promise!Next, Promise!Fail, Phase

LEMMA PromisePasses ==
  ASSUME Kept, UNCHANGED <<reply, given, pc, provider>>, Phase = "reading",
         time' = time + 1, time < Budget
  PROVE  Promise!Next
<1>1. Budget' = Budget /\ Budget \in Nat /\ time \in Nat
  BY Constants DEF Budget, Kept, Clock
<1>2. Budget - time > 0 /\ Budget' - time' = (Budget - time) - 1
  BY <1>1
<1>3. Phase' = Phase
  BY DEF Phase
<1>4. Promise!Pass
  BY <1>2, <1>3 DEF Promise!Pass, Phase
<1> QED
  BY <1>4 DEF Promise!Next

LEMMA PromiseReplies ==
  ASSUME UNCHANGED <<given, pc, time, provider>>, ~reply.made, reply'.made
  PROVE  Promise!Next
<1>1. Budget' = Budget
  BY DEF Budget
<1> QED
  BY <1>1 DEF Promise!Next, Promise!Reply

LEMMA PromiseSucceeds ==
  ASSUME UNCHANGED <<reply, time, provider>>, Phase = "reading", pc' = "ok", reply.made,
         GivesAll(given', reply.windows)
  PROVE  Promise!Next
<1>1. Budget' = Budget
  BY DEF Budget, Phase
<1> QED
  BY <1>1 DEF Promise!Next, Promise!Succeed, Phase, GivesAll

LEMMA PromiseCodex ==
  ASSUME Kept, CodexNext \/ CallerLeaves, UNCHANGED <<requestVars, anthropicVars>>
  PROVE  [Promise!Next]_(Promise!vars)
<1>0. provider' = provider
  BY DEF requestVars
<1>1. CASE \/ \E line \in OwnLines : ServerSpeaks(line)
           \/ ServerAnswers(1, NoResult)
           \/ \E line \in BadLines : ServerFails(line)
           \/ NativeExits
           \/ \E code \in {"exited0", "exited1"} : WrapperExits(code)
           \/ WatcherFires
           \/ CallerLeaves
  <2>1. UNCHANGED <<reply, given, time, pc>>
    BY <1>1 DEF ServerSpeaks, ServerAnswers, ServerFails, Write, NativeExits, WrapperExits,
                WatcherFires, CallerLeaves
  <2> QED
    BY <1>0, <2>1, PromiseStutters DEF Phase
<1>2. ASSUME NEW result \in Results, ServerAnswers(2, result) PROVE Promise!Next
  <2>1. UNCHANGED <<given, time, pc>> /\ reply'.made /\ 2 \in pending
    BY <1>2 DEF ServerAnswers, Write
  <2>2. ~reply.made
    BY <2>1 DEF Kept, Faithful
  <2> QED
    BY <1>0, <2>1, <2>2, PromiseReplies
<1>3. ASSUME NEW ok \in BOOLEAN, Start(ok) PROVE [Promise!Next]_(Promise!vars)
  <2>1. UNCHANGED <<reply, given, time>> /\ pc = "start" /\ pc' \in {"initialize", "failed"}
    BY <1>3 DEF Start
  <2> QED
    BY <1>0, <2>1, PromiseStutters, PromiseFails DEF Phase
<1>4. CASE \/ \E id \in {1, 2} : Send(id) \/ Scan(id)
           \/ CloseStdin \/ Reap \/ WatcherReturns \/ Drain
  <2>1. UNCHANGED <<reply, given, time>> /\ Phase = "reading" /\ Phase' = "reading"
    BY <1>4 DEF Send, Scan, CloseStdin, Reap, WatcherReturns, Drain, Phase
  <2> QED
    BY <1>0, <2>1, PromiseStutters DEF Phase
<1>5. CASE Decode
  <2>1. UNCHANGED <<reply, time>> /\ Phase = "reading"
    BY <1>5 DEF Decode, Phase
  <2>2. CASE raw.ok /\ ~waitErr /\ raw.result.limits /\ ~RefusesToDrop(raw.result)
    <3>1. pc' = "ok" /\ given' = normalize(raw.result)
      BY <1>5, <2>2 DEF Decode
    <3>2. reply.made /\ reply.windows = StatedWindows(raw.result)
      BY <2>2 DEF Kept, Faithful
    <3>3. raw.result = [limits |-> raw.result.limits, primary |-> raw.result.primary,
                        secondary |-> raw.result.secondary]
      <4>1. raw.result \in Results
        BY DEF Kept, Faithful
      <4> QED
        BY <4>1 DEF Results, NoResult
    <3>4. GivesAll(given', StatedWindows(raw.result))
      BY <2>2, <3>1, <3>3, NormalizeKeepsAll
    <3> QED
      BY <1>0, <2>1, <3>1, <3>2, <3>4, PromiseSucceeds
  <2>3. CASE ~(raw.ok /\ ~waitErr /\ raw.result.limits /\ ~RefusesToDrop(raw.result))
    <3>1. pc' = "failed" /\ UNCHANGED given
      BY <1>5, <2>3 DEF Decode
    <3> QED
      BY <1>0, <2>1, <3>1, PromiseFails
  <2> QED
    BY <2>2, <2>3
<1>6. CASE CodexAdvance
  <2>1. UNCHANGED <<reply, given, pc>> /\ time' = time + 1 /\
        pc \in {"await1", "await2", "wait", "drain"}
    BY <1>6 DEF CodexAdvance
  <2>2. provider = "codex" /\ time < Longest
    BY <1>6, <2>1, Constants DEF CodexAdvance, CtxDone, PipesHeld, Kept, Roles, CodexSteps, Clock
  <2>3. time < Budget /\ Phase = "reading"
    BY <2>1, <2>2 DEF Budget, Phase
  <2> QED
    BY <1>0, <2>1, <2>3, PromisePasses
<1> QED
  BY <1>1, <1>2, <1>3, <1>4, <1>5, <1>6 DEF CodexNext, ReadStep

LEMMA PromiseAnthropic ==
  ASSUME Kept, AnthropicNext, UNCHANGED <<requestVars, codexVars>>
  PROVE  [Promise!Next]_(Promise!vars)
<1>0. provider' = provider
  BY DEF requestVars
<1>1. CASE (\E found \in BOOLEAN : LoadCredentials(found)) \/ HTTPFails
           \/ \E st \in {"200", "other"} : Do(st)
  <2>1. UNCHANGED <<reply, given, time>> /\ Phase = "reading" /\ pc' \in {"request", "body", "failed"}
    BY <1>1 DEF LoadCredentials, HTTPFails, Do, Phase
  <2> QED
    BY <1>0, <2>1, PromiseStutters, PromiseFails DEF Phase
<1>2. ASSUME NEW b \in Bodies, States(b) PROVE Promise!Next
  <2>1. UNCHANGED <<given, pc, time>> /\ ~reply.made /\ reply'.made
    BY <1>2 DEF States
  <2> QED
    BY <1>0, <2>1, PromiseReplies
<1>3. ASSUME NEW parses \in BOOLEAN, ReadBody(parses) PROVE Promise!Next
  <2>1. UNCHANGED <<reply, time>> /\ Phase = "reading" /\ pc = "body" /\ reply.made
    BY <1>3 DEF ReadBody, Phase
  <2>2. CASE pc' = "failed"
    <3>1. UNCHANGED given
      BY <1>3, <2>2 DEF ReadBody
    <3> QED
      BY <1>0, <2>1, <2>2, <3>1, PromiseFails
  <2>3. CASE pc' # "failed"
    <3>1. pc' = "ok" /\ given' = Windows(body)
      BY <1>3, <2>3 DEF ReadBody
    <3>2. body \in Bodies /\ reply.windows = Stated(body)
      BY <2>1 DEF Kept, Faithful
    <3>3. GivesAll(given', Stated(body))
      BY <3>1, <3>2, WindowsKeepsAll
    <3> QED
      BY <1>0, <2>1, <3>1, <3>2, <3>3, PromiseSucceeds
  <2> QED
    BY <2>2, <2>3
<1>4. CASE HTTPAdvance
  <2>1. /\ UNCHANGED <<reply, given, pc>> /\ time' = time + 1 /\ time < HTTPTimeout
        /\ pc \in {"request", "body"}
    BY <1>4 DEF HTTPAdvance
  <2>2. provider = "anthropic"
    BY <2>1 DEF Kept, Roles, HTTPSteps
  <2>3. time < Budget /\ Phase = "reading"
    BY <2>1, <2>2 DEF Budget, Phase
  <2> QED
    BY <1>0, <2>1, <2>3, PromisePasses
<1> QED
  BY <1>1, <1>2, <1>3, <1>4 DEF AnthropicNext

LEMMA PromiseRequest ==
  ASSUME Kept, (\E p \in {"anthropic", "codex", "unknown"} : Ask(p)) \/ Answer
  PROVE  [Promise!Next]_(Promise!vars)
<1>1. UNCHANGED <<reply, given, time>>
  BY DEF Ask, Refuse, Answer, Store, BadGateway, readerVars
<1>2. CASE UNCHANGED <<pc, provider>>
  BY <1>1, <1>2, PromiseStutters DEF Phase
<1>3. CASE pc = "idle" /\ pc' = "idle"
  BY <1>1, <1>3 DEF Promise!vars, Budget
<1>4. CASE pc = "idle" /\ pc' \in {"start", "credentials"}
  <2>1. Budget' \in Nat /\ time' = 0
    BY <1>1, <1>4, Constants DEF Budget, Kept, Clock
  <2>2. \A n \in Nat : n - 0 \in Nat
    OBVIOUS
  <2>3. Budget' - time' \in Nat
    <3>1. PICK n \in Nat : n = Budget'
      BY <2>1
    <3>2. n - time' \in Nat
      BY <2>1, <2>2
    <3> QED
      BY <3>1, <3>2
  <2> QED
    BY <1>1, <1>4, <2>3 DEF Promise!Next, Promise!Begin
<1> QED
  BY <1>2, <1>3, <1>4 DEF Ask, Refuse, Answer, Store, BadGateway, readerVars, requestVars

(* Both collectors keep the promise of LimitsRead: a read ends within the  *)
(* time it was given at the start, failed or with every window stated.     *)
THEOREM PromiseKept == Spec => KeepsPromise
<1>1. Init => Promise!Init
  BY DEF Init, ReaderInit, Promise!Init, Budget, NoWindows
<1>2. Kept /\ [Next]_vars => [Promise!Next]_(Promise!vars)
  <2> SUFFICES ASSUME Kept, [Next]_vars PROVE [Promise!Next]_(Promise!vars)
    OBVIOUS
  <2>1. CASE Codex(CodexNext) \/ ClientLeaves
    BY <2>1, PromiseCodex DEF Codex, ClientLeaves
  <2>2. CASE Anthropic(AnthropicNext)
    BY <2>2, PromiseAnthropic DEF Anthropic
  <2>3. CASE (\E p \in {"anthropic", "codex", "unknown"} : Ask(p)) \/ Answer
    BY <2>3, PromiseRequest
  <2>4. CASE UNCHANGED vars
    BY <2>4, PromiseStutters DEF vars, readerVars, requestVars, Phase
  <2> QED
    BY <2>1, <2>2, <2>3, <2>4 DEF Next
<1> QED
  BY <1>1, <1>2, KeptInit, KeptNext, PTL DEF Spec, KeepsPromise, Promise!Spec

-----------------------------------------------------------------------------
(* The type. *)

(* What Kept does not say of it. *)
Plain ==
  /\ blamed \in BOOLEAN /\ stdinOpen \in BOOLEAN /\ cancelled \in BOOLEAN
  /\ waitErr \in BOOLEAN /\ codexOn \in BOOLEAN /\ stored \in BOOLEAN
  /\ status \in {"none", "200", "other"} /\ response \in {0, 200, 400, 500, 502, 503}
  /\ wrapper \in {"none", "alive", "exited0", "exited1", "reaped"}
  /\ native \in {"none", "alive", "gone"}
  /\ Len(stdout) <= PipeSize

LEMMA PlainType == Kept /\ Plain => RequestTypeOK
<1> SUFFICES ASSUME Kept, Plain PROVE RequestTypeOK
  OBVIOUS
<1>1. time \in 0 .. (IF provider = "codex" THEN Longest ELSE HTTPTimeout)
  BY Constants DEF Kept, Clock
<1>2. expiry \in 0 .. Longest
  BY Constants DEF Kept, Clock
<1> QED
  BY <1>1, <1>2 DEF Kept, Plain, Roles, Clock, Faithful, CodexSteps, HTTPSteps, RequestTypeOK

LEMMA PlainPipe ==
  ASSUME Kept, NEW line, Len(stdout) < PipeSize
  PROVE  Len(Append(stdout, line)) <= PipeSize
<1>1. stdout \in Seq(TrueLines) /\ PipeSize \in Nat
  BY CodexAssumption DEF Kept, Faithful
<1>2. Len(Append(stdout, line)) = Len(stdout) + 1 /\ Len(stdout) \in Nat
  BY <1>1
<1> QED
  BY <1>1, <1>2

LEMMA PlainNext == Kept /\ Plain /\ [Next]_vars => Plain'
<1> SUFFICES ASSUME Kept, Plain, [Next]_vars PROVE Plain'
  OBVIOUS
<1> USE DEF Plain
<1>1. CASE Codex(ReadStep \/ CodexAdvance)
  <2>0. UNCHANGED <<requestVars, anthropicVars>> /\ UNCHANGED cancelled /\ blamed' \in BOOLEAN
    BY <1>1 DEF Codex, ReadStep, CodexAdvance, Start, Send, Scan, CloseStdin, Reap,
                WatcherReturns, Drain, Decode, codexVars
  <2>1. wrapper' \in {wrapper, "alive", "reaped"} /\ native' \in {native, "alive"} /\ stdinOpen' \in BOOLEAN
    BY <1>1 DEF Codex, ReadStep, CodexAdvance, Start, Send, Scan, CloseStdin, Reap,
                WatcherReturns, Drain, Decode, codexVars, processVars
  <2>2. waitErr' \in BOOLEAN
    BY <1>1 DEF Codex, ReadStep, CodexAdvance, Start, Send, Scan, CloseStdin, Reap,
                WatcherReturns, Drain, Decode, codexVars, processVars, execVars
  <2>3. stdout' = stdout \/ (stdout # << >> /\ stdout' = Tail(stdout))
    BY <1>1 DEF Codex, ReadStep, CodexAdvance, Start, Send, Scan, CloseStdin, Reap,
                WatcherReturns, Drain, Decode, codexVars, processVars
  <2>4. Len(stdout') <= PipeSize
    <3>1. stdout \in Seq(TrueLines) /\ PipeSize \in Nat
      BY CodexAssumption DEF Kept, Faithful
    <3> QED
      BY <2>3, <3>1
  <2> QED
    BY <2>0, <2>1, <2>2, <2>4 DEF requestVars, anthropicVars
<1>2. CASE Codex(\/ \E line \in OwnLines : ServerSpeaks(line)
                 \/ ServerAnswers(1, NoResult)
                 \/ \E result \in Results : ServerAnswers(2, result)
                 \/ \E line \in BadLines : ServerFails(line))
  <2>1. PICK line : /\ Write(line) /\ Len(stdout) < PipeSize /\ blamed' \in BOOLEAN
                    /\ UNCHANGED <<requestVars, anthropicVars>>
    BY <1>2 DEF Codex, ServerSpeaks, ServerAnswers, ServerFails
  <2> QED
    BY <2>1, PlainPipe DEF Write, execVars, requestVars, anthropicVars
<1>3. CASE Codex(\/ NativeExits \/ \E code \in {"exited0", "exited1"} : WrapperExits(code)
                 \/ WatcherFires) \/ ClientLeaves
  <2>1. blamed' \in BOOLEAN /\ cancelled' \in BOOLEAN
    BY <1>3 DEF Codex, ClientLeaves, NativeExits, WrapperExits, WatcherFires, CallerLeaves
  <2>2. /\ UNCHANGED <<stdinOpen, waitErr, stdout, requestVars, anthropicVars>>
        /\ wrapper' \in {wrapper, "exited0", "exited1"} /\ native' \in {native, "gone"}
    BY <1>3 DEF Codex, ClientLeaves, NativeExits, WrapperExits, WatcherFires, Kill, CallerLeaves,
                processVars, execVars
  <2> QED
    BY <2>1, <2>2 DEF requestVars, anthropicVars
<1>4. CASE Anthropic(AnthropicNext)
  <2>1. blamed' \in BOOLEAN
    BY <1>4 DEF Anthropic, AnthropicNext, LoadCredentials, Do, States, ReadBody, HTTPFails,
                HTTPAdvance
  <2>2. status' \in {"none", "200", "other"}
    BY <1>4 DEF Anthropic, AnthropicNext, LoadCredentials, Do, States, ReadBody, HTTPFails,
                HTTPAdvance, anthropicVars
  <2>3. UNCHANGED <<requestVars, codexVars>>
    BY <1>4 DEF Anthropic
  <2> QED
    BY <2>1, <2>2, <2>3 DEF requestVars, codexVars, processVars, execVars
<1>5. CASE (\E p \in {"anthropic", "codex", "unknown"} : Ask(p)) \/ Answer
  <2>1. UNCHANGED <<blamed, codexOn, anthropicVars, codexVars>>
    BY <1>5 DEF Ask, Refuse, Answer, Store, BadGateway, readerVars
  <2>2. response' \in {response, 200, 400, 500, 502, 503}
    BY <1>5 DEF Ask, Refuse, Answer, Store, BadGateway
  <2>3. stored' \in BOOLEAN
    <3>1. stored' = stored \/ \E err \in BOOLEAN : Store(err)
      BY <1>5 DEF Ask, Refuse, Answer, BadGateway
    <3>2. ASSUME NEW err \in BOOLEAN, Store(err) PROVE stored' \in BOOLEAN
      BY <3>2, Zenon DEF Store
    <3> QED
      BY <3>1, <3>2
  <2> QED
    BY <2>1, <2>2, <2>3 DEF anthropicVars, codexVars, processVars, execVars
<1>6. CASE UNCHANGED vars
  BY <1>6 DEF vars, readerVars, anthropicVars, codexVars, processVars, execVars, requestVars
<1> HIDE DEF Plain
<1>7. CASE Codex(CodexNext)
  BY <1>1, <1>2, <1>3, <1>7 DEF Codex, CodexNext
<1> QED
  BY <1>3, <1>4, <1>5, <1>6, <1>7 DEF Next

(* Type correctness of RefreshRequest: no clock or deadline runs past its  *)
(* bound.                                                                  *)
THEOREM RequestTypeCorrect == Spec => []RequestTypeOK
<1>1. ASSUME Init PROVE Plain
  <2>1. stdout = << >>
    BY <1>1 DEF Init, CodexInit
  <2>2. Len(stdout) <= PipeSize
    BY <2>1, CodexAssumption
  <2> QED
    BY <1>1, <2>2 DEF Init, ReaderInit, AnthropicInit, CodexInit, Plain
<1> QED
  BY <1>1, KeptInit, KeptNext, PlainNext, PlainType, PTL DEF Spec
=============================================================================
