---------------------------- MODULE WindowProofs ----------------------------
(***************************************************************************)
(* Proofs about the Mac settings window: the queue of its calls to main,   *)
(* and the life of the configuration file under it.                        *)
(***************************************************************************)
EXTENDS SettingsWindow, ConfigFile, ListProofs, SequenceTheorems, TLAPS

(***************************************************************************)
(* The window.  WindowIInv follows the calls that are still to be handled: *)
(* main handles them in order, so those of a closed window or pane come    *)
(* before those of the one that is open.                                   *)
(***************************************************************************)
Asked(ops, args) == [op : ops, arg : args, mine : BOOLEAN]
Requests ==
    Asked({"getConfig", "getSnapshot"}, {Unknown})
    \cup Asked({"setConfig"}, [next : Configs, previous : Configs])
    \cup Asked({"getSwitch"}, Switches)
    \cup Asked({"setSwitch"}, [switch : Switches, on : BOOLEAN])
    \cup Asked({"setAutomation"}, BOOLEAN)

QueueTypeOK ==
    /\ requests \in Seq(Requests)
    /\ \A i \in 1 .. Len(requests) : requests[i].mine => open
    /\ devicePane => open

\* The configuration that is shown will be the saved one: a load under way is the
\* last call about it, and edits are made of what was loaded.
ConfigQueue ==
    /\ \A i \in 1 .. Len(requests) :
          /\ requests[i].op \in ConfigOps /\ open /\ config # Unknown => requests[i].mine
          /\ requests[i].op = "setConfig" /\ requests[i].mine => config # Unknown
          /\ requests[i].op = "getConfig" /\ requests[i].mine =>
                /\ config = Unknown
                /\ \A j \in 1 .. Len(requests) : i < j => requests[j].op \notin ConfigOps
    /\ open /\ config # Unknown =>
          config = disk \/ error \/ \E i \in 1 .. Len(requests) : requests[i].op \in ConfigOps

SwitchOf(call) == IF call.op = "getSwitch" THEN call.arg ELSE call.arg.switch
AsksFor(call, s) == call.mine /\ call.op \in SwitchOps /\ SwitchOf(call) = s

\* A switch that is shown will be set by a call under way, or is right and no call of
\* a pane that is gone can change it.
SwitchQueue ==
    /\ \A i \in 1 .. Len(requests) : requests[i].op \in SwitchOps /\ requests[i].mine =>
          /\ devicePane
          /\ \A j \in 1 .. Len(requests) :
                i < j /\ requests[j].op \in SwitchOps => requests[j].mine
    /\ devicePane => \A s \in Switches :
          \/ \E i \in 1 .. Len(requests) : AsksFor(requests[i], s)
          \/ /\ shownSwitch[s] = installed[s]
             /\ \A i \in 1 .. Len(requests) : requests[i].op \in SwitchOps => requests[i].mine

WindowIInv == WindowTypeOK /\ QueueTypeOK /\ ConfigQueue /\ SwitchQueue

\* The calls of the kinds ops are the same in r as in q, d places earlier.
SameCall(a, b) == a.op = b.op /\ a.arg = b.arg /\ a.mine = b.mine
Follows(q, r, d, ops) ==
    /\ \A i \in 1 .. Len(r) : r[i].op \in ops => i + d \in 1 .. Len(q) /\ SameCall(r[i], q[i + d])
    /\ \A i \in 1 .. Len(q) : q[i].op \in ops => i - d \in 1 .. Len(r) /\ SameCall(r[i - d], q[i])

LEMMA InvokeFacts ==
  ASSUME NEW q \in Seq(Requests), NEW calls \in Seq(Requests)
  PROVE  /\ q \o calls \in Seq(Requests) /\ Len(q \o calls) = Len(q) + Len(calls)
         /\ Len(q) \in Nat /\ Len(calls) \in Nat
         /\ \A i \in 1 .. Len(q) : (q \o calls)[i] = q[i]
         /\ \A i \in 1 .. Len(calls) : (q \o calls)[Len(q) + i] = calls[i]
  OBVIOUS

LEMMA HandledFacts ==
  ASSUME NEW q \in Seq(Requests), q # <<>>
  PROVE  /\ Tail(q) \in Seq(Requests) /\ Len(Tail(q)) = Len(q) - 1 /\ Len(q) \in Nat /\ Len(q) >= 1
         /\ Head(q) = q[1] /\ q[1] \in Requests
         /\ \A i \in 1 .. Len(q) - 1 : Tail(q)[i] = q[i + 1]
  OBVIOUS

LEMMA OrphanedFacts ==
  ASSUME requests \in Seq(Requests), NEW ops
  PROVE  /\ Orphaned(ops) \in Seq(Requests) /\ Len(Orphaned(ops)) = Len(requests)
         /\ \A i \in 1 .. Len(requests) :
               /\ Orphaned(ops)[i].op = requests[i].op /\ Orphaned(ops)[i].arg = requests[i].arg
               /\ Orphaned(ops)[i].mine = (requests[i].mine /\ requests[i].op \notin ops)
<1> DEFINE orphan(call) == [call EXCEPT !.mine = @ /\ call.op \notin ops]
<1>1. Len(requests) \in Nat /\ DOMAIN requests = 1 .. Len(requests)
      /\ \A i \in 1 .. Len(requests) : requests[i] \in Requests
  OBVIOUS
<1>2. ASSUME NEW call \in Requests
      PROVE  /\ orphan(call).op = call.op /\ orphan(call).arg = call.arg
             /\ orphan(call).mine = (call.mine /\ call.op \notin ops)
             /\ orphan(call) \in Requests
  <2>1. PICK mayOp, mayArg : call \in Asked(mayOp, mayArg) /\ Asked(mayOp, mayArg) \subseteq Requests
    BY DEF Requests
  <2>2. (call.mine /\ call.op \notin ops) \in BOOLEAN
    BY Zenon
  <2>3. QED
    BY <2>1, <2>2 DEF Asked
<1>3. Orphaned(ops) = [i \in 1 .. Len(requests) |-> orphan(requests[i])]
  BY <1>1 DEF Orphaned
<1> HIDE DEF orphan
<1>4. \A i \in 1 .. Len(requests) : Orphaned(ops)[i] = orphan(requests[i])
  BY <1>3
<1>5. Orphaned(ops) \in Seq(Requests) /\ Len(Orphaned(ops)) = Len(requests)
  BY <1>1, <1>2, <1>3
<1>6. QED
  BY <1>1, <1>2, <1>4, <1>5

LEMMA FollowsInvoke ==
  ASSUME NEW q \in Seq(Requests), NEW calls \in Seq(Requests), NEW ops,
         \A i \in 1 .. Len(calls) : calls[i].op \notin ops
  PROVE  Follows(q, q \o calls, 0, ops)
<1> DEFINE r == q \o calls
           n == Len(q)
           m == Len(calls)
<1>1. /\ Len(r) = n + m /\ n \in Nat /\ m \in Nat
      /\ \A i \in 1 .. n : r[i] = q[i]
      /\ \A i \in 1 .. m : r[n + i] = calls[i]
  BY InvokeFacts
<1>2. \A i \in 1 .. m : calls[i].op \notin ops
  OBVIOUS
<1> HIDE DEF r, n, m
<1>3. ASSUME NEW i \in 1 .. n + m, r[i].op \in ops PROVE i \in 1 .. n
  <2>1. CASE i > n
    <3>1. i - n \in 1 .. m /\ n + (i - n) = i
      BY <1>1, <2>1
    <3>2. QED
      BY <1>1, <1>2, <1>3, <3>1
  <2>2. QED
    BY <1>1, <2>1
<1>4. \A i \in 1 .. n : i + 0 = i /\ i - 0 = i /\ i \in 1 .. n + m
  BY <1>1
<1>5. Follows(q, r, 0, ops)
  BY <1>1, <1>3, <1>4 DEF Follows, SameCall, n
<1>6. QED
  BY <1>5 DEF r

LEMMA FollowsHandled ==
  ASSUME NEW q \in Seq(Requests), q # <<>>, NEW ops, Head(q).op \notin ops
  PROVE  Follows(q, Tail(q), 1, ops)
<1> DEFINE r == Tail(q)
           n == Len(q)
<1>1. /\ Len(r) = n - 1 /\ n \in Nat /\ n >= 1
      /\ \A i \in 1 .. n - 1 : r[i] = q[i + 1]
      /\ q[1].op \notin ops
  BY HandledFacts
<1> HIDE DEF r, n
<1>2. \A i \in 1 .. n - 1 : i + 1 \in 1 .. n
  BY <1>1
<1>3. ASSUME NEW i \in 1 .. n, q[i].op \in ops
      PROVE  i - 1 \in 1 .. n - 1 /\ r[i - 1] = q[i]
  <2>1. i # 1
    BY <1>1, <1>3
  <2>2. i - 1 \in 1 .. n - 1 /\ (i - 1) + 1 = i
    BY <1>1, <2>1
  <2>3. QED
    BY <1>1, <2>2
<1>4. Follows(q, r, 1, ops)
  BY <1>1, <1>2, <1>3 DEF Follows, SameCall, n
<1>5. QED
  BY <1>4 DEF r

LEMMA FollowsOrphaned ==
  ASSUME requests \in Seq(Requests), NEW gone, NEW ops, gone \cap ops = {}
  PROVE  Follows(requests, Orphaned(gone), 0, ops)
<1> DEFINE r == Orphaned(gone)
           n == Len(requests)
<1>1. /\ Len(r) = n /\ n \in Nat
      /\ \A i \in 1 .. n : /\ r[i].op = requests[i].op /\ r[i].arg = requests[i].arg
                           /\ r[i].mine = (requests[i].mine /\ requests[i].op \notin gone)
                           /\ requests[i].mine \in BOOLEAN
  BY OrphanedFacts DEF Requests, Asked
<1> HIDE DEF r, n
<1>2. \A i \in 1 .. n : i + 0 = i /\ i - 0 = i
  BY <1>1
<1>3. \A i \in 1 .. n : r[i].op \in ops \/ requests[i].op \in ops => SameCall(r[i], requests[i])
  BY <1>1 DEF SameCall
<1>4. Follows(requests, r, 0, ops)
  BY <1>1, <1>2, <1>3 DEF Follows, n
<1>5. QED
  BY <1>4 DEF r

\* What concerns neither the configuration nor its calls.
LEMMA ConfigFollows ==
  ASSUME QueueTypeOK, requests' \in Seq(Requests), ConfigQueue, NEW d \in {0, 1}, Follows(requests, requests', d, ConfigOps),
         UNCHANGED <<open, config, error, disk>>
  PROVE  ConfigQueue'
<1> DEFINE n == Len(requests)
           m == Len(requests')
<1>1. /\ n \in Nat /\ m \in Nat
      /\ \A i \in 1 .. m : requests'[i].op \in ConfigOps =>
            /\ i + d \in 1 .. n
            /\ requests'[i].op = requests[i + d].op /\ requests'[i].mine = requests[i + d].mine
      /\ \A i \in 1 .. n : requests[i].op \in ConfigOps =>
            i - d \in 1 .. m /\ requests'[i - d].op = requests[i].op
  BY DEF Follows, SameCall, QueueTypeOK
<1>2. {"getConfig", "setConfig"} = ConfigOps
  BY DEF ConfigOps
<1> HIDE DEF n, m
<1>3. /\ \A i \in 1 .. n :
          /\ requests[i].op \in ConfigOps /\ open /\ config # Unknown => requests[i].mine
          /\ requests[i].op = "setConfig" /\ requests[i].mine => config # Unknown
          /\ requests[i].op = "getConfig" /\ requests[i].mine =>
                /\ config = Unknown
                /\ \A j \in 1 .. n : i < j => requests[j].op \notin ConfigOps
      /\ open /\ config # Unknown =>
          config = disk \/ error \/ \E i \in 1 .. n : requests[i].op \in ConfigOps
  BY DEF ConfigQueue, n
<1>4. ASSUME NEW i \in 1 .. m, requests'[i].op \in ConfigOps
      PROVE  /\ open' /\ config' # Unknown => requests'[i].mine
             /\ requests'[i].op = "setConfig" /\ requests'[i].mine => config' # Unknown
             /\ requests'[i].op = "getConfig" /\ requests'[i].mine => config' = Unknown
  BY <1>1, <1>3, <1>4
<1>5. ASSUME NEW i \in 1 .. m, requests'[i].op = "getConfig", requests'[i].mine,
             NEW j \in 1 .. m, i < j
      PROVE  requests'[j].op \notin ConfigOps
  <2>1. requests[i + d].op = "getConfig" /\ requests[i + d].mine /\ i + d \in 1 .. n
    BY <1>1, <1>2, <1>5
  <2>2. i + d < j + d
    BY <1>1, <1>5
  <2>3. QED
    BY <1>1, <1>3, <2>1, <2>2
<1>6. open' /\ config' # Unknown =>
          config' = disk' \/ error' \/ \E i \in 1 .. m : requests'[i].op \in ConfigOps
  BY <1>1, <1>3
<1>7. QED
  BY <1>2, <1>4, <1>5, <1>6 DEF ConfigQueue, m

LEMMA FollowsAgain ==
  ASSUME NEW q \in Seq(Requests), q # <<>>, NEW call \in Requests, NEW ops,
         Head(q).op \notin ops, call.op \notin ops
  PROVE  Follows(q, Append(Tail(q), call), 1, ops)
<1> DEFINE r == Append(Tail(q), call)
           n == Len(q)
<1>1. /\ Len(r) = n /\ n \in Nat /\ n >= 1
      /\ \A i \in 1 .. n - 1 : r[i] = q[i + 1]
      /\ q[1].op \notin ops /\ r[n].op \notin ops
  <2>1. /\ Tail(q) \in Seq(Requests) /\ Len(Tail(q)) = n - 1 /\ n \in Nat /\ n >= 1
        /\ Head(q) = q[1] /\ \A i \in 1 .. n - 1 : Tail(q)[i] = q[i + 1]
    BY HandledFacts
  <2>2. /\ Len(r) = Len(Tail(q)) + 1 /\ r[Len(Tail(q)) + 1] = call
        /\ \A i \in 1 .. Len(Tail(q)) : r[i] = Tail(q)[i]
    BY <2>1
  <2>3. QED
    BY <2>1, <2>2
<1> HIDE DEF r, n
<1>2. ASSUME NEW i \in 1 .. n, r[i].op \in ops
      PROVE  i + 1 \in 1 .. n /\ r[i] = q[i + 1]
  <2>1. i # n
    BY <1>1, <1>2
  <2>2. i \in 1 .. n - 1
    BY <1>1, <2>1
  <2>3. QED
    BY <1>1, <2>2
<1>3. ASSUME NEW i \in 1 .. n, q[i].op \in ops
      PROVE  i - 1 \in 1 .. n /\ r[i - 1] = q[i]
  <2>1. i # 1
    BY <1>1, <1>3
  <2>2. i - 1 \in 1 .. n - 1 /\ (i - 1) + 1 = i /\ i - 1 \in 1 .. n
    BY <1>1, <2>1
  <2>3. QED
    BY <1>1, <2>2
<1>4. Follows(q, r, 1, ops)
  BY <1>1, <1>2, <1>3 DEF Follows, SameCall, n
<1>5. QED
  BY <1>4 DEF r

\* What concerns neither a switch nor its calls.
LEMMA SwitchFollows ==
  ASSUME QueueTypeOK, requests' \in Seq(Requests), SwitchQueue, NEW d \in {0, 1}, Follows(requests, requests', d, SwitchOps),
         UNCHANGED <<devicePane, shownSwitch, installed>>
  PROVE  SwitchQueue'
<1> DEFINE n == Len(requests)
           m == Len(requests')
<1>1. /\ n \in Nat /\ m \in Nat
      /\ \A i \in 1 .. m : requests'[i].op \in SwitchOps =>
            i + d \in 1 .. n /\ SameCall(requests'[i], requests[i + d])
      /\ \A i \in 1 .. n : requests[i].op \in SwitchOps =>
            i - d \in 1 .. m /\ SameCall(requests'[i - d], requests[i])
  BY DEF Follows, QueueTypeOK
<1> HIDE DEF n, m
<1>2. \A i \in 1 .. n : requests[i].op \in SwitchOps /\ requests[i].mine =>
          /\ devicePane
          /\ \A j \in 1 .. n : i < j /\ requests[j].op \in SwitchOps => requests[j].mine
  BY DEF SwitchQueue, n
<1>3. ASSUME NEW i \in 1 .. m, requests'[i].op \in SwitchOps, requests'[i].mine
      PROVE  /\ devicePane'
             /\ \A j \in 1 .. m : i < j /\ requests'[j].op \in SwitchOps => requests'[j].mine
  <2>1. i + d \in 1 .. n /\ requests[i + d].op \in SwitchOps /\ requests[i + d].mine
    BY <1>1, <1>3 DEF SameCall
  <2>2. ASSUME NEW j \in 1 .. m, i < j, requests'[j].op \in SwitchOps PROVE requests'[j].mine
    <3>1. j + d \in 1 .. n /\ requests[j + d].op \in SwitchOps
          /\ requests'[j].mine = requests[j + d].mine
      BY <1>1, <2>2 DEF SameCall
    <3>2. i + d < j + d
      BY <1>1, <2>2
    <3>3. QED
      BY <1>2, <2>1, <3>1, <3>2
  <2>3. QED
    BY <1>2, <2>1, <2>2
<1>4. ASSUME NEW s \in Switches, NEW i \in 1 .. n, AsksFor(requests[i], s)
      PROVE  \E j \in 1 .. m : AsksFor(requests'[j], s)
  <2>1. i - d \in 1 .. m /\ SameCall(requests'[i - d], requests[i])
    BY <1>1, <1>4 DEF AsksFor
  <2>2. AsksFor(requests'[i - d], s)
    BY <1>4, <2>1 DEF AsksFor, SwitchOf, SameCall
  <2>3. QED
    BY <2>1, <2>2
<1>5. ASSUME \A i \in 1 .. n : requests[i].op \in SwitchOps => requests[i].mine
      PROVE  \A i \in 1 .. m : requests'[i].op \in SwitchOps => requests'[i].mine
  BY <1>1, <1>5 DEF SameCall
<1>6. ASSUME devicePane', NEW s \in Switches
      PROVE  \/ \E i \in 1 .. m : AsksFor(requests'[i], s)
             \/ /\ shownSwitch'[s] = installed'[s]
                /\ \A i \in 1 .. m : requests'[i].op \in SwitchOps => requests'[i].mine
  <2>1. \/ \E i \in 1 .. n : AsksFor(requests[i], s)
        \/ /\ shownSwitch[s] = installed[s]
           /\ \A i \in 1 .. n : requests[i].op \in SwitchOps => requests[i].mine
    BY <1>6 DEF SwitchQueue, n
  <2>2. CASE \E i \in 1 .. n : AsksFor(requests[i], s)
    BY <1>4, <2>2
  <2>3. CASE shownSwitch[s] = installed[s]
             /\ \A i \in 1 .. n : requests[i].op \in SwitchOps => requests[i].mine
    BY <1>5, <2>3
  <2>4. QED
    BY <2>1, <2>2, <2>3
<1>7. QED
  BY <1>3, <1>6 DEF SwitchQueue, AsksFor, m

\* What main finds in a call.
LEMMA RequestFacts ==
  ASSUME NEW call \in Requests
  PROVE  /\ call.mine \in BOOLEAN
         /\ call.op = "setConfig" => call.arg.next \in Configs /\ call.arg.previous \in Configs
         /\ call.op = "getSwitch" => call.arg \in Switches
         /\ call.op = "setSwitch" => call.arg.switch \in Switches /\ call.arg.on \in BOOLEAN
         /\ call.op = "setAutomation" => call.arg \in BOOLEAN
  BY DEF Requests, Asked

LEMMA CallFacts ==
  /\ GetConfig \in Requests /\ GetConfig.op = "getConfig" /\ GetConfig.mine
  /\ GetSnapshot \in Requests /\ GetSnapshot.op = "getSnapshot" /\ GetSnapshot.mine
  /\ \A next, previous \in Configs :
        /\ SetConfig(next, previous) \in Requests
        /\ SetConfig(next, previous).op = "setConfig" /\ SetConfig(next, previous).mine
  /\ \A s \in Switches :
        GetSwitch(s) \in Requests /\ GetSwitch(s).op = "getSwitch" /\ AsksFor(GetSwitch(s), s)
  /\ \A s \in Switches, on \in BOOLEAN :
        /\ SetSwitch(s, on) \in Requests /\ SetSwitch(s, on).op = "setSwitch"
        /\ AsksFor(SetSwitch(s, on), s)
  /\ \A on \in BOOLEAN :
        /\ SetAutomation(on) \in Requests
        /\ SetAutomation(on).op = "setAutomation" /\ SetAutomation(on).mine
  BY DEF Requests, Asked, Call, GetConfig, GetSnapshot, SetConfig, GetSwitch, SetSwitch,
         SetAutomation, AsksFor, SwitchOf, SwitchOps

\* The queue stays one of calls, those of an open window apart.
LEMMA InvokeStep ==
  ASSUME QueueTypeOK, NEW calls \in Seq(Requests), Invoke(calls), open', open => open',
         WindowTypeOK
  PROVE  /\ requests' = requests \o calls /\ requests' \in Seq(Requests)
         /\ \A i \in 1 .. Len(requests') : requests'[i].mine => open'
         /\ Len(requests') <= MaxInvokes
<1>1. requests' = requests \o calls /\ Len(requests) + Len(calls) <= MaxInvokes
  BY DEF Invoke
<1>2. requests \in Seq(Requests)
  BY DEF QueueTypeOK
<1>3. requests' \in Seq(Requests) /\ Len(requests') = Len(requests) + Len(calls)
  BY <1>1, <1>2, InvokeFacts
<1>4. QED
  BY <1>1, <1>3

LEMMA HandledStep ==
  ASSUME QueueTypeOK, WindowTypeOK, requests # <<>>, UNCHANGED open,
         NEW call \in Requests, call.mine => open,
         requests' = Tail(requests) \/ requests' = Append(Tail(requests), call)
  PROVE  /\ requests' \in Seq(Requests) /\ Len(requests') <= MaxInvokes
         /\ \A i \in 1 .. Len(requests') : requests'[i].mine => open'
<1>1. requests \in Seq(Requests) /\ Len(requests) <= MaxInvokes /\ MaxInvokes \in Nat
      /\ \A i \in 1 .. Len(requests) : requests[i].mine => open
  BY WindowAssumption DEF QueueTypeOK, WindowTypeOK
<1>2. /\ Tail(requests) \in Seq(Requests) /\ Len(Tail(requests)) = Len(requests) - 1
      /\ Len(requests) \in Nat /\ Len(requests) >= 1
      /\ \A i \in 1 .. Len(requests) - 1 : Tail(requests)[i] = requests[i + 1]
  BY <1>1, HandledFacts
<1>3. \A i \in 1 .. Len(requests) - 1 : i + 1 \in 1 .. Len(requests)
  BY <1>2
<1>4. CASE requests' = Tail(requests)
  BY <1>1, <1>2, <1>3, <1>4
<1>5. CASE requests' = Append(Tail(requests), call)
  <2> DEFINE n == Len(requests)
             t == Tail(requests)
  <2>1. /\ requests' \in Seq(Requests) /\ Len(requests') = Len(t) + 1
        /\ \A i \in 1 .. Len(t) : requests'[i] = t[i]
        /\ requests'[Len(t) + 1] = call
    BY <1>2, <1>5
  <2>2. /\ n \in Nat /\ n >= 1 /\ n <= MaxInvokes /\ Len(t) = n - 1
        /\ \A i \in 1 .. n - 1 : t[i] = requests[i + 1] /\ i + 1 \in 1 .. n
        /\ \A i \in 1 .. n : requests[i].mine => open
    BY <1>1, <1>2, <1>3
  <2> HIDE DEF n, t
  <2>3. (n - 1) + 1 = n
    BY <2>2
  <2>4. Len(requests') = n /\ requests'[n] = call
    BY <2>1, <2>2, <2>3
  <2>5. ASSUME NEW i \in 1 .. n, requests'[i].mine PROVE open
    <3>1. CASE i = n
      BY <2>4, <2>5, <3>1
    <3>2. CASE i # n
      <4>1. i \in 1 .. n - 1
        BY <2>2, <3>2
      <4>2. requests'[i] = requests[i + 1]
        BY <2>1, <2>2, <4>1
      <4>3. QED
        BY <2>2, <2>5, <4>1, <4>2
    <3>3. QED
      BY <3>1, <3>2
  <2>6. QED
    BY <2>1, <2>2, <2>4, <2>5
<1>6. QED
  BY <1>4, <1>5

\* Types, for what the user does.
LEMMA UserTypeStep ==
  ASSUME WindowTypeOK, QueueTypeOK, UserActs
  PROVE  WindowTypeOK' /\ QueueTypeOK'
<1>1. /\ disk \in Configs /\ installed \in [Switches -> BOOLEAN]
      /\ coreUp \in BOOLEAN /\ coreStatus \in BOOLEAN /\ open \in BOOLEAN
      /\ saving \in BOOLEAN /\ error \in BOOLEAN /\ devicePane \in BOOLEAN
      /\ latestSnapshot \in BOOLEAN \cup {Unknown} /\ snapshot \in BOOLEAN \cup {Unknown}
      /\ config \in Configs \cup {Unknown}
      /\ shownSwitch \in [Switches -> BOOLEAN \cup {Unknown}]
      /\ switchError \in [Switches -> BOOLEAN]
      /\ Len(requests) <= MaxInvokes
      /\ requests \in Seq(Requests) /\ devicePane => open
      /\ \A i \in 1 .. Len(requests) : requests[i].mine => open
  BY DEF WindowTypeOK, QueueTypeOK
<1>2. \A a, b \in Requests : <<a>> \in Seq(Requests) /\ <<a, b>> \in Seq(Requests)
  OBVIOUS
<1>3. NoSwitches \in [Switches -> BOOLEAN \cup {Unknown}] /\ NoErrors \in [Switches -> BOOLEAN]
  BY DEF NoSwitches, NoErrors
<1>4. CASE ShowSettingsWindow
  <2>1. Invoke(<<GetConfig, GetSnapshot>>) /\ open' = TRUE
        /\ config' = Unknown /\ saving' = FALSE /\ error' = FALSE /\ snapshot' = Unknown
        /\ UNCHANGED <<disk, installed, coreUp, coreStatus, latestSnapshot, devicePane, shownSwitch,
                       switchError>>
    BY <1>4 DEF ShowSettingsWindow, systemVars, coreVars, paneVars
  <2>2. /\ requests' \in Seq(Requests) /\ Len(requests') <= MaxInvokes
        /\ \A i \in 1 .. Len(requests') : requests'[i].mine => open'
    BY <1>2, <2>1, CallFacts, InvokeStep
  <2>3. QED
    BY <1>1, <2>1, <2>2 DEF WindowTypeOK, QueueTypeOK
<1>5. ASSUME UNCHANGED open, NEW gone, requests' = Orphaned(gone)
      PROVE  /\ requests' \in Seq(Requests) /\ Len(requests') <= MaxInvokes
             /\ \A i \in 1 .. Len(requests') : requests'[i].mine => open'
  <2>1. /\ Orphaned(gone) \in Seq(Requests) /\ Len(Orphaned(gone)) = Len(requests)
        /\ \A i \in 1 .. Len(requests) : Orphaned(gone)[i].mine => requests[i].mine
    BY OrphanedFacts DEF QueueTypeOK
  <2>2. QED
    BY <1>1, <1>5, <2>1
<1>6. CASE CloseWindow
  <2>1. /\ open' = FALSE /\ UnmountPane
        /\ requests' = Orphaned(ConfigOps \cup SwitchOps \cup CoreOps)
        /\ UNCHANGED <<disk, installed, coreUp, coreStatus, latestSnapshot, snapshot, config,
                       saving, error>>
    BY <1>6 DEF CloseWindow, systemVars, coreVars, snapshotVars, configVars
  <2>2. \A call \in Requests : call.op \in ConfigOps \cup SwitchOps \cup CoreOps
    BY DEF Requests, Asked, ConfigOps, SwitchOps, CoreOps
  <2>3. /\ requests' \in Seq(Requests) /\ Len(requests') <= MaxInvokes
        /\ \A i \in 1 .. Len(requests') : ~requests'[i].mine
    <3>1. requests \in Seq(Requests)
      BY DEF QueueTypeOK
    <3>2. \A i \in 1 .. Len(requests) : requests[i] \in Requests
      BY <3>1
    <3>3. /\ requests' \in Seq(Requests) /\ Len(requests') = Len(requests)
          /\ \A i \in 1 .. Len(requests) : ~requests'[i].mine
      BY <2>1, <2>2, <3>1, <3>2, OrphanedFacts
    <3>4. QED
      BY <1>1, <3>3
  <2>4. QED
    BY <1>1, <1>3, <2>1, <2>3 DEF UnmountPane, WindowTypeOK, QueueTypeOK
<1>7. CASE OpenDevicePane
  <2>1. /\ open /\ open' = open /\ devicePane' = TRUE
        /\ Invoke(<<GetSwitch("login"), GetSwitch("dockWatch")>>)
        /\ UNCHANGED <<disk, installed, coreUp, coreStatus, latestSnapshot, snapshot, config,
                       saving, error, shownSwitch, switchError>>
    BY <1>7 DEF OpenDevicePane, systemVars, coreVars, snapshotVars, configVars
  <2>2. GetSwitch("login") \in Requests /\ GetSwitch("dockWatch") \in Requests
    BY CallFacts DEF Switches
  <2>3. /\ requests' \in Seq(Requests) /\ Len(requests') <= MaxInvokes
        /\ \A i \in 1 .. Len(requests') : requests'[i].mine => open'
    BY <1>2, <2>1, <2>2, InvokeStep
  <2>4. QED
    BY <1>1, <2>1, <2>3 DEF WindowTypeOK, QueueTypeOK
<1>8. CASE LeaveDevicePane
  <2>1. /\ UnmountPane /\ requests' = Orphaned(SwitchOps)
        /\ UNCHANGED <<disk, installed, coreUp, coreStatus, latestSnapshot, snapshot, open, config,
                       saving, error>>
    BY <1>8 DEF LeaveDevicePane, systemVars, coreVars, snapshotVars, configVars
  <2>2. QED
    BY <1>1, <1>3, <1>5, <2>1 DEF UnmountPane, WindowTypeOK, QueueTypeOK
<1>9. ASSUME NEW next \in Configs, UpdateConfig(next) PROVE WindowTypeOK' /\ QueueTypeOK'
  <2>1. /\ open /\ open' = open /\ config \in Configs /\ Invoke(<<SetConfig(next, config)>>)
        /\ config' = next /\ saving' = TRUE /\ error' = FALSE
        /\ UNCHANGED <<disk, installed, coreUp, coreStatus, latestSnapshot, snapshot, devicePane,
                       shownSwitch, switchError>>
    BY <1>1, <1>9 DEF UpdateConfig, systemVars, coreVars, snapshotVars, paneVars
  <2>2. /\ requests' \in Seq(Requests) /\ Len(requests') <= MaxInvokes
        /\ \A i \in 1 .. Len(requests') : requests'[i].mine => open'
    BY <1>2, <2>1, CallFacts, InvokeStep
  <2>3. QED
    BY <1>1, <2>1, <2>2 DEF WindowTypeOK, QueueTypeOK
<1>10. ASSUME NEW s \in Switches, FlipSwitch(s) PROVE WindowTypeOK' /\ QueueTypeOK'
  <2>1. /\ devicePane /\ shownSwitch[s] # Unknown
        /\ Invoke(<<SetSwitch(s, ~shownSwitch[s])>>)
        /\ shownSwitch' = [shownSwitch EXCEPT ![s] = ~@]
        /\ switchError' = [switchError EXCEPT ![s] = FALSE]
        /\ UNCHANGED <<disk, installed, coreUp, coreStatus, latestSnapshot, snapshot, open, config,
                       saving, error, devicePane>>
    BY <1>10 DEF FlipSwitch, systemVars, coreVars, snapshotVars, configVars
  <2>2. shownSwitch[s] \in BOOLEAN
    BY <1>1, <2>1
  <2>3. (~shownSwitch[s]) \in BOOLEAN
    BY <2>2
  <2>4. /\ requests' \in Seq(Requests) /\ Len(requests') <= MaxInvokes
        /\ \A i \in 1 .. Len(requests') : requests'[i].mine => open'
    <3>1. SetSwitch(s, ~shownSwitch[s]) \in Requests
      BY <2>3, CallFacts
    <3>2. open /\ open'
      BY <1>10, <2>1 DEF QueueTypeOK
    <3>3. QED
      BY <1>2, <2>1, <3>1, <3>2, InvokeStep
  <2>5. shownSwitch' \in [Switches -> BOOLEAN \cup {Unknown}]
        /\ switchError' \in [Switches -> BOOLEAN]
    BY <1>1, <2>1, <2>3
  <2>6. QED
    BY <1>1, <2>1, <2>4, <2>5 DEF WindowTypeOK, QueueTypeOK
<1>11. CASE FlipAutomation
  <2>1. /\ open /\ open' = open /\ snapshot # Unknown /\ Invoke(<<SetAutomation(~snapshot)>>)
        /\ UNCHANGED <<disk, installed, coreUp, coreStatus, latestSnapshot, snapshot, config,
                       saving, error, devicePane, shownSwitch, switchError>>
    BY <1>11 DEF FlipAutomation, systemVars, coreVars, snapshotVars, configVars, paneVars
  <2>2. (~snapshot) \in BOOLEAN
    BY <1>1, <2>1
  <2>3. /\ requests' \in Seq(Requests) /\ Len(requests') <= MaxInvokes
        /\ \A i \in 1 .. Len(requests') : requests'[i].mine => open'
    BY <1>2, <2>1, <2>2, CallFacts, InvokeStep
  <2>4. QED
    BY <1>1, <2>1, <2>3 DEF WindowTypeOK, QueueTypeOK
<1>12. CASE TogglesInTray
  <2>1. UNCHANGED <<disk, installed, coreUp, open, config, saving, error, devicePane,
                    shownSwitch, switchError, requests>>
    BY <1>12 DEF TogglesInTray, systemVars, configVars, paneVars
  <2>2. (~latestSnapshot) \in BOOLEAN
    BY <1>1, <1>12 DEF TogglesInTray
  <2>3. /\ coreStatus' \in BOOLEAN /\ latestSnapshot' \in BOOLEAN \cup {Unknown}
        /\ snapshot' \in BOOLEAN \cup {Unknown}
    BY <1>1, <1>12, <2>2 DEF TogglesInTray, SendToCore, HandleCoreMessage, snapshotVars
  <2>4. QED
    BY <1>1, <2>1, <2>3 DEF WindowTypeOK, QueueTypeOK
<1>13. QED
  BY <1>4, <1>6, <1>7, <1>8, <1>9, <1>10, <1>11, <1>12 DEF UserActs

\* Types, for what main and the core do.
LEMMA MainTypeStep ==
  ASSUME WindowTypeOK, QueueTypeOK, MainHandles \/ CoreActs
  PROVE  WindowTypeOK' /\ QueueTypeOK'
<1> DEFINE call == Head(requests)
<1>1. /\ disk \in Configs /\ installed \in [Switches -> BOOLEAN]
      /\ coreUp \in BOOLEAN /\ coreStatus \in BOOLEAN /\ open \in BOOLEAN
      /\ saving \in BOOLEAN /\ error \in BOOLEAN /\ devicePane \in BOOLEAN
      /\ latestSnapshot \in BOOLEAN \cup {Unknown} /\ snapshot \in BOOLEAN \cup {Unknown}
      /\ config \in Configs \cup {Unknown}
      /\ shownSwitch \in [Switches -> BOOLEAN \cup {Unknown}]
      /\ switchError \in [Switches -> BOOLEAN]
      /\ Len(requests) <= MaxInvokes
      /\ requests \in Seq(Requests) /\ devicePane => open
      /\ \A i \in 1 .. Len(requests) : requests[i].mine => open
  BY DEF WindowTypeOK, QueueTypeOK
<1>2. requests # <<>> => call \in Requests /\ (call.mine => open)
  <2>1. requests \in Seq(Requests) /\ \A i \in 1 .. Len(requests) : requests[i].mine => open
    BY DEF QueueTypeOK
  <2> SUFFICES ASSUME requests # <<>> PROVE call \in Requests /\ (call.mine => open)
    OBVIOUS
  <2>2. call = requests[1] /\ requests[1] \in Requests /\ 1 \in 1 .. Len(requests)
    BY <2>1, HandledFacts
  <2>3. QED
    BY <2>1, <2>2
<1>3. ASSUME requests # <<>>, UNCHANGED open, NEW new \in Requests, call.mine /\ new.mine => open,
             \/ requests' = Tail(requests)
             \/ call.mine /\ requests' = Append(Tail(requests), new)
      PROVE  /\ requests' \in Seq(Requests) /\ Len(requests') <= MaxInvokes
             /\ \A i \in 1 .. Len(requests') : requests'[i].mine => open'
  <2>1. CASE requests' = Tail(requests)
    <3>1. requests[1] \in Requests /\ (requests[1].mine => open)
      BY <1>1, <1>2, <1>3, HandledFacts
    <3>2. QED
      BY <1>3, <2>1, <3>1, HandledStep
  <2>2. CASE call.mine /\ requests' = Append(Tail(requests), new)
    <3>1. new.mine => open
      BY <1>2, <1>3, <2>2
    <3>2. QED
      BY <1>3, <2>2, <3>1, HandledStep
  <2>3. QED
    BY <1>3, <2>1, <2>2
<1>4. GetConfig \in Requests
  BY CallFacts
<1>5. ASSUME requests # <<>>, UNCHANGED open, requests' = Tail(requests)
      PROVE  /\ requests' \in Seq(Requests) /\ Len(requests') <= MaxInvokes
             /\ \A i \in 1 .. Len(requests') : requests'[i].mine => open'
  <2>1. call \in Requests /\ (call.mine => open)
    BY <1>2, <1>5
  <2>2. QED
    BY <1>3, <1>5, <2>1
<1> HIDE DEF call
<1>6. CASE HandleGetConfig
  <2>1. /\ requests # <<>> /\ requests' = Tail(requests)
        /\ UNCHANGED <<disk, installed, coreUp, coreStatus, latestSnapshot, snapshot, open,
                       saving, error, devicePane, shownSwitch, switchError>>
        /\ config' \in {disk, config}
    BY <1>6 DEF HandleGetConfig, Handles, systemVars, coreVars, snapshotVars, paneVars
  <2>2. QED
    BY <1>1, <1>5, <2>1 DEF WindowTypeOK, QueueTypeOK
<1>7. ASSUME NEW ok \in BOOLEAN, HandleSetConfig(ok) PROVE WindowTypeOK' /\ QueueTypeOK'
  <2>1. /\ requests # <<>> /\ requests' = Tail(requests) /\ call.op = "setConfig"
        /\ UNCHANGED <<installed, coreUp, coreStatus, latestSnapshot, snapshot, open, devicePane,
                       shownSwitch, switchError>>
        /\ disk' \in {call.arg.next, disk}
        /\ config' \in {call.arg.next, call.arg.previous, config}
        /\ error' \in {TRUE, error} /\ saving' \in {FALSE, saving}
    BY <1>7 DEF HandleSetConfig, SaveSucceeds, SaveFails, Handles, coreVars, snapshotVars,
                configVars, paneVars, call
  <2>2. call.arg.next \in Configs /\ call.arg.previous \in Configs
    BY <1>2, <2>1, RequestFacts
  <2>3. QED
    BY <1>1, <1>5, <2>1, <2>2 DEF WindowTypeOK, QueueTypeOK
<1>8. CASE HandleGetSwitch
  <2>1. /\ requests # <<>> /\ requests' = Tail(requests) /\ call.op = "getSwitch"
        /\ UNCHANGED <<disk, installed, coreUp, coreStatus, latestSnapshot, snapshot, open, config,
                       saving, error, devicePane, switchError>>
        /\ shownSwitch' \in {[shownSwitch EXCEPT ![call.arg] = installed[call.arg]], shownSwitch}
    BY <1>8 DEF HandleGetSwitch, Handles, systemVars, coreVars, snapshotVars, configVars, call
  <2>2. call.arg \in Switches
    BY <1>2, <2>1, RequestFacts
  <2>3. shownSwitch' \in [Switches -> BOOLEAN \cup {Unknown}]
    BY <1>1, <2>1, <2>2
  <2>4. QED
    BY <1>1, <1>5, <2>1, <2>3 DEF WindowTypeOK, QueueTypeOK
<1>9. CASE SetSwitchAnswers
  <2> DEFINE s == call.arg.switch
             on == call.arg.on
  <2>1. /\ requests # <<>> /\ requests' = Tail(requests) /\ call.op = "setSwitch"
        /\ UNCHANGED <<disk, coreUp, coreStatus, latestSnapshot, snapshot, open, config,
                       saving, error, devicePane>>
        /\ \E now \in {on, installed[s]} : installed' = [installed EXCEPT ![s] = now]
        /\ shownSwitch' \in {[shownSwitch EXCEPT ![s] = installed'[s]], shownSwitch}
        /\ switchError' = [switchError EXCEPT ![s] = @ \/ installed'[s] # on]
              \/ switchError' = switchError
    BY <1>9 DEF SetSwitchAnswers, Reconciles, Handles, coreVars, snapshotVars, configVars, call
  <2>2. s \in Switches /\ on \in BOOLEAN
    BY <1>2, <2>1, RequestFacts
  <2> HIDE DEF s, on
  <2>3. installed' \in [Switches -> BOOLEAN]
    BY <1>1, <2>1, <2>2
  <2>4. shownSwitch' \in [Switches -> BOOLEAN \cup {Unknown}]
    BY <1>1, <2>1, <2>2, <2>3
  <2>5. switchError' \in [Switches -> BOOLEAN]
    BY <1>1, <2>1, <2>2, Zenon
  <2>6. QED
    BY <1>1, <1>5, <2>1, <2>3, <2>4, <2>5 DEF WindowTypeOK, QueueTypeOK
<1>10. CASE SetSwitchThrows
  <2> DEFINE s == call.arg.switch
  <2>1. /\ requests # <<>> /\ call.op = "setSwitch"
        /\ UNCHANGED <<disk, installed, coreUp, coreStatus, latestSnapshot, snapshot, open, config,
                       saving, error, devicePane, shownSwitch>>
        /\ switchError' \in {[switchError EXCEPT ![s] = TRUE], switchError}
        /\ \/ requests' = Tail(requests)
           \/ call.mine /\ requests' = Append(Tail(requests), GetSwitch(s))
    BY <1>10 DEF SetSwitchThrows, Handles, systemVars, coreVars, snapshotVars, configVars, call
  <2>2. s \in Switches
    BY <1>2, <2>1, RequestFacts
  <2>3. GetSwitch(s) \in Requests
    BY <2>2, CallFacts
  <2> HIDE DEF s
  <2>4. /\ requests' \in Seq(Requests) /\ Len(requests') <= MaxInvokes
        /\ \A i \in 1 .. Len(requests') : requests'[i].mine => open'
    BY <1>2, <1>3, <2>1, <2>3 DEF call
  <2>5. switchError' \in [Switches -> BOOLEAN]
    BY <1>1, <2>1, <2>2
  <2>6. QED
    BY <1>1, <2>1, <2>4, <2>5 DEF WindowTypeOK, QueueTypeOK
<1>11. CASE HandleGetSnapshot
  <2>1. /\ requests # <<>> /\ requests' = Tail(requests)
        /\ UNCHANGED <<disk, installed, coreUp, coreStatus, latestSnapshot, open, config,
                       saving, error, devicePane, shownSwitch, switchError>>
        /\ snapshot' \in {latestSnapshot, snapshot}
    BY <1>11 DEF HandleGetSnapshot, Handles, systemVars, coreVars, configVars, paneVars
  <2>2. QED
    BY <1>1, <1>5, <2>1 DEF WindowTypeOK, QueueTypeOK
<1>12. CASE HandleSetAutomation
  <2>1. /\ requests # <<>> /\ requests' = Tail(requests) /\ call.op = "setAutomation"
        /\ SendToCore(call.arg)
        /\ UNCHANGED <<disk, installed, coreUp, open, config, saving, error, devicePane,
                       shownSwitch, switchError>>
    BY <1>12 DEF HandleSetAutomation, Handles, systemVars, configVars, paneVars, call
  <2>2. call.arg \in BOOLEAN
    BY <1>2, <2>1, RequestFacts
  <2>3. /\ coreStatus' \in BOOLEAN /\ latestSnapshot' \in BOOLEAN \cup {Unknown}
        /\ snapshot' \in BOOLEAN \cup {Unknown}
    BY <1>1, <2>1, <2>2 DEF SendToCore, HandleCoreMessage, snapshotVars
  <2>4. QED
    BY <1>1, <1>5, <2>1, <2>3 DEF WindowTypeOK, QueueTypeOK
<1>13. CASE CoreActs
  <2>1. UNCHANGED <<disk, installed, open, config, saving, error, devicePane,
                    shownSwitch, switchError, requests>>
    BY <1>13 DEF CoreActs, OverrideByPhone, SnapshotInterval, CoreBoots, CoreStops, systemVars,
                 configVars, paneVars
  <2>2. /\ coreUp' \in BOOLEAN /\ coreStatus' \in BOOLEAN
        /\ latestSnapshot' \in BOOLEAN \cup {Unknown} /\ snapshot' \in BOOLEAN \cup {Unknown}
    BY <1>1, <1>13 DEF CoreActs, OverrideByPhone, SnapshotInterval, CoreBoots, CoreStops,
                       HandleCoreMessage, coreVars, snapshotVars
  <2>3. QED
    BY <1>1, <2>1, <2>2 DEF WindowTypeOK, QueueTypeOK
<1>14. QED
  BY <1>6, <1>7, <1>8, <1>9, <1>10, <1>11, <1>12, <1>13 DEF MainHandles

\* The calls about the configuration, and what it shows.
LEMMA LoadStep ==
  ASSUME WindowTypeOK, QueueTypeOK, ConfigQueue, requests' \in Seq(Requests),
         ShowSettingsWindow \/ CloseWindow
  PROVE  ConfigQueue'
<1> DEFINE n == Len(requests)
<1>1. requests \in Seq(Requests) /\ n \in Nat /\ \A i \in 1 .. n : requests[i].mine => open
  BY DEF QueueTypeOK
<1>2. CASE ShowSettingsWindow
  <2> DEFINE calls == <<GetConfig, GetSnapshot>>
  <2>1. ~open /\ config' = Unknown /\ requests' = requests \o calls
    BY <1>2 DEF ShowSettingsWindow, Invoke
  <2>2. calls \in Seq(Requests) /\ Len(calls) = 2 /\ calls[1] = GetConfig /\ calls[2] = GetSnapshot
    BY CallFacts
  <2> HIDE DEF calls
  <2>3. /\ Len(requests') = n + 2
        /\ \A i \in 1 .. n : requests'[i] = requests[i]
        /\ \A i \in 1 .. 2 : requests'[n + i] = calls[i]
    <3>1. /\ Len(requests \o calls) = Len(requests) + Len(calls)
          /\ \A i \in 1 .. Len(requests) : (requests \o calls)[i] = requests[i]
          /\ \A i \in 1 .. Len(calls) : (requests \o calls)[Len(requests) + i] = calls[i]
      BY <1>1, <2>2, InvokeFacts
    <3>2. QED
      BY <2>1, <2>2, <3>1
  <2>4. /\ requests'[n + 1] = GetConfig /\ requests'[n + 2] = GetSnapshot
        /\ \A i \in 1 .. n : ~requests'[i].mine
    BY <1>1, <2>1, <2>2, <2>3
  <2> HIDE DEF n
  <2>5. ASSUME NEW i \in 1 .. n + 2 PROVE i \in 1 .. n \/ i = n + 1 \/ i = n + 2
    BY <1>1
  <2>6. GetConfig.op = "getConfig" /\ GetSnapshot.op = "getSnapshot"
    BY CallFacts
  <2>7. ASSUME NEW i \in 1 .. n + 2, requests'[i].op \in ConfigOps, requests'[i].mine
        PROVE  i = n + 1 /\ requests'[i].op = "getConfig"
    BY <2>4, <2>5, <2>6, <2>7 DEF ConfigOps
  <2>8. ASSUME NEW j \in 1 .. n + 2, n + 1 < j PROVE requests'[j].op \notin ConfigOps
    <3>1. j = n + 2
      BY <1>1, <2>8
    <3>2. QED
      BY <2>4, <2>6, <3>1 DEF ConfigOps
  <2>9. config' = Unknown /\ Len(requests') = n + 2
    BY <2>1, <2>3
  <2>10. ASSUME NEW i \in 1 .. Len(requests')
         PROVE  /\ requests'[i].op = "setConfig" => ~requests'[i].mine
                /\ requests'[i].op = "getConfig" /\ requests'[i].mine =>
                      \A j \in 1 .. Len(requests') : i < j => requests'[j].op \notin ConfigOps
    <3>1. i \in 1 .. n + 2
      BY <2>9
    <3>2. CASE requests'[i].op \in ConfigOps /\ requests'[i].mine
      <4>1. i = n + 1 /\ requests'[i].op = "getConfig"
        BY <2>7, <3>1, <3>2
      <4>2. QED
        BY <2>8, <2>9, <4>1
    <3>3. CASE ~(requests'[i].op \in ConfigOps /\ requests'[i].mine)
      BY <3>3 DEF ConfigOps
    <3>4. QED
      BY <3>2, <3>3
  <2>11. QED
    BY <2>9, <2>10 DEF ConfigQueue
<1>3. CASE CloseWindow
  <2> DEFINE gone == ConfigOps \cup SwitchOps \cup CoreOps
  <2>1. ~open' /\ requests' = Orphaned(gone)
    BY <1>3 DEF CloseWindow
  <2>2. /\ Len(requests') = n
        /\ \A i \in 1 .. n :
              requests'[i].mine = (requests[i].mine /\ requests[i].op \notin gone)
              /\ requests'[i].op = requests[i].op
    BY <1>1, <2>1, OrphanedFacts
  <2>3. \A i \in 1 .. n : requests'[i].op \in ConfigOps => ~requests'[i].mine
    BY <2>2
  <2>4. QED
    BY <2>1, <2>2, <2>3 DEF ConfigQueue, ConfigOps
<1>4. QED
  BY <1>2, <1>3

LEMMA SaveStep ==
  ASSUME WindowTypeOK, QueueTypeOK, ConfigQueue, requests' \in Seq(Requests),
         NEW next \in Configs, UpdateConfig(next)
  PROVE  ConfigQueue'
<1> DEFINE n == Len(requests)
           call == SetConfig(next, config)
<1>1. /\ requests' = requests \o <<call>> /\ config # Unknown /\ config' = next
      /\ UNCHANGED <<open, disk>>
  BY DEF UpdateConfig, Invoke, systemVars
<1>2. config \in Configs /\ next # Unknown
  BY <1>1, WindowAssumption DEF WindowTypeOK
<1>3. call \in Requests /\ call.op = "setConfig" /\ call.mine /\ <<call>> \in Seq(Requests)
      /\ Len(<<call>>) = 1 /\ <<call>>[1] = call
  BY <1>2, CallFacts
<1> HIDE DEF call
<1>4. requests \in Seq(Requests) /\ n \in Nat
  BY DEF QueueTypeOK
<1>5. /\ Len(requests') = n + 1
      /\ \A i \in 1 .. n : requests'[i] = requests[i]
      /\ requests'[n + 1] = call
  BY <1>1, <1>3, <1>4, InvokeFacts
<1>6. \A i \in 1 .. n :
          /\ requests[i].op \in ConfigOps /\ open => requests[i].mine
          /\ requests[i].op = "getConfig" => ~requests[i].mine
  BY <1>1 DEF ConfigQueue
<1> HIDE DEF n
<1>7. ASSUME NEW i \in 1 .. n + 1
      PROVE  /\ requests'[i].op \in ConfigOps /\ open => requests'[i].mine
             /\ requests'[i].op = "getConfig" => ~requests'[i].mine
  <2>1. CASE i = n + 1
    BY <1>3, <1>5, <2>1
  <2>2. CASE i # n + 1
    <3>1. i \in 1 .. n
      BY <1>4, <2>2
    <3>2. QED
      BY <1>5, <1>6, <3>1
  <2>3. QED
    BY <2>1, <2>2
<1>8. n + 1 \in 1 .. n + 1 /\ requests'[n + 1].op \in ConfigOps
  BY <1>3, <1>4, <1>5 DEF ConfigOps
<1>9. QED
  BY <1>1, <1>2, <1>5, <1>7, <1>8 DEF ConfigQueue

LEMMA ConfigAnswered ==
  ASSUME WindowTypeOK, QueueTypeOK, ConfigQueue,
         HandleGetConfig \/ \E ok \in BOOLEAN : HandleSetConfig(ok)
  PROVE  ConfigQueue'
<1> DEFINE n == Len(requests)
           head == requests[1]
<1>1. /\ requests # <<>> /\ requests' = Tail(requests) /\ Head(requests).op \in ConfigOps
      /\ open' = open /\ requests \in Seq(Requests)
  BY DEF HandleGetConfig, HandleSetConfig, Handles, ConfigOps, QueueTypeOK
<1>2. /\ n \in Nat /\ n >= 1 /\ Len(requests') = n - 1
      /\ Head(requests) = head /\ head \in Requests /\ head.op \in ConfigOps
      /\ \A i \in 1 .. n - 1 : requests'[i] = requests[i + 1]
  BY <1>1, HandledFacts
<1>3. /\ 1 \in 1 .. n
      /\ \A i \in 1 .. n - 1 : i + 1 \in 1 .. n /\ 1 < i + 1
  BY <1>2
<1>4. head.op = "setConfig" => head.arg.next \in Configs /\ head.arg.previous \in Configs
  BY <1>2, RequestFacts
<1> HIDE DEF n, head
<1>5. /\ \A i \in 1 .. n :
          /\ requests[i].op \in ConfigOps /\ open /\ config # Unknown => requests[i].mine
          /\ requests[i].op = "setConfig" /\ requests[i].mine => config # Unknown
          /\ requests[i].op = "getConfig" /\ requests[i].mine =>
                /\ config = Unknown
                /\ \A j \in 1 .. n : i < j => requests[j].op \notin ConfigOps
  BY DEF ConfigQueue, n
<1>6. /\ head.op \in ConfigOps /\ open /\ config # Unknown => head.mine
      /\ head.op = "setConfig" /\ head.mine => config # Unknown
      /\ head.op = "getConfig" /\ head.mine =>
            config = Unknown /\ \A j \in 1 .. n : 1 < j => requests[j].op \notin ConfigOps
  BY <1>3, <1>5 DEF head
<1>7. ASSUME NEW i \in 1 .. n - 1, requests'[i].op = "getConfig", requests'[i].mine,
             NEW j \in 1 .. n - 1, i < j
      PROVE  requests'[j].op \notin ConfigOps
  <2>1. i + 1 < j + 1
    BY <1>2, <1>7
  <2>2. QED
    BY <1>2, <1>3, <1>5, <1>7, <2>1
<1>8. CASE ~head.mine
  <2>1. config' = config
    BY <1>2, <1>8 DEF HandleGetConfig, HandleSetConfig, configVars
  <2>2. ~(open /\ config # Unknown)
    BY <1>2, <1>6, <1>8
  <2>3. \A i \in 1 .. n - 1 :
          /\ requests'[i].op = "setConfig" /\ requests'[i].mine => config' # Unknown
          /\ requests'[i].op = "getConfig" /\ requests'[i].mine => config' = Unknown
    BY <1>2, <1>3, <1>5, <2>1
  <2>4. QED
    BY <1>1, <1>2, <1>7, <2>1, <2>2, <2>3 DEF ConfigQueue
<1>9. CASE head.mine /\ head.op = "getConfig"
  <2>1. config' = disk /\ disk' = disk /\ disk \in Configs
    BY <1>2, <1>9 DEF HandleGetConfig, HandleSetConfig, Handles, systemVars, WindowTypeOK
  <2>2. \A i \in 1 .. n - 1 : requests'[i].op \notin ConfigOps
    BY <1>2, <1>3, <1>6, <1>9
  <2>3. QED
    BY <1>2, <2>1, <2>2 DEF ConfigQueue, ConfigOps
<1>10. CASE head.mine /\ head.op = "setConfig"
  <2>1. /\ config' \in Configs
        /\ config' = disk' \/ error'
    BY <1>2, <1>4, <1>10 DEF HandleGetConfig, HandleSetConfig, Handles, SaveSucceeds, SaveFails
  <2>2. config # Unknown /\ config' # Unknown
    BY <1>6, <1>10, <2>1, WindowAssumption
  <2>3. \A i \in 1 .. n - 1 :
          /\ requests'[i].op \in ConfigOps /\ open => requests'[i].mine
          /\ requests'[i].op = "getConfig" => ~requests'[i].mine
    BY <1>2, <1>3, <1>5, <2>2
  <2>4. QED
    BY <1>1, <1>2, <2>1, <2>2, <2>3 DEF ConfigQueue
<1>11. QED
  BY <1>2, <1>8, <1>9, <1>10 DEF ConfigOps

LEMMA ConfigStep ==
  ASSUME WindowTypeOK, QueueTypeOK, ConfigQueue, requests' \in Seq(Requests),
         [WindowNext]_windowVars
  PROVE  ConfigQueue'
<1>1. requests \in Seq(Requests)
  BY DEF QueueTypeOK
<1>2. \A a, b \in Requests : <<a>> \in Seq(Requests) /\ <<a, b>> \in Seq(Requests)
  OBVIOUS
<1>3. ASSUME UNCHANGED <<open, config, error, disk>>, NEW calls \in Seq(Requests),
             \A i \in 1 .. Len(calls) : calls[i].op \notin ConfigOps, Invoke(calls)
      PROVE  ConfigQueue'
  <2>1. requests' = requests \o calls
    BY <1>3 DEF Invoke
  <2>2. Follows(requests, requests', 0, ConfigOps)
    BY <1>1, <1>3, <2>1, FollowsInvoke
  <2>3. QED
    BY <1>3, <2>2, ConfigFollows
<1>4. ASSUME UNCHANGED <<open, config, error, disk>>, requests # <<>>,
             Head(requests).op \notin ConfigOps, NEW call \in Requests, call.op \notin ConfigOps,
             requests' = Tail(requests) \/ requests' = Append(Tail(requests), call)
      PROVE  ConfigQueue'
  <2>1. Follows(requests, requests', 1, ConfigOps)
    BY <1>1, <1>4, FollowsHandled, FollowsAgain
  <2>2. QED
    BY <1>4, <2>1, ConfigFollows
<1>5. ASSUME UNCHANGED <<open, config, error, disk, requests>> PROVE ConfigQueue'
  BY <1>5 DEF ConfigQueue
<1>6. CASE OpenDevicePane
  <2> DEFINE calls == <<GetSwitch("login"), GetSwitch("dockWatch")>>
  <2>1. calls \in Seq(Requests) /\ \A i \in 1 .. Len(calls) : calls[i].op \notin ConfigOps
    <3>1. /\ GetSwitch("login") \in Requests /\ GetSwitch("dockWatch") \in Requests
          /\ GetSwitch("login").op = "getSwitch" /\ GetSwitch("dockWatch").op = "getSwitch"
      BY CallFacts DEF Switches
    <3>2. Len(calls) = 2
      OBVIOUS
    <3>3. QED
      BY <1>2, <3>1, <3>2 DEF ConfigOps
  <2> HIDE DEF calls
  <2>2. UNCHANGED <<open, config, error, disk>> /\ Invoke(calls)
    BY <1>6 DEF OpenDevicePane, systemVars, configVars, calls
  <2>3. QED
    BY <1>3, <2>1, <2>2
<1>7. CASE LeaveDevicePane
  <2>1. UNCHANGED <<open, config, error, disk>> /\ requests' = Orphaned(SwitchOps)
    BY <1>7 DEF LeaveDevicePane, systemVars, configVars
  <2>2. SwitchOps \cap ConfigOps = {}
    BY DEF SwitchOps, ConfigOps
  <2>3. Follows(requests, requests', 0, ConfigOps)
    BY <1>1, <2>1, <2>2, FollowsOrphaned
  <2>4. QED
    BY <2>1, <2>3, ConfigFollows
<1>8. ASSUME NEW call \in Requests, call.op \notin ConfigOps, Invoke(<<call>>),
             UNCHANGED <<open, config, error, disk>>
      PROVE  ConfigQueue'
  <2>1. Len(<<call>>) = 1 /\ <<call>>[1] = call
    OBVIOUS
  <2>2. QED
    BY <1>2, <1>3, <1>8, <2>1
<1>9. ASSUME NEW s \in Switches, FlipSwitch(s) PROVE ConfigQueue'
  <2> DEFINE call == SetSwitch(s, ~shownSwitch[s])
  <2>1. UNCHANGED <<open, config, error, disk>> /\ Invoke(<<call>>) /\ shownSwitch[s] # Unknown
    BY <1>9 DEF FlipSwitch, systemVars, configVars
  <2>2. (~shownSwitch[s]) \in BOOLEAN
    BY <2>1 DEF WindowTypeOK
  <2>3. call \in Requests /\ call.op \notin ConfigOps
    BY <2>2, CallFacts DEF ConfigOps
  <2> HIDE DEF call
  <2>4. QED
    BY <1>8, <2>1, <2>3
<1>10. CASE FlipAutomation
  <2> DEFINE call == SetAutomation(~snapshot)
  <2>1. UNCHANGED <<open, config, error, disk>> /\ Invoke(<<call>>) /\ snapshot # Unknown
    BY <1>10 DEF FlipAutomation, systemVars, configVars
  <2>2. (~snapshot) \in BOOLEAN
    BY <2>1 DEF WindowTypeOK
  <2>3. call \in Requests /\ call.op \notin ConfigOps
    BY <2>2, CallFacts DEF ConfigOps
  <2> HIDE DEF call
  <2>4. QED
    BY <1>8, <2>1, <2>3
<1>11. CASE HandleGetSwitch \/ SetSwitchAnswers \/ HandleGetSnapshot \/ HandleSetAutomation
  <2>1. /\ UNCHANGED <<open, config, error, disk>> /\ requests # <<>>
        /\ Head(requests).op \notin ConfigOps /\ requests' = Tail(requests)
    BY <1>11 DEF HandleGetSwitch, SetSwitchAnswers, HandleGetSnapshot, HandleSetAutomation, Handles,
                 ConfigOps, systemVars, configVars
  <2>2. GetSnapshot \in Requests /\ GetSnapshot.op \notin ConfigOps
    BY CallFacts DEF ConfigOps
  <2>3. QED
    BY <1>4, <2>1, <2>2
<1>12. CASE SetSwitchThrows
  <2> DEFINE s == Head(requests).arg.switch
  <2>1. /\ UNCHANGED <<open, config, error, disk>> /\ requests # <<>>
        /\ Head(requests).op = "setSwitch"
        /\ requests' = Tail(requests) \/ requests' = Append(Tail(requests), GetSwitch(s))
    BY <1>12 DEF SetSwitchThrows, Handles, systemVars, configVars
  <2>2. s \in Switches
    BY <1>1, <2>1, HandledFacts, RequestFacts
  <2>3. GetSwitch(s) \in Requests /\ GetSwitch(s).op \notin ConfigOps
    BY <2>2, CallFacts DEF ConfigOps
  <2>4. Head(requests).op \notin ConfigOps
    BY <2>1 DEF ConfigOps
  <2> HIDE DEF s
  <2>5. QED
    BY <1>4, <2>1, <2>3, <2>4
<1>13. CASE TogglesInTray \/ CoreActs \/ UNCHANGED windowVars
  BY <1>5, <1>13 DEF TogglesInTray, CoreActs, OverrideByPhone, SnapshotInterval, CoreBoots,
                     CoreStops, systemVars, configVars, windowVars
<1>14. QED
  BY <1>6, <1>7, <1>9, <1>10, <1>11, <1>12, <1>13, LoadStep, SaveStep, ConfigAnswered
     DEF WindowNext, UserActs, MainHandles

\* The pane that comes asks for both its switches; calls of one that goes are orphans.
LEMMA PaneStep ==
  ASSUME WindowTypeOK, QueueTypeOK, SwitchQueue, requests' \in Seq(Requests),
         OpenDevicePane \/ LeaveDevicePane \/ CloseWindow
  PROVE  SwitchQueue'
<1> DEFINE n == Len(requests)
<1>1. requests \in Seq(Requests) /\ n \in Nat
  BY DEF QueueTypeOK
<1>2. CASE OpenDevicePane
  <2> DEFINE calls == <<GetSwitch("login"), GetSwitch("dockWatch")>>
  <2>1. ~devicePane /\ devicePane' /\ requests' = requests \o calls
    BY <1>2 DEF OpenDevicePane, Invoke
  <2>2. /\ GetSwitch("login") \in Requests /\ GetSwitch("dockWatch") \in Requests
        /\ AsksFor(GetSwitch("login"), "login") /\ AsksFor(GetSwitch("dockWatch"), "dockWatch")
    BY CallFacts DEF Switches
  <2>3. calls \in Seq(Requests) /\ Len(calls) = 2
        /\ calls[1] = GetSwitch("login") /\ calls[2] = GetSwitch("dockWatch")
    BY <2>2
  <2> HIDE DEF calls
  <2>4. /\ Len(requests \o calls) = Len(requests) + Len(calls)
        /\ \A i \in 1 .. Len(requests) : (requests \o calls)[i] = requests[i]
        /\ \A i \in 1 .. Len(calls) : (requests \o calls)[Len(requests) + i] = calls[i]
    BY <1>1, <2>3, InvokeFacts
  <2>5. /\ Len(requests') = n + 2 /\ \A i \in 1 .. n : requests'[i] = requests[i]
        /\ requests'[n + 1] = GetSwitch("login") /\ requests'[n + 2] = GetSwitch("dockWatch")
    BY <2>1, <2>3, <2>4
  <2>6. \A i \in 1 .. n : requests[i].op \in SwitchOps => ~requests[i].mine
    BY <2>1 DEF SwitchQueue
  <2> HIDE DEF n
  <2>7. ASSUME NEW i \in 1 .. n + 2 PROVE i \in 1 .. n \/ i = n + 1 \/ i = n + 2
    BY <1>1
  <2>8. ASSUME NEW i \in 1 .. n + 2, requests'[i].op \in SwitchOps, requests'[i].mine,
               NEW j \in 1 .. n + 2, i < j
        PROVE  requests'[j].mine
    <3>1. i \notin 1 .. n
      BY <2>5, <2>6, <2>8
    <3>2. j = n + 1 \/ j = n + 2
      BY <1>1, <2>7, <2>8, <3>1
    <3>3. QED
      BY <2>2, <2>5, <3>2 DEF AsksFor
  <2>9. ASSUME NEW s \in Switches PROVE \E i \in 1 .. n + 2 : AsksFor(requests'[i], s)
    <3>1. n + 1 \in 1 .. n + 2 /\ n + 2 \in 1 .. n + 2
      BY <1>1
    <3>2. AsksFor(requests'[n + 1], "login") /\ AsksFor(requests'[n + 2], "dockWatch")
      BY <2>2, <2>5
    <3>3. QED
      BY <3>1, <3>2 DEF Switches
  <2>10. QED
    BY <2>1, <2>5, <2>8, <2>9 DEF SwitchQueue, AsksFor
<1>3. CASE LeaveDevicePane \/ CloseWindow
  <2>1. PICK gone : SwitchOps \subseteq gone /\ ~devicePane' /\ requests' = Orphaned(gone)
    BY <1>3 DEF LeaveDevicePane, CloseWindow, UnmountPane
  <2>2. /\ Len(requests') = n
        /\ \A i \in 1 .. n :
              requests'[i].mine = (requests[i].mine /\ requests[i].op \notin gone)
              /\ requests'[i].op = requests[i].op
    BY <1>1, <2>1, OrphanedFacts
  <2>3. \A i \in 1 .. n : requests'[i].op \in SwitchOps => ~requests'[i].mine
    BY <2>1, <2>2
  <2>4. QED
    BY <2>1, <2>2, <2>3 DEF SwitchQueue
<1>4. QED
  BY <1>2, <1>3

LEMMA FlipStep ==
  ASSUME WindowTypeOK, QueueTypeOK, SwitchQueue, requests' \in Seq(Requests),
         NEW s \in Switches, FlipSwitch(s)
  PROVE  SwitchQueue'
<1> DEFINE n == Len(requests)
           call == SetSwitch(s, ~shownSwitch[s])
<1>1. /\ requests' = requests \o <<call>> /\ devicePane /\ devicePane' = devicePane
      /\ installed' = installed /\ shownSwitch[s] # Unknown
      /\ shownSwitch' = [shownSwitch EXCEPT ![s] = ~@]
  BY DEF FlipSwitch, Invoke, systemVars
<1>2. (~shownSwitch[s]) \in BOOLEAN
  BY <1>1 DEF WindowTypeOK
<1>3. call \in Requests /\ AsksFor(call, s) /\ <<call>> \in Seq(Requests)
      /\ Len(<<call>>) = 1 /\ <<call>>[1] = call
  <2>1. call \in Requests /\ AsksFor(call, s)
    BY <1>2, CallFacts
  <2> HIDE DEF call
  <2>2. QED
    BY <2>1
<1> HIDE DEF call
<1>4. requests \in Seq(Requests) /\ n \in Nat
  BY DEF QueueTypeOK
<1>5. /\ Len(requests') = n + 1
      /\ \A i \in 1 .. n : requests'[i] = requests[i]
      /\ requests'[n + 1] = call
  BY <1>1, <1>3, <1>4, InvokeFacts
<1>6. \A i \in 1 .. n : requests[i].op \in SwitchOps /\ requests[i].mine =>
          \A j \in 1 .. n : i < j /\ requests[j].op \in SwitchOps => requests[j].mine
  BY DEF SwitchQueue
<1>7. \A t \in Switches :
          \/ \E i \in 1 .. n : AsksFor(requests[i], t)
          \/ /\ shownSwitch[t] = installed[t]
             /\ \A i \in 1 .. n : requests[i].op \in SwitchOps => requests[i].mine
  BY <1>1 DEF SwitchQueue
<1> HIDE DEF n
<1>8. \A i \in 1 .. n + 1 : i \in 1 .. n \/ i = n + 1
  BY <1>4
<1>9. ASSUME NEW i \in 1 .. n + 1, requests'[i].op \in SwitchOps, requests'[i].mine,
             NEW j \in 1 .. n + 1, i < j, requests'[j].op \in SwitchOps
      PROVE  requests'[j].mine
  <2>1. CASE j = n + 1
    BY <1>3, <1>5, <2>1 DEF AsksFor
  <2>2. CASE j \in 1 .. n
    <3>1. i \in 1 .. n
      BY <1>4, <1>9, <2>2
    <3>2. QED
      BY <1>5, <1>6, <1>9, <2>2, <3>1
  <2>3. QED
    BY <1>8, <2>1, <2>2
<1>10. ASSUME NEW t \in Switches
       PROVE  \/ \E i \in 1 .. n + 1 : AsksFor(requests'[i], t)
              \/ /\ shownSwitch'[t] = installed'[t]
                 /\ \A i \in 1 .. n + 1 : requests'[i].op \in SwitchOps => requests'[i].mine
  <2>1. \A i \in 1 .. n : i \in 1 .. n + 1
    BY <1>4
  <2>2. CASE t = s
    <3>1. n + 1 \in 1 .. n + 1 /\ AsksFor(requests'[n + 1], t)
      BY <1>3, <1>4, <1>5, <2>2
    <3>2. QED
      BY <3>1
  <2>3. CASE \E i \in 1 .. n : AsksFor(requests[i], t)
    BY <1>5, <2>1, <2>3
  <2>4. CASE t # s /\ shownSwitch[t] = installed[t]
             /\ \A i \in 1 .. n : requests[i].op \in SwitchOps => requests[i].mine
    <3>1. shownSwitch'[t] = installed'[t]
      BY <1>1, <2>4 DEF WindowTypeOK
    <3>2. \A i \in 1 .. n + 1 : requests'[i].op \in SwitchOps => requests'[i].mine
      BY <1>3, <1>5, <1>8, <2>4 DEF AsksFor
    <3>3. QED
      BY <3>1, <3>2
  <2>5. QED
    BY <1>7, <2>2, <2>3, <2>4
<1>11. QED
  BY <1>1, <1>5, <1>9, <1>10 DEF SwitchQueue

\* A call about a switch is handled: an orphan leaves the pane's own for later, and the
\* pane's own is right when there is no other.
LEMMA SwitchAnswered ==
  ASSUME WindowTypeOK, QueueTypeOK, SwitchQueue, requests' \in Seq(Requests),
         HandleGetSwitch \/ SetSwitchAnswers \/ SetSwitchThrows
  PROVE  SwitchQueue'
<1> DEFINE n == Len(requests)
           m == Len(requests')
           head == requests[1]
           s == SwitchOf(head)
           new == GetSwitch(s)
<1>1. /\ requests # <<>> /\ Head(requests).op \in SwitchOps /\ devicePane' = devicePane
      /\ requests \in Seq(Requests)
  BY DEF HandleGetSwitch, SetSwitchAnswers, SetSwitchThrows, Handles, SwitchOps, QueueTypeOK
<1>2. /\ n \in Nat /\ n >= 1 /\ Head(requests) = head /\ head \in Requests
      /\ head.op \in SwitchOps /\ 1 \in 1 .. n
      /\ Tail(requests) \in Seq(Requests) /\ Len(Tail(requests)) = n - 1
      /\ \A i \in 1 .. n - 1 : Tail(requests)[i] = requests[i + 1]
  BY <1>1, HandledFacts
<1>3. s \in Switches /\ head.mine \in BOOLEAN
  BY <1>2, RequestFacts DEF SwitchOf, SwitchOps
<1>4. new \in Requests /\ AsksFor(new, s)
  BY <1>3, CallFacts
<1>5. /\ \/ requests' = Tail(requests) /\ ~head.mine /\ shownSwitch' = shownSwitch
         \/ /\ requests' = Tail(requests) /\ head.mine
            /\ shownSwitch' = [shownSwitch EXCEPT ![s] = installed'[s]]
         \/ /\ requests' = Append(Tail(requests), new) /\ head.mine
            /\ shownSwitch' = shownSwitch
      /\ \/ installed' = installed
         \/ \E now \in BOOLEAN : installed' = [installed EXCEPT ![s] = now]
  <2>1. CASE HandleGetSwitch
    <3>1. head.op = "getSwitch" /\ s = head.arg
      BY <1>2, <2>1 DEF HandleGetSwitch, Handles, SwitchOf
    <3>2. QED
      BY <1>2, <2>1, <3>1 DEF HandleGetSwitch, systemVars
  <2>2. CASE SetSwitchAnswers
    <3>1. head.op = "setSwitch" /\ s = head.arg.switch /\ head.arg.on \in BOOLEAN
      BY <1>2, <2>2, RequestFacts DEF SetSwitchAnswers, Handles, SwitchOf
    <3>2. installed[s] \in BOOLEAN
      BY <1>3 DEF WindowTypeOK
    <3>3. \E now \in BOOLEAN : installed' = [installed EXCEPT ![s] = now]
      BY <1>2, <2>2, <3>1, <3>2 DEF SetSwitchAnswers
    <3>4. /\ requests' = Tail(requests)
          /\ IF head.mine THEN shownSwitch' = [shownSwitch EXCEPT ![s] = installed'[s]]
                          ELSE shownSwitch' = shownSwitch
      BY <1>2, <2>2, <3>1 DEF SetSwitchAnswers, Reconciles
    <3>5. QED
      BY <3>3, <3>4
  <2>3. CASE SetSwitchThrows
    <3>1. head.op = "setSwitch" /\ s = head.arg.switch
      BY <1>2, <2>3 DEF SetSwitchThrows, Handles, SwitchOf
    <3>2. QED
      BY <1>2, <2>3, <3>1 DEF SetSwitchThrows, systemVars
  <2>4. QED
    BY <2>1, <2>2, <2>3
<1>6. installed' \in [Switches -> BOOLEAN] /\ \A t \in Switches : t # s => installed'[t] = installed[t]
  <2>1. installed \in [Switches -> BOOLEAN]
    BY DEF WindowTypeOK
  <2> HIDE DEF s
  <2>2. QED
    BY <1>3, <1>5, <2>1
<1>7. /\ \A t \in Switches : t # s => shownSwitch'[t] = shownSwitch[t]
      /\ requests' = Tail(requests) /\ head.mine => shownSwitch'[s] = installed'[s]
      /\ ~head.mine => requests' = Tail(requests)
  <2>1. shownSwitch \in [Switches -> BOOLEAN \cup {Unknown}]
    BY DEF WindowTypeOK
  <2>2. requests' = Tail(requests) => requests' # Append(Tail(requests), new)
    <3>1. Len(Append(Tail(requests), new)) = Len(Tail(requests)) + 1 /\ Len(Tail(requests)) \in Nat
      BY <1>2, <1>4
    <3>2. QED
      BY <3>1
  <2> HIDE DEF s, new, head
  <2>3. \/ shownSwitch' = shownSwitch
        \/ shownSwitch' = [shownSwitch EXCEPT ![s] = installed'[s]]
    BY <1>5
  <2>4. \A t \in Switches : t # s => shownSwitch'[t] = shownSwitch[t]
    BY <2>1, <2>3
  <2>5. ASSUME requests' = Tail(requests), head.mine PROVE shownSwitch'[s] = installed'[s]
    <3>1. shownSwitch' = [shownSwitch EXCEPT ![s] = installed'[s]]
      BY <1>5, <2>2, <2>5
    <3>2. QED
      BY <1>3, <2>1, <3>1
  <2>6. ~head.mine => requests' = Tail(requests)
    BY <1>5, Zenon
  <2>7. QED
    BY <2>4, <2>5, <2>6
<1>8. /\ m \in {n - 1, n} /\ m \in Nat
      /\ \A i \in 1 .. n - 1 : i \in 1 .. m /\ requests'[i] = requests[i + 1]
      /\ m = n => requests'[n] = new /\ head.mine
      /\ m = n - 1 => requests' = Tail(requests)
  <2>1. CASE requests' = Tail(requests)
    <3>1. m = n - 1 /\ m \in Nat /\ m # n
      <4>1. m = n - 1
        BY <1>2, <2>1
      <4> HIDE DEF m, n
      <4>2. QED
        BY <1>2, <4>1
    <3>2. QED
      BY <1>2, <2>1, <3>1
  <2>2. CASE requests' = Append(Tail(requests), new) /\ head.mine
    <3> DEFINE t == Tail(requests)
    <3>1. /\ m = Len(t) + 1 /\ requests'[Len(t) + 1] = new
          /\ \A i \in 1 .. Len(t) : requests'[i] = t[i]
      BY <1>2, <1>4, <2>2
    <3>2. Len(t) = n - 1 /\ \A i \in 1 .. n - 1 : t[i] = requests[i + 1]
      BY <1>2
    <3> HIDE DEF t, n, m, new, head
    <3>3. m = n /\ m # n - 1 /\ requests'[n] = new /\ m \in Nat
      BY <1>2, <3>1, <3>2
    <3>4. \A i \in 1 .. n - 1 : i \in 1 .. m /\ requests'[i] = requests[i + 1]
      BY <1>2, <3>1, <3>2, <3>3
    <3>5. requests' # Tail(requests)
      BY <3>2, <3>3 DEF t, m
    <3>6. QED
      BY <2>2, <3>3, <3>4, <3>5
  <2> HIDE DEF n, m, s, new, head
  <2>3. QED
    BY <1>5, <2>1, <2>2
<1> HIDE DEF n, m, s, new, head
<1>9. /\ \A i \in 1 .. n - 1 : i + 1 \in 1 .. n /\ 1 < i + 1
      /\ \A i \in 1 .. n : i = 1 \/ (i - 1 \in 1 .. n - 1 /\ (i - 1) + 1 = i)
      /\ \A i \in 1 .. m : i \in 1 .. n - 1 \/ (i = n /\ m = n)
  BY <1>2, <1>8
<1>10. \A i \in 1 .. n : requests[i].op \in SwitchOps /\ requests[i].mine =>
          /\ devicePane
          /\ \A j \in 1 .. n : i < j /\ requests[j].op \in SwitchOps => requests[j].mine
  BY DEF SwitchQueue, n
<1>11. head.mine =>
          /\ devicePane
          /\ \A j \in 1 .. n : requests[j].op \in SwitchOps => requests[j].mine
  <2>1. head.mine =>
          devicePane /\ \A j \in 1 .. n : 1 < j /\ requests[j].op \in SwitchOps => requests[j].mine
    BY <1>2, <1>10 DEF head
  <2>2. \A j \in 1 .. n : j = 1 \/ 1 < j
    BY <1>2
  <2>3. QED
    BY <2>1, <2>2 DEF head
<1>12. new.mine /\ new.op \in SwitchOps
  BY <1>4 DEF AsksFor
<1>13. ASSUME NEW i \in 1 .. m, requests'[i].op \in SwitchOps, requests'[i].mine
       PROVE  /\ devicePane'
              /\ \A j \in 1 .. m : i < j /\ requests'[j].op \in SwitchOps => requests'[j].mine
  <2>1. CASE i \in 1 .. n - 1
    <3>1. requests[i + 1].op \in SwitchOps /\ requests[i + 1].mine /\ i + 1 \in 1 .. n
      BY <1>8, <1>9, <1>13, <2>1
    <3>2. ASSUME NEW j \in 1 .. m, i < j, requests'[j].op \in SwitchOps PROVE requests'[j].mine
      <4>1. CASE j \in 1 .. n - 1
        <5>1. i + 1 < j + 1 /\ j + 1 \in 1 .. n /\ requests'[j] = requests[j + 1]
          BY <1>2, <1>8, <1>9, <3>2, <4>1
        <5>2. QED
          BY <1>10, <3>1, <3>2, <5>1
      <4>2. CASE j = n /\ m = n
        BY <1>8, <1>12, <4>2
      <4>3. QED
        BY <1>9, <4>1, <4>2
    <3>3. QED
      BY <1>1, <1>10, <3>1, <3>2
  <2>2. CASE i = n /\ m = n
    <3>1. \A j \in 1 .. m : ~(i < j)
      BY <1>2, <2>2
    <3>2. QED
      BY <1>1, <1>8, <1>11, <2>2, <3>1
  <2>3. QED
    BY <1>9, <2>1, <2>2
<1>14. ASSUME NEW t \in Switches, NEW i \in 1 .. n, AsksFor(requests[i], t), i # 1
       PROVE  \E j \in 1 .. m : AsksFor(requests'[j], t)
  <2>1. i - 1 \in 1 .. m /\ requests'[i - 1] = requests[i]
    BY <1>8, <1>9, <1>14
  <2>2. QED
    BY <1>14, <2>1
<1>15. ASSUME devicePane, NEW t \in Switches
       PROVE  \/ \E i \in 1 .. m : AsksFor(requests'[i], t)
              \/ /\ shownSwitch'[t] = installed'[t]
                 /\ \A i \in 1 .. m : requests'[i].op \in SwitchOps => requests'[i].mine
  <2>1. \/ \E i \in 1 .. n : AsksFor(requests[i], t)
        \/ /\ shownSwitch[t] = installed[t]
           /\ \A i \in 1 .. n : requests[i].op \in SwitchOps => requests[i].mine
    BY <1>15 DEF SwitchQueue, n
  <2>2. CASE ~head.mine
    <3>1. PICK i \in 1 .. n : AsksFor(requests[i], t)
      BY <1>2, <2>1, <2>2 DEF head
    <3>2. i # 1
      BY <2>2, <3>1 DEF AsksFor, head
    <3>3. QED
      BY <1>14, <3>1, <3>2
  <2>3. CASE head.mine
    <3>1. \A i \in 1 .. m : requests'[i].op \in SwitchOps => requests'[i].mine
      BY <1>8, <1>9, <1>11, <1>12, <2>3
    <3>2. CASE t = s
      <4>1. CASE m = n
        <5>1. n \in 1 .. m /\ AsksFor(requests'[n], t)
          BY <1>2, <1>4, <1>8, <3>2, <4>1
        <5>2. QED
          BY <5>1
      <4>2. CASE m = n - 1
        BY <1>7, <1>8, <2>3, <3>1, <3>2, <4>2
      <4>3. QED
        BY <1>8, <4>1, <4>2
    <3>3. CASE t # s
      <4>1. ~AsksFor(requests[1], t)
        BY <3>3 DEF AsksFor, s, head
      <4>2. CASE \E i \in 1 .. n : AsksFor(requests[i], t)
        <5>1. PICK i \in 1 .. n : AsksFor(requests[i], t)
          BY <4>2
        <5>2. i # 1
          BY <4>1, <5>1
        <5>3. QED
          BY <1>14, <5>1, <5>2
      <4>3. CASE shownSwitch[t] = installed[t]
        BY <1>6, <1>7, <3>1, <3>3, <4>3
      <4>4. QED
        BY <2>1, <4>2, <4>3
    <3>4. QED
      BY <3>2, <3>3
  <2>4. QED
    BY <1>3, <2>2, <2>3
<1>16. QED
  BY <1>1, <1>13, <1>15 DEF SwitchQueue, m

LEMMA SwitchStep ==
  ASSUME WindowTypeOK, QueueTypeOK, SwitchQueue, requests' \in Seq(Requests),
         [WindowNext]_windowVars
  PROVE  SwitchQueue'
<1>1. requests \in Seq(Requests)
  BY DEF QueueTypeOK
<1>2. \A a, b \in Requests : <<a>> \in Seq(Requests) /\ <<a, b>> \in Seq(Requests)
  OBVIOUS
<1>3. ASSUME UNCHANGED <<devicePane, shownSwitch, installed>>, NEW calls \in Seq(Requests),
             \A i \in 1 .. Len(calls) : calls[i].op \notin SwitchOps, Invoke(calls)
      PROVE  SwitchQueue'
  <2>1. requests' = requests \o calls
    BY <1>3 DEF Invoke
  <2>2. Follows(requests, requests', 0, SwitchOps)
    BY <1>1, <1>3, <2>1, FollowsInvoke
  <2>3. QED
    BY <1>3, <2>2, SwitchFollows
<1>4. ASSUME NEW call \in Requests, call.op \notin SwitchOps, Invoke(<<call>>),
             UNCHANGED <<devicePane, shownSwitch, installed>>
      PROVE  SwitchQueue'
  <2> DEFINE calls == <<call>>
  <2>1. calls \in Seq(Requests) /\ \A i \in 1 .. Len(calls) : calls[i].op \notin SwitchOps
    BY <1>2, <1>4
  <2>2. Invoke(calls)
    BY <1>4
  <2> HIDE DEF calls
  <2>3. QED
    BY <1>3, <1>4, <2>1, <2>2
<1>5. CASE ShowSettingsWindow
  <2> DEFINE calls == <<GetConfig, GetSnapshot>>
  <2>1. calls \in Seq(Requests) /\ \A i \in 1 .. Len(calls) : calls[i].op \notin SwitchOps
    <3>1. Len(calls) = 2
      OBVIOUS
    <3>2. QED
      BY <1>2, <3>1, CallFacts DEF SwitchOps
  <2> HIDE DEF calls
  <2>2. UNCHANGED <<devicePane, shownSwitch, installed>> /\ Invoke(calls)
    BY <1>5 DEF ShowSettingsWindow, systemVars, paneVars, calls
  <2>3. QED
    BY <1>3, <2>1, <2>2
<1>6. ASSUME NEW next \in Configs, UpdateConfig(next) PROVE SwitchQueue'
  <2> DEFINE call == SetConfig(next, config)
  <2>1. UNCHANGED <<devicePane, shownSwitch, installed>> /\ Invoke(<<call>>) /\ config \in Configs
    BY <1>6 DEF UpdateConfig, systemVars, paneVars, WindowTypeOK
  <2>2. call \in Requests /\ call.op \notin SwitchOps
    BY <2>1, CallFacts DEF SwitchOps
  <2> HIDE DEF call
  <2>3. QED
    BY <1>4, <2>1, <2>2
<1>7. CASE FlipAutomation
  <2> DEFINE call == SetAutomation(~snapshot)
  <2>1. UNCHANGED <<devicePane, shownSwitch, installed>> /\ Invoke(<<call>>) /\ snapshot # Unknown
    BY <1>7 DEF FlipAutomation, systemVars, paneVars
  <2>2. (~snapshot) \in BOOLEAN
    BY <2>1 DEF WindowTypeOK
  <2>3. call \in Requests /\ call.op \notin SwitchOps
    BY <2>2, CallFacts DEF SwitchOps
  <2> HIDE DEF call
  <2>4. QED
    BY <1>4, <2>1, <2>3
<1>8. CASE HandleGetConfig \/ (\E ok \in BOOLEAN : HandleSetConfig(ok))
           \/ HandleGetSnapshot \/ HandleSetAutomation
  <2>1. /\ UNCHANGED <<devicePane, shownSwitch, installed>> /\ requests # <<>>
        /\ Head(requests).op \notin SwitchOps /\ requests' = Tail(requests)
    BY <1>8 DEF HandleGetConfig, HandleSetConfig, HandleGetSnapshot, HandleSetAutomation, Handles,
                SwitchOps, systemVars, paneVars
  <2>2. Follows(requests, requests', 1, SwitchOps)
    BY <1>1, <2>1, FollowsHandled
  <2>3. QED
    BY <2>1, <2>2, SwitchFollows
<1>9. CASE TogglesInTray \/ CoreActs \/ UNCHANGED windowVars
  <2>1. UNCHANGED <<devicePane, shownSwitch, installed, requests>>
    BY <1>9 DEF TogglesInTray, CoreActs, OverrideByPhone, SnapshotInterval, CoreBoots,
                CoreStops, systemVars, paneVars, windowVars
  <2>2. QED
    BY <2>1 DEF SwitchQueue
<1>10. QED
  BY <1>5, <1>6, <1>7, <1>8, <1>9, PaneStep, FlipStep, SwitchAnswered
     DEF WindowNext, UserActs, MainHandles

\* WindowIInv holds in every reachable state, for any configurations and any number of
\* calls under way.
THEOREM WindowIInvHolds == WindowSpec => []WindowIInv
<1>1. WindowInit => WindowIInv
  <2> SUFFICES ASSUME WindowInit PROVE WindowIInv
    OBVIOUS
  <2>1. requests = <<>> /\ Len(requests) = 0 /\ requests \in Seq(Requests)
    BY DEF WindowInit
  <2>2. NoSwitches \in [Switches -> BOOLEAN \cup {Unknown}] /\ NoErrors \in [Switches -> BOOLEAN]
    BY DEF NoSwitches, NoErrors
  <2>3. WindowTypeOK
    <3>1. disk \in Configs /\ installed \in [Switches -> BOOLEAN] /\ config = Unknown
          /\ latestSnapshot = Unknown /\ snapshot = Unknown
      BY WindowAssumption DEF WindowInit
    <3>2. {coreUp, coreStatus, open, saving, error, devicePane} \subseteq BOOLEAN
      BY DEF WindowInit
    <3>3. shownSwitch \in [Switches -> BOOLEAN \cup {Unknown}] /\ switchError \in [Switches -> BOOLEAN]
      BY <2>2 DEF WindowInit
    <3>4. Len(requests) <= MaxInvokes
      BY <2>1, WindowAssumption
    <3>5. QED
      BY <3>1, <3>2, <3>3, <3>4 DEF WindowTypeOK
  <2>4. QueueTypeOK /\ ConfigQueue /\ SwitchQueue
    BY <2>1 DEF WindowInit, QueueTypeOK, ConfigQueue, SwitchQueue
  <2>5. QED
    BY <2>3, <2>4 DEF WindowIInv
<1>2. WindowIInv /\ [WindowNext]_windowVars => WindowIInv'
  <2> SUFFICES ASSUME WindowIInv, [WindowNext]_windowVars PROVE WindowIInv'
    OBVIOUS
  <2>1. WindowTypeOK /\ QueueTypeOK /\ ConfigQueue /\ SwitchQueue
    BY DEF WindowIInv
  <2>2. WindowTypeOK' /\ QueueTypeOK'
    <3>1. CASE UNCHANGED windowVars
      <4>1. UNCHANGED <<disk, installed, coreUp, coreStatus, latestSnapshot, snapshot, open, config,
                        saving, error, devicePane, shownSwitch, switchError, requests>>
        BY <3>1 DEF windowVars, systemVars, coreVars, snapshotVars, configVars, paneVars
      <4>2. QED
        BY <2>1, <4>1 DEF WindowTypeOK, QueueTypeOK
    <3>2. QED
      BY <2>1, <3>1, UserTypeStep, MainTypeStep DEF WindowNext
  <2>3. requests' \in Seq(Requests)
    BY <2>2 DEF QueueTypeOK
  <2>4. QED
    BY <2>1, <2>2, <2>3, ConfigStep, SwitchStep DEF WindowIInv
<1>3. QED
  BY <1>1, <1>2, PTL DEF WindowSpec

\* What the window shows is so once its calls are answered, unless it shows an error.
THEOREM WindowInvHolds == WindowSpec => []WindowInv
<1>1. WindowIInv => WindowInv
  <2> SUFFICES ASSUME WindowIInv PROVE WindowInv
    OBVIOUS
  <2>1. DOMAIN requests = 1 .. Len(requests)
    BY DEF WindowIInv, QueueTypeOK
  <2>2. DriftIsFlagged
    BY <2>1 DEF WindowIInv, ConfigQueue, DriftIsFlagged, Unanswered
  <2>3. SettledSwitchIsTrue
    BY <2>1 DEF WindowIInv, SwitchQueue, SettledSwitchIsTrue, AsksFor
  <2>4. QED
    BY <2>2, <2>3 DEF WindowIInv, WindowInv
<1>2. QED
  BY <1>1, WindowIInvHolds, PTL

-----------------------------------------------------------------------------
(***************************************************************************)
(* The configuration file.  ConfigIInv binds what the panes show and what  *)
(* the core runs to the file or to the write under way, and what is listed *)
(* twice or is too low to what was written by hand.                        *)
(***************************************************************************)

ConfigTyped ==
    /\ file \in {Absent, Garbled} \cup ConfigShape
    /\ handmade \in {Absent, Garbled} \cup ConfigShape
    /\ shownConfig \in {Absent} \cup ConfigShape
    /\ core \in {Absent} \cup ConfigShape
    /\ writing # <<>> =>
          writing = <<writing[1]>> /\ writing[1] \in [config : ConfigShape, restart : BOOLEAN]
    /\ appUp \in BOOLEAN /\ restartDue \in BOOLEAN

\* Nothing of the app is left when it is down.
DownIsDown == ~appUp => core = Absent /\ shownConfig = Absent /\ writing = <<>> /\ ~restartDue

\* The panes show the file, or what is about to be the file.
ShownIsFile ==
    shownConfig # Absent => shownConfig = IF writing = <<>> THEN file ELSE writing[1].config

\* Only the first run writes without a restart, where there is no file.
FirstWriteIsFirst ==
    writing # <<>> /\ ~writing[1].restart =>
        core = Absent /\ file = Absent /\ writing[1].config = FirstRunConfig

CoreRunsFile == core # Absent /\ ~restartDue /\ writing = <<>> => core = file

\* Plugins listed twice: in the file they are what was written by hand, and a
\* write never adds one.
DoublesInFile ==
    Parses(file) => \A p \in Registered : Entries(file.enabledPlugins, p) > 1 =>
        /\ Parses(handmade)
        /\ Entries(handmade.enabledPlugins, p) = Entries(file.enabledPlugins, p)

DoublesInWrite ==
    writing # <<>> => \A p \in Registered : Entries(writing[1].config.enabledPlugins, p) > 1 =>
        /\ Parses(file)
        /\ Entries(writing[1].config.enabledPlugins, p) = Entries(file.enabledPlugins, p)

\* The timeout is at its minimum or over it, unless written by hand.
LowIsHandmade(timeout) ==
    timeout < MinTimeout => Parses(handmade) /\ handmade.absenceTimeout <= timeout

TimeoutsAreSane ==
    /\ Parses(file) => LowIsHandmade(file.absenceTimeout)
    /\ writing # <<>> => LowIsHandmade(writing[1].config.absenceTimeout)

ConfigIInv ==
    /\ ConfigTyped /\ DownIsDown /\ FileStaysWhole /\ ShownIsFile /\ FirstWriteIsFirst
    /\ CoreRunsFile /\ DoublesInFile /\ DoublesInWrite /\ TimeoutsAreSane

\* A configuration is neither of the two contents that are none.
LEMMA ConfigParses ==
  ASSUME NEW content \in ConfigShape
  PROVE  content # Absent /\ content # Garbled /\ Parses(content)
<1>1. "what" \notin DOMAIN content
  BY DEF ConfigShape
<1>2. "what" \in DOMAIN Absent /\ "what" \in DOMAIN Garbled
  BY DEF Absent, Garbled, NotConfig
<1>3. QED
  BY <1>1, <1>2 DEF Parses

LEMMA AbsentIsNotGarbled == Absent # Garbled
<1>1. Absent["what"] = "absent" /\ Garbled["what"] = "garbled"
  BY DEF Absent, Garbled, NotConfig
<1>2. QED
  BY <1>1

\* What parses is a configuration.
LEMMA ParsesIsConfig ==
  ASSUME NEW content \in {Absent, Garbled} \cup ConfigShape
  PROVE  Parses(content) <=> content \in ConfigShape
BY ConfigParses DEF Parses

LEMMA FirstRunFacts ==
  /\ FirstRunConfig \in ConfigShape
  /\ \A p \in Registered : Entries(FirstRunConfig.enabledPlugins, p) = 1
  /\ FirstRunConfig.absenceTimeout >= MinTimeout
<1>1. /\ FirstRunConfig.enabledPlugins = DefaultPlugins
      /\ FirstRunConfig.absenceTimeout = DefaultTimeout
  BY DEF FirstRunConfig, Config
<1>2. DefaultTimeout \in Nat /\ MinTimeout \in Nat /\ MinTimeout <= DefaultTimeout
  BY ConfigFileAssumption
<1>3. FirstRunConfig \in ConfigShape
  BY <1>2, ConfigFileAssumption DEF FirstRunConfig, Config, ConfigShape
<1>4. \A p \in Registered : Entries(DefaultPlugins, p) = 1
  BY ConfigFileAssumption DEF Registered
<1>5. QED
  BY <1>1, <1>2, <1>3, <1>4

\* A click leaves every other plugin's entries alone, and of its own at most one.
LEMMA TogglesFacts ==
  ASSUME NEW S, NEW list \in Seq(S), NEW id \in S
  PROVE  /\ Toggles(list, id) \in Seq(S)
         /\ \A p : \/ Entries(Toggles(list, id), p) = Entries(list, p)
                   \/ Entries(Toggles(list, id), p) <= 1
<1>1. CASE id \in Range(list)
  <2>1. Toggles(list, id) = Without(list, {id})
    BY <1>1 DEF Toggles
  <2>2. Without(list, {id}) \in Seq(S \ {id})
    BY WithoutFacts
  <2>3. Without(list, {id}) \in Seq(S)
    BY <2>2
  <2>4. \A p : Entries(Without(list, {id}), p) = IF p \in {id} THEN 0 ELSE Entries(list, p)
    BY WithoutFacts
  <2>5. ASSUME NEW p
        PROVE  \/ Entries(Toggles(list, id), p) = Entries(list, p)
               \/ Entries(Toggles(list, id), p) <= 1
    <3>1. CASE p = id
      <4>1. Entries(Toggles(list, id), p) = 0
        BY <2>1, <2>4, <3>1
      <4>2. QED
        BY <4>1
    <3>2. CASE p # id
      BY <2>1, <2>4, <3>2
    <3>3. QED
      BY <3>1, <3>2
  <2>6. QED
    BY <2>1, <2>3, <2>5
<1>2. CASE id \notin Range(list)
  <2>1. Toggles(list, id) = Append(list, id)
    BY <1>2 DEF Toggles
  <2>2. \A p : Entries(Append(list, id), p) = Entries(list, p) + (IF id = p THEN 1 ELSE 0)
    BY EntriesAppend
  <2>3. \A p : Entries(list, p) \in Nat
    BY EntriesAmong
  <2>4. Entries(list, id) = 0
    <3>1. {i \in DOMAIN list : list[i] = id} = {}
      BY <1>2 DEF Range
    <3>2. QED
      BY <3>1, FS_EmptySet DEF Entries
  <2>5. ASSUME NEW p
        PROVE  \/ Entries(Toggles(list, id), p) = Entries(list, p)
               \/ Entries(Toggles(list, id), p) <= 1
    <3>1. CASE id = p
      <4>1. Entries(Toggles(list, id), p) = 1
        BY <2>1, <2>2, <2>4, <3>1
      <4>2. QED
        BY <4>1
    <3>2. CASE id # p
      <4>1. Entries(Toggles(list, id), p) = Entries(list, p) + 0
        BY <2>1, <2>2, <3>2
      <4>2. QED
        BY <2>3, <4>1
    <3>3. QED
      BY <3>1, <3>2
  <2>6. Append(list, id) \in Seq(S)
    OBVIOUS
  <2>7. QED
    BY <2>1, <2>5, <2>6
<1>3. QED
  BY <1>1, <1>2

\* What a pane makes of a configuration is one, lists nothing twice that was not,
\* and takes no timeout under the minimum that was not lower already.
LEMMA EditFacts ==
  ASSUME NEW content \in ConfigShape,
         NEW next \in PluginEdits(content) \cup WidgetEdits(content) \cup PresenceEdits(content)
  PROVE  /\ next \in ConfigShape
         /\ \A p : \/ Entries(next.enabledPlugins, p) = Entries(content.enabledPlugins, p)
                   \/ Entries(next.enabledPlugins, p) <= 1
         /\ next.absenceTimeout >= content.absenceTimeout \/ next.absenceTimeout >= MinTimeout
<1>1. /\ content.enabledPlugins \in Seq(STRING) /\ content.visibleWidgets \in Seq(STRING)
      /\ content.absenceTimeout \in Nat
  BY DEF ConfigShape
<1>2. MinTimeout \in Nat /\ StepTime \in Nat
  BY ConfigFileAssumption
<1>3. CASE next \in PluginEdits(content)
  <2>1. PICK id \in Registered :
           next = [content EXCEPT !.enabledPlugins = Toggles(@, id)]
    BY <1>3 DEF PluginEdits
  <2>2. id \in STRING
    BY <2>1, ConfigFileAssumption DEF Registered, Range
  <2>3. /\ next.enabledPlugins = Toggles(content.enabledPlugins, id)
        /\ next.absenceTimeout = content.absenceTimeout
    BY <2>1 DEF ConfigShape
  <2>4. /\ Toggles(content.enabledPlugins, id) \in Seq(STRING)
        /\ \A p : \/ Entries(Toggles(content.enabledPlugins, id), p)
                        = Entries(content.enabledPlugins, p)
                  \/ Entries(Toggles(content.enabledPlugins, id), p) <= 1
    BY <1>1, <2>2, TogglesFacts
  <2>5. next \in ConfigShape
    BY <2>1, <2>4 DEF ConfigShape
  <2>6. QED
    BY <1>1, <2>3, <2>4, <2>5
<1>4. CASE next \in WidgetEdits(content)
  <2>1. PICK id \in Range(DefaultTiles) :
           next = [content EXCEPT !.visibleWidgets = Toggles(@, id)]
    BY <1>4 DEF WidgetEdits
  <2>2. id \in STRING
    BY <2>1, ConfigFileAssumption DEF Range
  <2>3. /\ next.enabledPlugins = content.enabledPlugins
        /\ next.absenceTimeout = content.absenceTimeout
    BY <2>1 DEF ConfigShape
  <2>4. Toggles(content.visibleWidgets, id) \in Seq(STRING)
    BY <1>1, <2>2, TogglesFacts
  <2>5. next \in ConfigShape
    BY <2>1, <2>4 DEF ConfigShape
  <2>6. QED
    BY <1>1, <2>3, <2>5
<1>5. CASE next \in PresenceEdits(content)
  <2>1. PICK timeout \in {Decreases(content.absenceTimeout), content.absenceTimeout + StepTime} :
           next = [content EXCEPT !.absenceTimeout = timeout]
    BY <1>5 DEF PresenceEdits
  <2>2. timeout \in Nat /\ (timeout >= content.absenceTimeout \/ timeout >= MinTimeout)
    BY <1>1, <1>2 DEF Decreases
  <2>3. next.enabledPlugins = content.enabledPlugins /\ next.absenceTimeout = timeout
    BY <2>1 DEF ConfigShape
  <2>4. next \in ConfigShape
    BY <2>1, <2>2 DEF ConfigShape
  <2>5. QED
    BY <2>2, <2>3, <2>4
<1>6. QED
  BY <1>3, <1>4, <1>5

LEMMA UntouchedFacts ==
  ASSUME NEW S, NEW list \in Seq(S), NEW before, NEW after
  PROVE  /\ Untouched(list, before, after) \in Seq(S)
         /\ \A p : Entries(before, p) = Entries(after, p) =>
                      Entries(Untouched(list, before, after), p) = Entries(list, p)
<1> DEFINE drop == {p \in Range(list) : Entries(before, p) # Entries(after, p)}
<1>1. Untouched(list, before, after) = Without(list, drop)
  BY DEF Untouched
<1>2. \A p : Entries(before, p) = Entries(after, p) => p \notin drop
  OBVIOUS
<1> HIDE DEF drop
<1>3. /\ Without(list, drop) \in Seq(S \ drop)
      /\ \A p : Entries(Without(list, drop), p) = IF p \in drop THEN 0 ELSE Entries(list, p)
  BY WithoutFacts
<1>4. Without(list, drop) \in Seq(S)
  BY <1>3
<1>5. QED
  BY <1>1, <1>2, <1>3, <1>4

\* What neither file, writing nor handmade has a part in keeps the history true.
LEMMA HistoryStays ==
  ASSUME DoublesInFile, DoublesInWrite, TimeoutsAreSane, UNCHANGED <<file, writing, handmade>>
  PROVE  DoublesInFile' /\ DoublesInWrite' /\ TimeoutsAreSane'
BY DEF DoublesInFile, DoublesInWrite, TimeoutsAreSane, LowIsHandmade, Parses

LEMMA AppStartsStep ==
  ASSUME ConfigIInv, AppStarts
  PROVE  ConfigIInv'
<1>1. /\ appUp' = TRUE /\ UNCHANGED <<shownConfig, restartDue, core, editCount, handmade, file>>
      /\ shownConfig = Absent /\ core = Absent /\ writing = <<>> /\ ~restartDue /\ appUp = FALSE
  BY DEF AppStarts, Writes, OpensTemp, ConfigIInv, DownIsDown, ConfigTyped
<1>2. CASE file = Absent
  <2>1. writing' = <<[config |-> FirstRunConfig, restart |-> FALSE]>>
    BY <1>2 DEF AppStarts, Writes
  <2>2. /\ writing' # <<>> /\ writing'[1].config = FirstRunConfig /\ writing'[1].restart = FALSE
        /\ writing' = <<writing'[1]>>
        /\ writing'[1] \in [config : ConfigShape, restart : BOOLEAN]
    <3>1. [config |-> FirstRunConfig, restart |-> FALSE] \in [config : ConfigShape, restart : BOOLEAN]
      BY FirstRunFacts
    <3>2. QED
      BY <2>1, <3>1
  <2>3. ConfigTyped'
    BY <1>1, <2>2 DEF ConfigIInv, ConfigTyped
  <2>4. DownIsDown' /\ FileStaysWhole' /\ FirstWriteIsFirst' /\ ShownIsFile' /\ CoreRunsFile'
    BY <1>1, <1>2, <2>2, AbsentIsNotGarbled DEF DownIsDown, FileStaysWhole, FirstWriteIsFirst, ShownIsFile, CoreRunsFile
  <2>5. DoublesInFile' /\ DoublesInWrite'
    BY <1>1, <1>2, <2>2, FirstRunFacts
    DEF DoublesInFile, DoublesInWrite, Parses
  <2>6. TimeoutsAreSane'
    <3>1. ~(FirstRunConfig.absenceTimeout < MinTimeout)
      <4>1. FirstRunConfig.absenceTimeout \in Nat /\ MinTimeout \in Nat
        BY FirstRunFacts, ConfigFileAssumption DEF ConfigShape
      <4>2. QED
        BY <4>1, FirstRunFacts
    <3>2. QED
      BY <1>1, <1>2, <2>2, <3>1 DEF TimeoutsAreSane, LowIsHandmade, Parses
  <2>7. QED
    BY <2>3, <2>4, <2>5, <2>6 DEF ConfigIInv
<1>3. CASE file # Absent
  <2>1. UNCHANGED <<file, writing, handmade>>
    BY <1>1, <1>3 DEF AppStarts
  <2>2. ConfigTyped'
    BY <1>1, <2>1 DEF ConfigIInv, ConfigTyped
  <2>3. DownIsDown' /\ FileStaysWhole' /\ FirstWriteIsFirst' /\ ShownIsFile' /\ CoreRunsFile'
    BY <1>1, <1>3, <2>1 DEF ConfigIInv, DownIsDown, FileStaysWhole, FirstWriteIsFirst, ShownIsFile, CoreRunsFile
  <2>4. DoublesInFile' /\ DoublesInWrite' /\ TimeoutsAreSane'
    BY <2>1, HistoryStays DEF ConfigIInv
  <2>5. QED
    BY <2>2, <2>3, <2>4 DEF ConfigIInv
<1>4. QED
  BY <1>2, <1>3

LEMMA RenamesStep ==
  ASSUME ConfigIInv, Renames
  PROVE  ConfigIInv'
<1> DEFINE w == writing[1]
<1>1. /\ w \in [config : ConfigShape, restart : BOOLEAN]
      /\ writing # <<>> /\ writing' = <<>> /\ file' = w.config
      /\ restartDue' = (restartDue \/ w.restart)
      /\ UNCHANGED <<appUp, shownConfig, core, editCount>>
  BY DEF Renames, ConfigIInv, ConfigTyped
<1>2. w.config \in ConfigShape /\ w.restart \in BOOLEAN /\ Parses(file') /\ file' # Absent /\ file' # Garbled
  BY <1>1, ConfigParses
<1>3. /\ handmade \in {Absent, Garbled} \cup ConfigShape
      /\ handmade' = IF Parses(handmade)
                     THEN [handmade EXCEPT !.enabledPlugins =
                              Untouched(@, file.enabledPlugins, file'.enabledPlugins)]
                     ELSE Absent
  BY DEF ConfigIInv, ConfigTyped, Renames
<1>4. ASSUME Parses(handmade)
      PROVE  /\ handmade' \in ConfigShape /\ Parses(handmade')
             /\ handmade'.absenceTimeout = handmade.absenceTimeout
             /\ \A p : Entries(file.enabledPlugins, p) = Entries(file'.enabledPlugins, p) =>
                   Entries(handmade'.enabledPlugins, p) = Entries(handmade.enabledPlugins, p)
  <2> DEFINE left == Untouched(handmade.enabledPlugins, file.enabledPlugins, file'.enabledPlugins)
  <2>1. handmade \in ConfigShape
    BY <1>3, <1>4, ParsesIsConfig
  <2>2. handmade.enabledPlugins \in Seq(STRING)
    BY <2>1 DEF ConfigShape
  <2>3. /\ left \in Seq(STRING)
        /\ \A p : Entries(file.enabledPlugins, p) = Entries(file'.enabledPlugins, p) =>
              Entries(left, p) = Entries(handmade.enabledPlugins, p)
    BY <2>2, UntouchedFacts
  <2> HIDE DEF left
  <2>4. handmade' = [handmade EXCEPT !.enabledPlugins = left]
    BY <1>3, <1>4 DEF left
  <2>5. handmade' \in ConfigShape /\ handmade'.absenceTimeout = handmade.absenceTimeout
        /\ handmade'.enabledPlugins = left
    BY <2>1, <2>3, <2>4 DEF ConfigShape
  <2>6. Parses(handmade')
    BY <2>5, ConfigParses
  <2>7. QED
    BY <2>3, <2>5, <2>6
<1>5. /\ ShownIsFile /\ DownIsDown /\ DoublesInFile /\ DoublesInWrite /\ TimeoutsAreSane
      /\ FirstWriteIsFirst /\ ConfigTyped
  BY DEF ConfigIInv
<1>6. appUp /\ ~(~appUp)
  BY <1>1, <1>5 DEF DownIsDown
<1>7. /\ shownConfig # Absent => shownConfig = w.config
      /\ ~w.restart => core = Absent
  BY <1>1, <1>5 DEF ShownIsFile, FirstWriteIsFirst
<1>8. \A p \in Registered : Entries(w.config.enabledPlugins, p) > 1 =>
         Parses(file) /\ Entries(w.config.enabledPlugins, p) = Entries(file.enabledPlugins, p)
  BY <1>1, <1>5 DEF DoublesInWrite
<1>9. w.config.absenceTimeout < MinTimeout =>
         Parses(handmade) /\ handmade.absenceTimeout <= w.config.absenceTimeout
  BY <1>1, <1>5 DEF TimeoutsAreSane, LowIsHandmade
<1>10. Parses(file) => \A p \in Registered : Entries(file.enabledPlugins, p) > 1 =>
         /\ Parses(handmade)
         /\ Entries(handmade.enabledPlugins, p) = Entries(file.enabledPlugins, p)
  BY <1>5 DEF DoublesInFile
<1> HIDE DEF w
<1>11. handmade' \in {Absent, Garbled} \cup ConfigShape
  BY <1>3, <1>4
<1>12. ConfigTyped'
  BY <1>1, <1>2, <1>5, <1>11 DEF ConfigTyped
<1>13. DownIsDown' /\ FileStaysWhole' /\ ShownIsFile' /\ FirstWriteIsFirst' /\ CoreRunsFile'
  BY <1>1, <1>2, <1>6, <1>7 DEF DownIsDown, FileStaysWhole, ShownIsFile, FirstWriteIsFirst, CoreRunsFile
<1>14. DoublesInFile'
  <2> SUFFICES ASSUME NEW p \in Registered, Entries(w.config.enabledPlugins, p) > 1
               PROVE  /\ Parses(handmade')
                      /\ Entries(handmade'.enabledPlugins, p) = Entries(w.config.enabledPlugins, p)
    BY <1>1 DEF DoublesInFile, Registered
  <2>1. Parses(file) /\ Entries(w.config.enabledPlugins, p) = Entries(file.enabledPlugins, p)
    BY <1>8
  <2>2. Parses(handmade) /\ Entries(handmade.enabledPlugins, p) = Entries(file.enabledPlugins, p)
    BY <1>10, <2>1
  <2>3. QED
    BY <1>1, <1>4, <2>1, <2>2
<1>15. DoublesInWrite'
  BY <1>1 DEF DoublesInWrite
<1>16. TimeoutsAreSane'
  BY <1>1, <1>4, <1>9 DEF TimeoutsAreSane, LowIsHandmade
<1>17. QED
  BY <1>12, <1>13, <1>14, <1>15, <1>16 DEF ConfigIInv

LEMMA AppDiesStep ==
  ASSUME ConfigIInv, AppDies
  PROVE  ConfigIInv'
<1>1. /\ appUp' = FALSE /\ writing' = <<>> /\ shownConfig' = Absent /\ restartDue' = FALSE
      /\ core' = Absent /\ UNCHANGED <<file, editCount, handmade>>
  BY DEF AppDies
<1>2. ConfigTyped'
  BY <1>1 DEF ConfigIInv, ConfigTyped
<1>3. DownIsDown' /\ FileStaysWhole' /\ ShownIsFile' /\ FirstWriteIsFirst' /\ CoreRunsFile'
  BY <1>1 DEF ConfigIInv, DownIsDown, FileStaysWhole, ShownIsFile, FirstWriteIsFirst, CoreRunsFile
<1>4. DoublesInFile' /\ DoublesInWrite' /\ TimeoutsAreSane'
  BY <1>1 DEF ConfigIInv, DoublesInFile, DoublesInWrite, TimeoutsAreSane, LowIsHandmade, Parses
<1>5. QED
  BY <1>2, <1>3, <1>4 DEF ConfigIInv

LEMMA HandEditsStep ==
  ASSUME ConfigIInv, NEW content \in HandWritten \cup {Garbled}, HandEdits(content)
  PROVE  ConfigIInv'
<1>1. /\ ~appUp /\ file' = content /\ handmade' = content
      /\ UNCHANGED <<writing, appUp, shownConfig, restartDue, core>>
  BY DEF HandEdits
<1>2. writing = <<>> /\ shownConfig = Absent /\ core = Absent /\ ~restartDue
  BY <1>1 DEF ConfigIInv, DownIsDown
<1>3. content \in {Garbled} \cup ConfigShape
  BY ConfigFileAssumption
<1>4. ConfigTyped'
  BY <1>1, <1>2, <1>3 DEF ConfigIInv, ConfigTyped
<1>5. DownIsDown' /\ FileStaysWhole' /\ ShownIsFile' /\ FirstWriteIsFirst' /\ CoreRunsFile'
  BY <1>1, <1>2 DEF DownIsDown, FileStaysWhole, ShownIsFile, FirstWriteIsFirst, CoreRunsFile
<1>6. DoublesInFile' /\ DoublesInWrite'
  BY <1>1, <1>2 DEF DoublesInFile, DoublesInWrite
<1>7. TimeoutsAreSane'
  <2>1. CASE content = Garbled
    BY <1>1, <1>2, <2>1 DEF TimeoutsAreSane, Parses
  <2>2. CASE content \in ConfigShape
    <3>1. content.absenceTimeout <= content.absenceTimeout
      BY <2>2 DEF ConfigShape
    <3>2. Parses(content)
      BY <2>2, ConfigParses
    <3>3. QED
      BY <1>1, <1>2, <3>1, <3>2 DEF TimeoutsAreSane, LowIsHandmade
  <2>3. QED
    BY <1>3, <2>1, <2>2
<1>8. QED
  BY <1>4, <1>5, <1>6, <1>7 DEF ConfigIInv

LEMMA SomePaneEditsStep ==
  ASSUME ConfigIInv, SomePaneEdits
  PROVE  ConfigIInv'
<1>1. PICK next \in PluginEdits(shownConfig) \cup WidgetEdits(shownConfig)
                       \cup PresenceEdits(shownConfig) : PaneEdits(next)
  BY DEF SomePaneEdits
<1>2. /\ shownConfig # Absent /\ writing = <<>> /\ shownConfig' = next
      /\ writing' = <<[config |-> next, restart |-> TRUE]>>
      /\ UNCHANGED <<file, appUp, restartDue, core, handmade>>
  BY <1>1 DEF SomePaneEdits, PaneEdits, Writes, OpensTemp
<1>3. shownConfig \in ConfigShape /\ shownConfig = file /\ appUp
  BY <1>2 DEF ConfigIInv, ConfigTyped, ShownIsFile, DownIsDown
<1>4. /\ next \in ConfigShape
      /\ \A p : \/ Entries(next.enabledPlugins, p) = Entries(file.enabledPlugins, p)
                \/ Entries(next.enabledPlugins, p) <= 1
      /\ next.absenceTimeout >= file.absenceTimeout \/ next.absenceTimeout >= MinTimeout
  BY <1>1, <1>3, EditFacts
<1>5. /\ writing' # <<>> /\ writing'[1].config = next /\ writing'[1].restart = TRUE
      /\ writing' = <<writing'[1]>>
      /\ writing'[1] \in [config : ConfigShape, restart : BOOLEAN]
  BY <1>2, <1>4
<1>6. Parses(file) /\ file # Absent
  BY <1>3, ConfigParses
<1>7. ConfigTyped'
  BY <1>2, <1>4, <1>5 DEF ConfigIInv, ConfigTyped
<1>8. DownIsDown' /\ FileStaysWhole' /\ ShownIsFile' /\ FirstWriteIsFirst' /\ CoreRunsFile'
  BY <1>2, <1>3, <1>5, <1>6
  DEF ConfigIInv, DownIsDown, FileStaysWhole, ShownIsFile, FirstWriteIsFirst, CoreRunsFile
<1>9. DoublesInFile'
  BY <1>2 DEF ConfigIInv, DoublesInFile, Parses
<1>10. DoublesInWrite'
  <2> SUFFICES ASSUME NEW p \in Registered, Entries(next.enabledPlugins, p) > 1
               PROVE  Entries(next.enabledPlugins, p) = Entries(file.enabledPlugins, p)
    BY <1>2, <1>5, <1>6 DEF DoublesInWrite, Parses, Registered
  <2>1. next.enabledPlugins \in Seq(STRING)
    BY <1>4 DEF ConfigShape
  <2>2. Entries(next.enabledPlugins, p) \in Nat
    BY <2>1, EntriesAmong
  <2>3. ~(Entries(next.enabledPlugins, p) <= 1)
    BY <2>2
  <2>4. QED
    BY <1>4, <2>3
<1>11. TimeoutsAreSane'
  <2>1. Parses(file) => LowIsHandmade(file.absenceTimeout)
    BY DEF ConfigIInv, TimeoutsAreSane
  <2>2. ASSUME next.absenceTimeout < MinTimeout
        PROVE  Parses(handmade) /\ handmade.absenceTimeout <= next.absenceTimeout
    <3>1. next.absenceTimeout \in Nat /\ file.absenceTimeout \in Nat /\ MinTimeout \in Nat
      BY <1>3, <1>4, ConfigFileAssumption DEF ConfigShape
    <3>2. next.absenceTimeout >= file.absenceTimeout
      BY <1>4, <2>2, <3>1
    <3>3. file.absenceTimeout < MinTimeout
      BY <2>2, <3>1, <3>2
    <3>4. Parses(handmade) /\ handmade.absenceTimeout <= file.absenceTimeout
      BY <1>6, <2>1, <3>3 DEF LowIsHandmade
    <3>5. handmade.absenceTimeout \in Nat
      <4>1. handmade \in ConfigShape
        BY <3>4, ParsesIsConfig DEF ConfigIInv, ConfigTyped
      <4>2. QED
        BY <4>1 DEF ConfigShape
    <3>6. QED
      BY <3>1, <3>2, <3>4, <3>5
  <2>3. QED
    BY <1>2, <1>5, <2>1, <2>2 DEF TimeoutsAreSane, LowIsHandmade, Parses
<1>12. QED
  BY <1>7, <1>8, <1>9, <1>10, <1>11 DEF ConfigIInv

LEMMA WindowStepsOfFile ==
  ASSUME ConfigIInv, WindowLoads \/ WindowCloses
  PROVE  ConfigIInv'
<1>1. /\ UNCHANGED <<file, writing, appUp, restartDue, core, handmade>>
      /\ shownConfig' = Absent \/ (appUp /\ writing = <<>> /\ Parses(file) /\ shownConfig' = file)
  BY DEF WindowLoads, WindowCloses
<1>2. shownConfig' \in {Absent} \cup ConfigShape
  <2>1. file \in {Absent, Garbled} \cup ConfigShape
    BY DEF ConfigIInv, ConfigTyped
  <2>2. QED
    BY <1>1, <2>1, ParsesIsConfig
<1>3. ConfigTyped'
  BY <1>1, <1>2 DEF ConfigIInv, ConfigTyped
<1>4. DownIsDown' /\ FileStaysWhole' /\ FirstWriteIsFirst' /\ CoreRunsFile'
  <2>1. ~appUp => shownConfig' = Absent
    BY <1>1
  <2>2. QED
    BY <1>1, <2>1 DEF ConfigIInv, DownIsDown, FileStaysWhole, FirstWriteIsFirst, CoreRunsFile
<1>5. ShownIsFile'
  BY <1>1 DEF ShownIsFile
<1>6. DoublesInFile' /\ DoublesInWrite' /\ TimeoutsAreSane'
  BY <1>1, HistoryStays DEF ConfigIInv
<1>7. QED
  BY <1>3, <1>4, <1>5, <1>6 DEF ConfigIInv

LEMMA CoreStepsOfFile ==
  ASSUME ConfigIInv, CoreStarts \/ CoreFails
  PROVE  ConfigIInv'
<1>1. /\ UNCHANGED <<file, writing, appUp, shownConfig, handmade>>
      /\ \/ core' = Absent /\ (restartDue' = restartDue \/ restartDue' = FALSE)
         \/ /\ appUp /\ Parses(file) /\ core' = file /\ restartDue' = FALSE
            /\ writing # <<>> => writing[1].restart
  BY DEF CoreStarts, CoreFails
<1>2. core' \in {Absent} \cup ConfigShape
  <2>1. file \in {Absent, Garbled} \cup ConfigShape
    BY DEF ConfigIInv, ConfigTyped
  <2>2. QED
    BY <1>1, <2>1, ParsesIsConfig
<1>3. ConfigTyped'
  BY <1>1, <1>2 DEF ConfigIInv, ConfigTyped
<1>4. DownIsDown'
  BY <1>1 DEF ConfigIInv, DownIsDown
<1>5. FileStaysWhole' /\ FirstWriteIsFirst' /\ CoreRunsFile' /\ ShownIsFile'
  BY <1>1 DEF ConfigIInv, FileStaysWhole, FirstWriteIsFirst, CoreRunsFile, ShownIsFile
<1>6. DoublesInFile' /\ DoublesInWrite' /\ TimeoutsAreSane'
  BY <1>1, HistoryStays DEF ConfigIInv
<1>7. QED
  BY <1>3, <1>4, <1>5, <1>6 DEF ConfigIInv

\* What the panes, the workers and the file agree on follows from the invariant.
LEMMA ConfigIInvImpliesInv == ConfigIInv => ConfigFileInv
<1> SUFFICES ASSUME ConfigIInv PROVE ConfigFileInv
  OBVIOUS
<1>1. FileStaysWhole
  BY DEF ConfigIInv
<1>2. ASSUME shownConfig # Absent, core # Absent, ~restartDue, writing = <<>>
      PROVE  shownConfig = file /\ core = file
  BY <1>2 DEF ConfigIInv, ShownIsFile, CoreRunsFile
<1>3. PanesShowWhatRuns
  <2> SUFFICES ASSUME CoreSettled
               PROVE  /\ \A p \in Registered :
                           p \in Range(shownConfig.enabledPlugins) <=> WorkersOf(p) # {}
                      /\ shownConfig.visibleWidgets = core.visibleWidgets
                      /\ shownConfig.absenceTimeout = core.absenceTimeout
    BY DEF PanesShowWhatRuns
  <2>1. shownConfig = file /\ core = file /\ core # Absent
    BY <1>2 DEF CoreSettled
  <2>2. ASSUME NEW p \in Registered
        PROVE  p \in Range(core.enabledPlugins) <=> WorkersOf(p) # {}
    BY <2>1 DEF WorkersOf, PluginSpecs, Range
  <2>3. QED
    BY <2>1, <2>2
<1>4. DoublesAreHandmade
  <2> SUFFICES ASSUME NEW p \in Registered, CoreSettled, Cardinality(WorkersOf(p)) > 1
               PROVE  Parses(handmade) /\ Entries(handmade.enabledPlugins, p) > 1
    BY DEF DoublesAreHandmade
  <2>1. shownConfig = file /\ core = file /\ core # Absent
    BY <1>2 DEF CoreSettled
  <2>2. WorkersOf(p) = {i \in DOMAIN file.enabledPlugins : file.enabledPlugins[i] = p}
    BY <2>1 DEF WorkersOf, PluginSpecs
  <2>3. Entries(file.enabledPlugins, p) > 1
    BY <2>2 DEF Entries
  <2>4. Parses(file)
    <3>1. core \in ConfigShape
      BY <2>1 DEF ConfigIInv, ConfigTyped
    <3>2. QED
      BY <2>1, <3>1, ConfigParses
  <2>5. QED
    BY <2>3, <2>4 DEF ConfigIInv, DoublesInFile
<1>5. TimeoutStaysSane
  <2> SUFFICES ASSUME shownConfig # Absent, shownConfig.absenceTimeout < MinTimeout
               PROVE  Parses(handmade) /\ handmade.absenceTimeout <= shownConfig.absenceTimeout
    BY DEF TimeoutStaysSane
  <2>1. CASE writing = <<>>
    <3>1. shownConfig = file /\ shownConfig \in ConfigShape
      BY <2>1 DEF ConfigIInv, ConfigTyped, ShownIsFile
    <3>2. Parses(file)
      BY <3>1, ConfigParses
    <3>3. LowIsHandmade(file.absenceTimeout)
      BY <3>2 DEF ConfigIInv, TimeoutsAreSane
    <3>4. QED
      BY <3>1, <3>3 DEF LowIsHandmade
  <2>2. CASE writing # <<>>
    <3>1. shownConfig = writing[1].config
      BY <2>2 DEF ConfigIInv, ShownIsFile
    <3>2. LowIsHandmade(writing[1].config.absenceTimeout)
      BY <2>2 DEF ConfigIInv, TimeoutsAreSane
    <3>3. QED
      BY <3>1, <3>2 DEF LowIsHandmade
  <2>3. QED
    BY <2>1, <2>2
<1>6. QED
  BY <1>1, <1>3, <1>4, <1>5 DEF ConfigFileInv

\* The strengthened invariant holds of every behaviour of the configuration file,
\* however often the app is killed and the file edited by hand
\* (configStore.ts:9-18, firstRunConfig.ts:24-29, entrypoint.ts:24-44).
THEOREM ConfigIInvHolds == ConfigFileSpec => []ConfigIInv
<1>1. ConfigFileInit => ConfigIInv
  <2> SUFFICES ASSUME ConfigFileInit PROVE ConfigIInv
    OBVIOUS
  <2>1. ConfigTyped
    BY DEF ConfigFileInit, ConfigTyped
  <2>2. DownIsDown /\ FileStaysWhole /\ ShownIsFile /\ FirstWriteIsFirst /\ CoreRunsFile
    BY AbsentIsNotGarbled
    DEF ConfigFileInit, DownIsDown, FileStaysWhole, ShownIsFile, FirstWriteIsFirst, CoreRunsFile
  <2>3. DoublesInFile /\ DoublesInWrite /\ TimeoutsAreSane
    BY DEF ConfigFileInit, DoublesInFile, DoublesInWrite, TimeoutsAreSane, Parses
  <2>4. QED
    BY <2>1, <2>2, <2>3 DEF ConfigIInv
<1>2. ConfigIInv /\ [ConfigFileNext]_configFileVars => ConfigIInv'
  <2> SUFFICES ASSUME ConfigIInv, [ConfigFileNext]_configFileVars PROVE ConfigIInv'
    OBVIOUS
  <2>1. CASE UNCHANGED configFileVars
    <3>1. UNCHANGED <<file, writing, appUp, shownConfig, restartDue, core, handmade>>
      BY <2>1 DEF configFileVars
    <3>2. /\ ConfigTyped' /\ DownIsDown' /\ FileStaysWhole' /\ ShownIsFile'
          /\ FirstWriteIsFirst' /\ CoreRunsFile'
      BY <3>1 DEF ConfigIInv, ConfigTyped, DownIsDown, FileStaysWhole, ShownIsFile,
                  FirstWriteIsFirst, CoreRunsFile
    <3>3. QED
      BY <3>1, <3>2, HistoryStays DEF ConfigIInv
  <2>2. CASE ConfigFileNext
    <3>1. CASE AppStarts
      BY <3>1, AppStartsStep
    <3>2. CASE Renames
      BY <3>2, RenamesStep
    <3>3. CASE AppDies
      BY <3>3, AppDiesStep
    <3>4. CASE \E content \in HandWritten \cup {Garbled} : HandEdits(content)
      BY <3>4, HandEditsStep
    <3>5. CASE WindowLoads \/ WindowCloses
      BY <3>5, WindowStepsOfFile
    <3>6. CASE SomePaneEdits
      BY <3>6, SomePaneEditsStep
    <3>7. CASE CoreStarts \/ CoreFails
      BY <3>7, CoreStepsOfFile
    <3>8. QED
      BY <2>2, <3>1, <3>2, <3>3, <3>4, <3>5, <3>6, <3>7 DEF ConfigFileNext
  <2>3. QED
    BY <2>1, <2>2
<1>3. QED
  BY <1>1, <1>2, PTL DEF ConfigFileSpec

\* Whatever moment the app is killed at, the file stays whole, the panes show what
\* runs, plugins run twice only for a list written by hand, and no click takes the
\* timeout too low (configStore.ts:9-18, entrypoint.ts:24-44, toggleInList.ts:3-6,
\* Stepper.tsx:46-60).
THEOREM ConfigFileInvHolds == ConfigFileSpec => []ConfigFileInv
BY ConfigIInvHolds, ConfigIInvImpliesInv, PTL
=============================================================================
