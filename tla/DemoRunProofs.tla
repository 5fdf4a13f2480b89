--------------------------- MODULE DemoRunProofs ---------------------------
(***************************************************************************)
(* Proofs about the program that drives the demo: its types, the processes *)
(* it starts and ends, and the network monitor's memory of flagged         *)
(* sessions.  Its verdicts are the subject of DemoVerdictProofs.           *)
(*                                                                         *)
(* The script differs with the way the program is started, so a line is    *)
(* named by its place: Lead lines open the script, the acts are the lines  *)
(* 1 to 31 after them, and line 32 ends it.  The first lemmas say what may *)
(* stand on which line; the invariants speak of lines by their numbers.    *)
(***************************************************************************)
EXTENDS DemoRun, FiniteSetTheorems, TLAPS

----------------------------------------------------------------------------
(* The script, line by line *)

\* The number of lines before the acts.
Lead == Len(Opening)

\* The line the program is on, counted from the first act.
Place == runner.pc - Lead

\* The ways the program may be started.
ModeType == [scripted : BOOLEAN, replay : BOOLEAN, root : BOOLEAN,
             dashboard : BOOLEAN, preflight : BOOLEAN]

\* Where an instruction may stand.
OpAt(op, k) ==
  /\ op = "dashboard" => k = 1 - Lead
  /\ op \in {"try", "preflight"} => k <= 0
  /\ op = "sleep" => k <= 0 \/ k \in {4, 20} \/ (IF mode.replay THEN k = 28 ELSE k = 22)
  /\ op = "baseline" => k = 2
  /\ op = "start_rf" => k = 3
  /\ op = "switch" => k \in {10, 15}
  /\ op = "traffic" => k = 19 /\ ~mode.replay
  /\ op = "start_tls" => IF mode.replay THEN k \in {19, 27} ELSE k = 21
  /\ op = "call" => k = 28 /\ ~mode.replay
  /\ op = "ask" => k \in {1, 8, 13} \/ (IF mode.replay THEN k = 24 ELSE k = 26)
  /\ op = "count" => k \in {5, 9, 14} \/ (IF mode.replay THEN k \in {21, 25} ELSE k \in {23, 27})
  /\ op = "dwell" => k \in {6, 11, 16, 29} \/ (IF mode.replay THEN k = 22 ELSE k = 24)
  /\ op = "judge" => k \in {7, 12, 17, 30} \/ (IF mode.replay THEN k = 23 ELSE k = 25)
  /\ op = "stop" => k \in {18, 31} \/ (mode.replay /\ k = 26)
  /\ op = "done" => k = 32

\* What its argument may be there.
ArgAt(op, arg, k) ==
  /\ op \in {"sleep", "dwell"} => arg \in Nat
  /\ op = "dwell" /\ k \in {11, 16, 29} => arg = AlarmDwell
  /\ op = "judge" => arg = (k \in {12, 17, 30})
  /\ op \in {"ask", "start_rf", "switch"} => arg \in SUBSET {"A", "B"}
  /\ op = "ask" /\ k \in {8, 13} => "B" \in arg
  /\ op = "switch" => "B" \in arg
  /\ op = "start_tls" => arg \in SUBSET Traffic
  /\ op = "start_tls" /\ k = 27 => "rogue" \in arg

\* An instruction that fits its line.
LineAt(op, arg, k) == OpAt(op, k) /\ ArgAt(op, arg, k)

\* As above, of the instruction as the script has it.
LineOK(ins, k) == \E op, arg : ins = Do(op, arg) /\ LineAt(op, arg, k)

\* s is a sequence of n elements.
IsTuple(s, n) == s = [k \in 1 .. n |-> s[k]]

\* The first act: lines 1 to 18.
LEMMA ActOneLines ==
  /\ IsTuple(ActOne, 18)
  /\ \A k \in 1 .. 18 : LineOK(ActOne[k], k)
<1> DEFINE Fits(k) == LineOK(ActOne[k], k)
<1>1. IsTuple(ActOne, 18)
  BY DEF ActOne, IsTuple
<1>2. {Settle, CaptureSettle, QuietDwell, AlarmDwell} \subseteq Nat
  BY DemoAssumption
<1>3. /\ ActOne[1] = Do("ask", {"A"}) /\ ActOne[2] = Do("baseline", None) /\ ActOne[3] = Do("start_rf", {"A"})
      /\ ActOne[4] = Do("sleep", Settle) /\ ActOne[5] = Do("count", None) /\ ActOne[6] = Do("dwell", QuietDwell)
      /\ ActOne[7] = Do("judge", FALSE) /\ ActOne[8] = Do("ask", {"A", "B"}) /\ ActOne[9] = Do("count", None)
      /\ ActOne[10] = Do("switch", {"A", "B"}) /\ ActOne[11] = Do("dwell", AlarmDwell) /\ ActOne[12] = Do("judge", TRUE)
      /\ ActOne[13] = Do("ask", {"B"}) /\ ActOne[14] = Do("count", None) /\ ActOne[15] = Do("switch", {"B"})
      /\ ActOne[16] = Do("dwell", AlarmDwell) /\ ActOne[17] = Do("judge", TRUE) /\ ActOne[18] = Do("stop", None)
  BY Zenon DEF ActOne
<1>4. /\ LineAt("ask", {"A"}, 1) /\ LineAt("baseline", None, 2) /\ LineAt("start_rf", {"A"}, 3)
      /\ LineAt("sleep", Settle, 4) /\ LineAt("count", None, 5) /\ LineAt("dwell", QuietDwell, 6)
  BY <1>2 DEF LineAt, OpAt, ArgAt, Traffic
<1>5. /\ LineAt("judge", FALSE, 7) /\ LineAt("ask", {"A", "B"}, 8) /\ LineAt("count", None, 9)
      /\ LineAt("switch", {"A", "B"}, 10) /\ LineAt("dwell", AlarmDwell, 11) /\ LineAt("judge", TRUE, 12)
  BY <1>2 DEF LineAt, OpAt, ArgAt, Traffic
<1>6. /\ LineAt("ask", {"B"}, 13) /\ LineAt("count", None, 14) /\ LineAt("switch", {"B"}, 15)
      /\ LineAt("dwell", AlarmDwell, 16) /\ LineAt("judge", TRUE, 17) /\ LineAt("stop", None, 18)
  BY <1>2 DEF LineAt, OpAt, ArgAt, Traffic
<1>7. /\ LineOK(ActOne[1], 1) /\ LineOK(ActOne[2], 2) /\ LineOK(ActOne[3], 3) /\ LineOK(ActOne[4], 4)
      /\ LineOK(ActOne[5], 5) /\ LineOK(ActOne[6], 6) /\ LineOK(ActOne[7], 7) /\ LineOK(ActOne[8], 8)
      /\ LineOK(ActOne[9], 9) /\ LineOK(ActOne[10], 10) /\ LineOK(ActOne[11], 11) /\ LineOK(ActOne[12], 12)
      /\ LineOK(ActOne[13], 13) /\ LineOK(ActOne[14], 14) /\ LineOK(ActOne[15], 15) /\ LineOK(ActOne[16], 16)
      /\ LineOK(ActOne[17], 17) /\ LineOK(ActOne[18], 18)
  BY <1>3, <1>4, <1>5, <1>6, Zenon DEF LineOK
<1>8. ASSUME NEW k \in 1 .. 18
      PROVE  Fits(k)
  <2>1. \/ k = 1 \/ k = 2 \/ k = 3 \/ k = 4 \/ k = 5 \/ k = 6 \/ k = 7 \/ k = 8 \/ k = 9
        \/ k = 10 \/ k = 11 \/ k = 12 \/ k = 13 \/ k = 14 \/ k = 15 \/ k = 16 \/ k = 17 \/ k = 18
    OBVIOUS
  <2> QED BY <2>1, <1>7
<1> QED BY <1>1, <1>8

\* The second act over recordings: lines 19 to 31.
LEMMA ActTwoReplayLines ==
  ASSUME mode.replay
  PROVE  /\ IsTuple(ActTwo, 13)
         /\ \A k \in 1 .. 13 : LineOK(ActTwo[k], k + 18)
<1> DEFINE Fits(k) == LineOK(ActTwo[k], k + 18)
<1>1. IsTuple(ActTwo, 13)
  BY DEF ActTwo, IsTuple
<1>2. {Settle, CaptureSettle, QuietDwell, AlarmDwell} \subseteq Nat
  BY DemoAssumption
<1>3. /\ ActTwo[1] = Do("start_tls", {"cloud"}) /\ ActTwo[2] = Do("sleep", CaptureSettle) /\ ActTwo[3] = Do("count", None)
      /\ ActTwo[4] = Do("dwell", QuietDwell) /\ ActTwo[5] = Do("judge", FALSE) /\ ActTwo[6] = Do("ask", {})
      /\ ActTwo[7] = Do("count", None) /\ ActTwo[8] = Do("stop", None) /\ ActTwo[9] = Do("start_tls", {"cloud", "rogue"})
      /\ ActTwo[10] = Do("sleep", CaptureSettle) /\ ActTwo[11] = Do("dwell", AlarmDwell) /\ ActTwo[12] = Do("judge", TRUE)
      /\ ActTwo[13] = Do("stop", None)
  BY Zenon DEF ActTwo
<1>4. /\ LineAt("start_tls", {"cloud"}, 19) /\ LineAt("sleep", CaptureSettle, 20) /\ LineAt("count", None, 21)
      /\ LineAt("dwell", QuietDwell, 22) /\ LineAt("judge", FALSE, 23) /\ LineAt("ask", {}, 24)
  BY <1>2 DEF LineAt, OpAt, ArgAt, Traffic
<1>5. /\ LineAt("count", None, 25) /\ LineAt("stop", None, 26) /\ LineAt("start_tls", {"cloud", "rogue"}, 27)
      /\ LineAt("sleep", CaptureSettle, 28) /\ LineAt("dwell", AlarmDwell, 29) /\ LineAt("judge", TRUE, 30)
  BY <1>2 DEF LineAt, OpAt, ArgAt, Traffic
<1>6. /\ LineAt("stop", None, 31)
  BY <1>2 DEF LineAt, OpAt, ArgAt, Traffic
<1>7. /\ LineOK(ActTwo[1], 19) /\ LineOK(ActTwo[2], 20) /\ LineOK(ActTwo[3], 21) /\ LineOK(ActTwo[4], 22)
      /\ LineOK(ActTwo[5], 23) /\ LineOK(ActTwo[6], 24) /\ LineOK(ActTwo[7], 25) /\ LineOK(ActTwo[8], 26)
      /\ LineOK(ActTwo[9], 27) /\ LineOK(ActTwo[10], 28) /\ LineOK(ActTwo[11], 29) /\ LineOK(ActTwo[12], 30)
      /\ LineOK(ActTwo[13], 31)
  BY <1>3, <1>4, <1>5, <1>6, Zenon DEF LineOK
<1>8. ASSUME NEW k \in 1 .. 13
      PROVE  Fits(k)
  <2>1. \/ k = 1 \/ k = 2 \/ k = 3 \/ k = 4 \/ k = 5 \/ k = 6 \/ k = 7 \/ k = 8 \/ k = 9
        \/ k = 10 \/ k = 11 \/ k = 12 \/ k = 13
    OBVIOUS
  <2> QED BY <2>1, <1>7
<1> QED BY <1>1, <1>8

\* The second act on the network: lines 19 to 31.
LEMMA ActTwoLiveLines ==
  ASSUME ~mode.replay
  PROVE  /\ IsTuple(ActTwo, 13)
         /\ \A k \in 1 .. 13 : LineOK(ActTwo[k], k + 18)
<1> DEFINE Fits(k) == LineOK(ActTwo[k], k + 18)
<1>1. IsTuple(ActTwo, 13)
  BY DEF ActTwo, IsTuple
<1>2. {Settle, CaptureSettle, QuietDwell, AlarmDwell} \subseteq Nat
  BY DemoAssumption
<1>3. /\ ActTwo[1] = Do("traffic", None) /\ ActTwo[2] = Do("sleep", Settle) /\ ActTwo[3] = Do("start_tls", {"cloud"})
      /\ ActTwo[4] = Do("sleep", CaptureSettle) /\ ActTwo[5] = Do("count", None) /\ ActTwo[6] = Do("dwell", QuietDwell)
      /\ ActTwo[7] = Do("judge", FALSE) /\ ActTwo[8] = Do("ask", {}) /\ ActTwo[9] = Do("count", None)
      /\ ActTwo[10] = Do("call", None) /\ ActTwo[11] = Do("dwell", AlarmDwell) /\ ActTwo[12] = Do("judge", TRUE)
      /\ ActTwo[13] = Do("stop", None)
  BY Zenon DEF ActTwo
<1>4. /\ LineAt("traffic", None, 19) /\ LineAt("sleep", Settle, 20) /\ LineAt("start_tls", {"cloud"}, 21)
      /\ LineAt("sleep", CaptureSettle, 22) /\ LineAt("count", None, 23) /\ LineAt("dwell", QuietDwell, 24)
  BY <1>2 DEF LineAt, OpAt, ArgAt, Traffic
<1>5. /\ LineAt("judge", FALSE, 25) /\ LineAt("ask", {}, 26) /\ LineAt("count", None, 27)
      /\ LineAt("call", None, 28) /\ LineAt("dwell", AlarmDwell, 29) /\ LineAt("judge", TRUE, 30)
  BY <1>2 DEF LineAt, OpAt, ArgAt, Traffic
<1>6. /\ LineAt("stop", None, 31)
  BY <1>2 DEF LineAt, OpAt, ArgAt, Traffic
<1>7. /\ LineOK(ActTwo[1], 19) /\ LineOK(ActTwo[2], 20) /\ LineOK(ActTwo[3], 21) /\ LineOK(ActTwo[4], 22)
      /\ LineOK(ActTwo[5], 23) /\ LineOK(ActTwo[6], 24) /\ LineOK(ActTwo[7], 25) /\ LineOK(ActTwo[8], 26)
      /\ LineOK(ActTwo[9], 27) /\ LineOK(ActTwo[10], 28) /\ LineOK(ActTwo[11], 29) /\ LineOK(ActTwo[12], 30)
      /\ LineOK(ActTwo[13], 31)
  BY <1>3, <1>4, <1>5, <1>6, Zenon DEF LineOK
<1>8. ASSUME NEW k \in 1 .. 13
      PROVE  Fits(k)
  <2>1. \/ k = 1 \/ k = 2 \/ k = 3 \/ k = 4 \/ k = 5 \/ k = 6 \/ k = 7 \/ k = 8 \/ k = 9
        \/ k = 10 \/ k = 11 \/ k = 12 \/ k = 13
    OBVIOUS
  <2> QED BY <2>1, <1>7
<1> QED BY <1>1, <1>8

\* Concatenation, as a fact to cite.
IsConcat(r, s, t) == r = s \o t

\* The elements of a concatenation.
LEMMA ConcatAt ==
  ASSUME NEW r, NEW s, NEW t, NEW m \in Nat, NEW n \in Nat,
         IsConcat(r, s, t), IsTuple(s, m), IsTuple(t, n)
  PROVE  /\ IsTuple(r, m + n)
         /\ Len(r) = m + n
         /\ \A k \in 1 .. m : r[k] = s[k]
         /\ \A k \in m + 1 .. m + n : r[k] = t[k - m]
  BY DEF IsTuple, IsConcat

\* The lines that open the script have places up to 0.
LEMMA OpeningLines ==
  /\ Lead \in 1 .. 4
  /\ IsTuple(Opening, Lead)
  /\ \A k \in 1 .. Lead : LineOK(Opening[k], k - Lead)
<1> DEFINE X == IF mode.dashboard THEN <<Do("dashboard", None), Do("sleep", Settle)>> ELSE <<>>
           Y == <<Do("try", None)>>
           Z == IF mode.preflight THEN <<Do("preflight", None)>> ELSE <<>>
           x == IF mode.dashboard THEN 2 ELSE 0
           z == IF mode.preflight THEN 1 ELSE 0
<1>1. /\ IsTuple(X, x)
      /\ x = 2 => X[1] = Do("dashboard", None) /\ X[2] = Do("sleep", Settle)
  BY DEF IsTuple
<1>2. IsTuple(Y, 1) /\ Y[1] = Do("try", None)
  BY DEF IsTuple
<1>3. /\ IsTuple(Z, z)
      /\ z = 1 => Z[1] = Do("preflight", None)
  BY DEF IsTuple
<1>4. x \in {0, 2} /\ z \in {0, 1} /\ x \in Nat /\ z \in Nat /\ 1 \in Nat /\ 1 + z \in Nat
  OBVIOUS
<1>5. Opening = X \o (Y \o Z)
  BY DEF Opening
<1>6. Settle \in Nat
  BY DemoAssumption
<1> HIDE DEF X, Y, Z, x, z
<1>7. /\ IsTuple(Y \o Z, 1 + z)
      /\ (Y \o Z)[1] = Y[1]
      /\ z = 1 => (Y \o Z)[2] = Z[1]
  BY <1>2, <1>3, <1>4 DEF IsTuple
<1>8. /\ IsTuple(Opening, Lead) /\ Lead = x + (1 + z)
      /\ \A k \in 1 .. x : Opening[k] = X[k]
      /\ \A k \in x + 1 .. Lead : Opening[k] = (Y \o Z)[k - x]
  <2> DEFINE W == Y \o Z
             w == 1 + z
  <2>1. IsTuple(W, w) /\ IsConcat(Opening, X, W) /\ w \in Nat /\ x \in Nat
    BY <1>4, <1>5, <1>7 DEF IsConcat
  <2> HIDE DEF W, w
  <2>2. /\ IsTuple(Opening, x + w) /\ Lead = x + w
        /\ \A k \in 1 .. x : Opening[k] = X[k]
        /\ \A k \in x + 1 .. x + w : Opening[k] = W[k - x]
    BY <1>1, <2>1, ConcatAt DEF Lead
  <2> QED BY <2>2 DEF W, w
<1>9. ASSUME NEW k \in 1 .. Lead
      PROVE  LineOK(Opening[k], k - Lead)
  <2>1. CASE k <= x
    <3>1. LineAt("dashboard", None, 1 - Lead)
      BY <1>4, <1>8 DEF LineAt, OpAt, ArgAt
    <3>2. LineAt("sleep", Settle, 2 - Lead)
      BY <1>4, <1>6, <1>8, <2>1 DEF LineAt, OpAt, ArgAt
    <3>3. x = 2 /\ k \in 1 .. x /\ (k = 1 \/ k = 2)
      BY <1>4, <2>1
    <3>4. 1 \in 1 .. x /\ 2 \in 1 .. x
      BY <3>3
    <3>5. Opening[1] = Do("dashboard", None) /\ Opening[2] = Do("sleep", Settle)
      BY <1>1, <1>8, <3>3, <3>4, Zenon
    <3>6. LineOK(Opening[1], 1 - Lead) /\ LineOK(Opening[2], 2 - Lead)
      BY <3>1, <3>2, <3>5, Zenon DEF LineOK
    <3> QED BY <3>3, <3>6, Zenon
  <2>2. CASE k = x + 1
    <3>1. LineAt("try", None, k - Lead)
      BY <1>4, <1>8, <2>2 DEF LineAt, OpAt, ArgAt
    <3>2. k \in x + 1 .. Lead /\ k - x = 1
      BY <1>4, <1>8, <2>2
    <3>3. Opening[k] = Do("try", None)
      BY <1>2, <1>7, <1>8, <3>2, Zenon
    <3> QED BY <3>1, <3>3, Zenon DEF LineOK
  <2>3. CASE k > x + 1
    <3>1. z = 1 /\ k \in x + 1 .. Lead /\ k - x = 2
      BY <1>4, <1>8, <2>3
    <3>2. LineAt("preflight", None, k - Lead)
      BY <1>4, <1>8, <3>1 DEF LineAt, OpAt, ArgAt
    <3>3. Opening[k] = Do("preflight", None)
      BY <1>3, <1>7, <1>8, <3>1, Zenon
    <3> QED BY <3>2, <3>3, Zenon DEF LineOK
  <2> QED BY <1>4, <1>8, <2>1, <2>2, <2>3
<1> QED BY <1>4, <1>8, <1>9

\* Every line of the script fits its place.
LEMMA ScriptLines ==
  ASSUME mode.scripted
  PROVE  /\ Lead \in 1 .. 4
         /\ Len(Script) = Lead + 32
         /\ \A i \in 1 .. Lead + 32 : LineOK(Script[i], i - Lead)
         /\ Script[Lead + 32] = Do("done", None)
<1> DEFINE O == Opening  A == ActOne  B == ActTwo  D == <<Do("done", None)>>
<1>1. Lead \in 1 .. 4 /\ IsTuple(O, Lead)
  BY OpeningLines
<1>2. IsTuple(A, 18)
  BY ActOneLines
<1>3. IsTuple(B, 13)
  BY ActTwoReplayLines, ActTwoLiveLines
<1>4. IsTuple(D, 1) /\ D[1] = Do("done", None)
  BY DEF IsTuple
<1>5. Script = O \o (A \o (B \o D))
  BY DEF Script
<1> HIDE DEF O, A, B, D
<1>6. /\ IsTuple(B \o D, 14)
      /\ \A k \in 1 .. 13 : (B \o D)[k] = B[k]
      /\ (B \o D)[14] = D[1]
  BY <1>3, <1>4 DEF IsTuple
<1>7. /\ IsTuple(A \o (B \o D), 32)
      /\ \A k \in 1 .. 18 : (A \o (B \o D))[k] = A[k]
      /\ \A k \in 19 .. 32 : (A \o (B \o D))[k] = (B \o D)[k - 18]
  <2> DEFINE W == B \o D
  <2>1. IsTuple(W, 14)
    BY <1>6
  <2> HIDE DEF W
  <2>2. IsTuple(A \o W, 32)
    BY <1>2, <2>1 DEF IsTuple
  <2>3. ASSUME NEW k \in 1 .. 18 PROVE (A \o W)[k] = A[k]
    BY <1>2, <2>1 DEF IsTuple
  <2>4. ASSUME NEW k \in 19 .. 32 PROVE (A \o W)[k] = W[k - 18]
    BY <1>2, <2>1 DEF IsTuple
  <2> QED BY <2>2, <2>3, <2>4, Zenon DEF W
<1>8. /\ Len(Script) = Lead + 32
      /\ \A i \in 1 .. Lead : Script[i] = O[i]
      /\ \A i \in Lead + 1 .. Lead + 32 : Script[i] = (A \o (B \o D))[i - Lead]
  <2> DEFINE W == A \o (B \o D)
  <2>1. IsTuple(W, 32) /\ IsConcat(Script, O, W) /\ Lead \in Nat
    BY <1>1, <1>5, <1>7 DEF IsConcat
  <2> HIDE DEF W
  <2>2. /\ Len(Script) = Lead + 32
        /\ \A i \in 1 .. Lead : Script[i] = O[i]
        /\ \A i \in Lead + 1 .. Lead + 32 : Script[i] = W[i - Lead]
    BY <1>1, <2>1, ConcatAt
  <2> QED BY <2>2, Zenon DEF W
<1>9. ASSUME NEW i \in 1 .. Lead + 32
      PROVE  LineOK(Script[i], i - Lead)
  <2>1. CASE i \in 1 .. Lead
    BY <1>8, <2>1, OpeningLines, Zenon DEF O
  <2>2. CASE i - Lead \in 1 .. 18
    <3>1. i \in Lead + 1 .. Lead + 32
      BY <1>1, <2>2
    <3>2. Script[i] = A[i - Lead]
      BY <1>7, <1>8, <2>2, <3>1, Zenon
    <3> QED BY <2>2, <3>2, ActOneLines, Zenon DEF A
  <2>3. CASE i - Lead \in 19 .. 31
    <3>1. /\ i \in Lead + 1 .. Lead + 32 /\ i - Lead \in 19 .. 32
          /\ (i - Lead) - 18 \in 1 .. 13 /\ ((i - Lead) - 18) + 18 = i - Lead
      BY <1>1, <2>3
    <3>2. Script[i] = B[(i - Lead) - 18]
      <4>1. Script[i] = (A \o (B \o D))[i - Lead]
        BY <1>8, <3>1, Zenon
      <4>2. (A \o (B \o D))[i - Lead] = (B \o D)[(i - Lead) - 18]
        BY <1>7, <3>1, Zenon
      <4>3. (B \o D)[(i - Lead) - 18] = B[(i - Lead) - 18]
        BY <1>6, <3>1, Zenon
      <4> QED BY <4>1, <4>2, <4>3, Zenon
    <3>3. \A k \in 1 .. 13 : LineOK(B[k], k + 18)
      BY ActTwoReplayLines, ActTwoLiveLines, Zenon DEF B
    <3> QED BY <3>1, <3>2, <3>3, Zenon
  <2>4. CASE i - Lead = 32
    <3>1. i \in Lead + 1 .. Lead + 32 /\ i - Lead \in 19 .. 32 /\ (i - Lead) - 18 = 14
      BY <1>1, <2>4
    <3>2. Script[i] = Do("done", None)
      <4>1. Script[i] = (A \o (B \o D))[i - Lead]
        BY <1>8, <3>1, Zenon
      <4>2. (A \o (B \o D))[i - Lead] = (B \o D)[(i - Lead) - 18]
        BY <1>7, <3>1, Zenon
      <4> QED BY <1>4, <1>6, <3>1, <4>1, <4>2, Zenon
    <3>3. LineAt("done", None, 32)
      BY DEF LineAt, OpAt, ArgAt
    <3> QED BY <2>4, <3>2, <3>3, Zenon DEF LineOK
  <2> QED BY <1>1, <2>1, <2>2, <2>3, <2>4
<1>10. Script[Lead + 32] = Do("done", None)
  <2>1. /\ Lead + 32 \in Lead + 1 .. Lead + 32 /\ (Lead + 32) - Lead = 32 /\ 32 \in 19 .. 32
        /\ 32 - 18 = 14
    BY <1>1
  <2>2. Script[Lead + 32] = (A \o (B \o D))[32]
    <3>1. Script[Lead + 32] = (A \o (B \o D))[(Lead + 32) - Lead]
      BY <1>8, <2>1, Zenon
    <3> QED BY <2>1, <3>1, Zenon
  <2>3. (A \o (B \o D))[32] = (B \o D)[32 - 18]
    BY <1>7, <2>1, Zenon
  <2> QED BY <1>4, <1>6, <2>1, <2>2, <2>3, Zenon
<1> QED BY <1>1, <1>8, <1>9, <1>10

\* Where the program is when it comes to an instruction, and what it says.
LEMMA Where ==
  ASSUME mode.scripted, runner.pc \in 1 .. Len(Script)
  PROVE  /\ OpAt(Instruction.op, Place) /\ ArgAt(Instruction.op, Instruction.arg, Place)
         /\ Lead \in 1 .. 4 /\ Len(Script) = Lead + 32
         /\ Place \in -3 .. 32 /\ runner.pc = Lead + Place
<1>1. LineOK(Instruction, Place)
  BY ScriptLines, Zenon DEF Instruction, Place
<1>2. PICK op, arg : Instruction = Do(op, arg) /\ LineAt(op, arg, Place)
  BY <1>1 DEF LineOK
<1>3. Instruction.op = op /\ Instruction.arg = arg
  BY <1>2 DEF Do
<1>4. OpAt(Instruction.op, Place) /\ ArgAt(Instruction.op, Instruction.arg, Place)
  BY <1>2, <1>3, Zenon DEF LineAt
<1>5. Lead \in 1 .. 4 /\ Len(Script) = Lead + 32
  BY ScriptLines, Zenon
<1>6. Place \in -3 .. 32 /\ runner.pc = Lead + Place
  <2>1. ASSUME NEW l \in 1 .. 4, NEW p \in 1 .. l + 32
        PROVE  p - l \in -3 .. 32 /\ p = l + (p - l)
    BY <2>1
  <2> QED BY <1>5, <2>1, Zenon DEF Place
<1> QED BY <1>4, <1>5, <1>6

\* Started by hand, the program has two lines.
LEMMA WhereByHand ==
  ASSUME ~mode.scripted
  PROVE  /\ Len(Script) = 2
         /\ Script[1].op = "start_tls" /\ Script[1].arg = {"cloud"}
         /\ Script[2].op = "ask"
  BY DEF Script, ByHand, Do

\* The script is never empty.
LEMMA ScriptLength ==
  ASSUME mode \in ModeType
  PROVE  Len(Script) \in Nat /\ Len(Script) >= 1
<1>1. CASE mode.scripted
  <2>1. \A l \in 1 .. 4 : l + 32 \in Nat /\ l + 32 >= 1
    OBVIOUS
  <2> QED BY <1>1, <2>1, ScriptLines, Zenon
<1>2. CASE ~mode.scripted
  <2>1. Len(Script) = 2
    BY <1>2, WhereByHand, Zenon
  <2> QED BY <2>1
<1> QED BY <1>1, <1>2

\* The script depends on how the program was started only.
LEMMA SameScript ==
  ASSUME mode' = mode
  PROVE  Script' = Script /\ Lead' = Lead
  BY DEF Script, ByHand, Opening, ActOne, ActTwo, Lead, Do

----------------------------------------------------------------------------
(* Types of the network monitor and of the processes *)

\* The sizes of the sets of sessions and of findings.
LEMMA SmallSets ==
  /\ \A x : x \subseteq {"cloud", "rogue"} => Cardinality(x) \in Nat
  /\ \A x : x \subseteq Identity => Cardinality(x) \in Nat /\ (x # {} => Cardinality(x) > 0)
  /\ \A x : x \subseteq Radios => Cardinality(x) \in Nat /\ (x # {} => Cardinality(x) > 0)
<1>1. IsFiniteSet({"cloud", "rogue"}) /\ IsFiniteSet(Identity) /\ IsFiniteSet(Radios)
  <2>1. IsFiniteSet({}) /\ \A S, x : IsFiniteSet(S) => IsFiniteSet(S \cup {x})
    BY FS_EmptySet, FS_AddElement
  <2>2. {"cloud", "rogue"} = ({} \cup {"cloud"}) \cup {"rogue"}
    OBVIOUS
  <2>3. Identity = ({} \cup {"rogue"}) \cup {"no_dst"}
    BY DEF Identity
  <2>4. Radios = ({} \cup {"A"}) \cup {"B"}
    BY DEF Radios
  <2> QED BY <2>1, <2>2, <2>3, <2>4, Zenon
<1>2. ASSUME NEW x, x \subseteq {"cloud", "rogue"}
      PROVE  Cardinality(x) \in Nat
  BY <1>1, <1>2, FS_Subset, FS_CardinalityType
<1>3. ASSUME NEW x, x \subseteq Identity \/ x \subseteq Radios
      PROVE  Cardinality(x) \in Nat /\ (x # {} => Cardinality(x) > 0)
  <2>1. IsFiniteSet(x)
    BY <1>1, <1>3, FS_Subset
  <2>2. Cardinality(x) \in Nat /\ (Cardinality(x) = 0 <=> x = {})
    BY <2>1, FS_CardinalityType, FS_EmptySet
  <2> QED BY <2>2
<1> QED BY <1>2, <1>3

\* A window leaves a history.
LEMMA RecentTypes ==
  ASSUME NEW h \in History, NEW seen
  PROVE  RecentSessions(h, Sessions(seen), Flagged(Findings(seen))) \in History
<1> DEFINE s == Sessions(seen)  f == Flagged(Findings(seen))
<1>1. s \subseteq {"cloud", "rogue"}
  BY DEF Sessions
<1> HIDE DEF s, f
<1>2. Cardinality(s \ f) \in Nat
  BY <1>1, SmallSets
<1>3. Kept \in Nat /\ RecentKept \in Nat
  BY TlsAssumption
<1>4. Allowed(h, s, f) \in 0 .. RecentKept
  BY <1>2, <1>3 DEF Allowed, Least, History
<1>5. {age \in h.flagged : age <= Kept} \cup NewlyFlagged(s, f) \subseteq 0 .. Kept + 1
  BY <1>3 DEF NewlyFlagged, History
<1>6. RecentSessions(h, s, f) \in History
  BY <1>4, <1>5 DEF RecentSessions, History
<1> QED BY <1>6 DEF s, f

\* The passing of time leaves a history.
LEMMA OlderTypes ==
  ASSUME NEW h \in History
  PROVE  Older(h) \in History
<1>1. Kept \in Nat
  BY TlsAssumption
<1>2. {Least(age + 1, Kept + 1) : age \in h.flagged} \subseteq 0 .. Kept + 1
  BY <1>1 DEF History, Least
<1> QED BY <1>2 DEF Older, History

\* A monitor starts with a state, and a state is not None.
LEMMA TlsStateMade ==
  /\ \A reads \in {None} \cup SUBSET Traffic : \A late \in 0 .. Gap : Started(reads, late) \in TlsState
  /\ \A t \in TlsState : t # None
<1>1. Window \in Nat /\ Gap \in Nat /\ Suppress \in Nat /\ RecentKept \in Nat /\ Kept \in Nat
  BY TlsAssumption
<1>2. [flagged |-> {}, allowed |-> 0] \in History
  BY <1>1 DEF History
<1>3. [i \in Identity |-> Suppress] \in [Identity -> 0 .. Suppress]
  BY <1>1
<1>4. ASSUME NEW reads \in {None} \cup SUBSET Traffic, NEW late \in 0 .. Gap
      PROVE  Started(reads, late) \in TlsState
  <2>1. Window + late \in -Gap .. Window + Gap
    BY <1>1
  <2> QED BY <1>2, <1>3, <2>1 DEF Started, TlsState
<1> QED BY <1>4, TlsNoneAssumption

\* A window leaves the types alone, and the recording that is read.
LEMMA WindowTypes ==
  ASSUME TlsTypeOK, NEW captured \in BOOLEAN, NEW lost \in BOOLEAN, NEW late,
         WindowDone(captured, lost, late)
  PROVE  /\ TlsTypeOK'
         /\ tls \in TlsState /\ tls' \in TlsState /\ tls'.reads = tls.reads
<1> DEFINE seen     == NextWindow(captured)
           again    == [tls EXCEPT !.left = Window + late, !.seen = {}]
           findings == Findings(seen)
           sessions == RecentSessions(tls.history, Sessions(seen), Flagged(findings))
           sending  == {i \in findings : Sent[i]}
           heard    == dash.up /\ ~lost
<1>1. tls \in TlsState /\ UNCHANGED wire /\ tls.left <= 0 /\ late \in Late(tls.reads, Gap + tls.left)
  BY DEF WindowDone, TlsTypeOK
<1>2. Window \in Nat /\ Gap \in Nat /\ Suppress \in Nat /\ Retained \in Nat /\ Kept \in Nat
  BY TlsAssumption
<1>3. again \in TlsState /\ again.reads = tls.reads
  <2>1. Window + late \in -Gap .. Window + Gap /\ {} \in SUBSET Traffic
    <3>1. tls.left \in -Gap .. Window + Gap
      BY <1>1 DEF TlsState
    <3>2. late \in 0 .. Gap
      BY <1>1, <1>2, <3>1 DEF Late
    <3> QED BY <1>2, <3>2
  <2>2. tls \in TlsState
    BY <1>1
  <2> QED BY <2>1, <2>2 DEF TlsState
<1>4. CASE /\ seen = None
           /\ tls' = again
           /\ UNCHANGED <<dash, screen, called>>
  BY <1>1, <1>3, <1>4 DEF TlsTypeOK
<1>5. CASE /\ seen # None
           /\ called' = IF "rogue" \in seen THEN 0 ELSE called
           /\ screen' = IF heard THEN [state |-> State(sessions), called |-> called']
                                  ELSE screen
           /\ dash' = IF heard THEN Stored(Cardinality(sending)) ELSE dash
           /\ tls' = [again EXCEPT !.history = sessions,
                         !.sentAge = [i \in Identity |-> IF i \in sending THEN 0 ELSE @[i]]]
  <2>1. sessions \in History
    BY <1>1, RecentTypes DEF TlsState
  <2>2. Cardinality(sending) \in Nat
    BY SmallSets DEF Findings
  <2>3. State(sessions) \in {"ok", "alert"}
    BY DEF State
  <2> HIDE DEF sending, sessions, again, seen
  <2>4. called' \in 0 .. Kept + 1
    BY <1>2, <1>5 DEF TlsTypeOK
  <2>5. screen' = None \/ screen' \in [state : {"ok", "alert"}, called : 0 .. Kept + 1]
    BY <1>5, <2>3, <2>4 DEF TlsTypeOK
  <2>6. dash' \in [up : BOOLEAN, alerts : 0 .. Retained]
    BY <1>2, <1>5, <2>2 DEF TlsTypeOK, Stored, Least
  <2>7. tls' \in TlsState /\ tls'.reads = tls.reads
    <3> DEFINE ages == [i \in Identity |-> IF i \in sending THEN 0 ELSE again.sentAge[i]]
    <3>1. ages \in [Identity -> 0 .. Suppress]
      BY <1>2, <1>3 DEF TlsState
    <3>2. tls' = [again EXCEPT !.history = sessions, !.sentAge = ages]
      BY <1>5
    <3> HIDE DEF ages
    <3> QED BY <1>3, <2>1, <3>1, <3>2 DEF TlsState
  <2> QED BY <1>1, <2>4, <2>5, <2>6, <2>7 DEF TlsTypeOK
<1> QED BY <1>4, <1>5 DEF WindowDone

\* A session that is begun leaves the types alone.
LEMMA CallingTypes ==
  ASSUME tls \in {None} \cup TlsState, wire \in [Unusual -> Nat], NEW k \in Unusual, NEW n \in Nat,
         Calling(k, n)
  PROVE  /\ wire' \in [Unusual -> Nat]
         /\ IF tls = None THEN tls' = None ELSE tls' \in TlsState /\ tls'.reads = tls.reads
<1>1. wire' \in [Unusual -> Nat]
  BY DEF Calling
<1>2. CASE Capturing
  <2>1. tls \in TlsState /\ tls # None /\ tls' = [tls EXCEPT !.seen = tls.seen \cup {k}]
    BY <1>2 DEF Calling, Capturing
  <2>2. tls.seen \cup {k} \in SUBSET Traffic
    BY <2>1 DEF TlsState, Unusual, Traffic
  <2> QED BY <1>1, <2>1, <2>2 DEF TlsState
<1>3. CASE ~Capturing
  BY <1>1, <1>3 DEF Calling
<1> QED BY <1>2, <1>3

\* The monitor and the network keep their types as time passes.
LEMMA TickTypes ==
  ASSUME TlsTypeOK, NEW inverter \in BOOLEAN, TlsTick(inverter)
  PROVE  /\ TlsTypeOK'
         /\ IF tls = None THEN tls' = None ELSE tls' \in TlsState /\ tls'.reads = tls.reads
<1>1. Window \in Nat /\ Gap \in Nat /\ Suppress \in Nat /\ Retained \in Nat /\ Kept \in Nat
  BY TlsAssumption
<1>2. wire' \in [Unusual -> Nat]
  BY DEF TlsTick, TlsTypeOK
<1>3. called' \in 0 .. Kept + 1
  BY <1>1 DEF TlsTick, TlsTypeOK, Least
<1>4. ASSUME tls # None
      PROVE  tls' \in TlsState /\ tls'.reads = tls.reads
  <2> DEFINE ages == [i \in Identity |-> Least(tls.sentAge[i] + 1, Suppress)]
             now  == IF Capturing THEN tls.seen \cup OnTheWire(inverter) ELSE tls.seen
             old  == Older(tls.history)
  <2>1. tls \in TlsState /\ tls.left - 1 \in -Gap .. Window + Gap
    <3>1. tls \in TlsState /\ tls.left > -Gap
      BY <1>4 DEF TlsTick, TlsTypeOK
    <3>2. tls.left \in -Gap .. Window + Gap
      BY <3>1 DEF TlsState
    <3> QED BY <1>1, <3>1, <3>2
  <2>2. ages \in [Identity -> 0 .. Suppress]
    BY <1>1, <2>1 DEF TlsState, Least
  <2>3. now \in SUBSET Traffic
    BY <2>1 DEF TlsState, OnTheWire, Unusual, Traffic
  <2>4. old \in History
    BY <2>1, OlderTypes DEF TlsState
  <2>5. tls' = [tls EXCEPT !.left = tls.left - 1, !.seen = now, !.history = old, !.sentAge = ages]
    BY <1>4 DEF TlsTick
  <2> HIDE DEF ages, now, old
  <2> QED BY <2>1, <2>2, <2>3, <2>4, <2>5 DEF TlsState
<1> QED BY <1>2, <1>3, <1>4 DEF TlsTick, TlsTypeOK

----------------------------------------------------------------------------
(* Processes *)

\* What becomes of a process that is not left as it is: it loses its leader,
\* and keeps its child only when the leader died by itself.
Fallen(p, q) ==
  /\ q.what = p.what /\ q.sudo = p.sudo
  /\ ~q.leader
  /\ q.child => p.child /\ q.fell

\* The processes qs are those of ps, some of which have ended.
Ends(ps, qs) ==
  /\ qs \in Seq(ProcessType) /\ Len(qs) = Len(ps)
  /\ \A i \in 1 .. Len(ps) : qs[i] = ps[i] \/ Fallen(ps[i], qs[i])

\* What ending a group does to a process.
LEMMA KillTypes ==
  ASSUME NEW p \in ProcessType
  PROVE  /\ KillGroup(p) \in ProcessType
         /\ KillGroup(p) = p \/ Fallen(p, KillGroup(p))
         /\ ~KillGroup(p).leader
  BY DEF KillGroup, ProcessType, Fallen

\* The cleanup only ends processes.
LEMMA CleanupEnds ==
  ASSUME NEW ps \in Seq(ProcessType)
  PROVE  Ends(ps, Cleanup(ps)) /\ Cleanup(ps) \in Seq(ProcessType)
<1> DEFINE Raised(i) == \E j \in 1 .. i : ~MaySignal(ps[j])
           q(i) == IF Raised(i) THEN ps[i] ELSE KillGroup(ps[i])
<1>1. ASSUME NEW i \in 1 .. Len(ps)
      PROVE  q(i) \in ProcessType /\ (q(i) = ps[i] \/ Fallen(ps[i], q(i)))
  <2>1. ps[i] \in ProcessType
    OBVIOUS
  <2> HIDE DEF Raised
  <2> QED BY <2>1, KillTypes
<1>2. Cleanup(ps) = [i \in 1 .. Len(ps) |-> q(i)]
  BY DEF Cleanup
<1> HIDE DEF q
<1>3. Cleanup(ps) \in Seq(ProcessType) /\ Len(Cleanup(ps)) = Len(ps)
  BY <1>1, <1>2
<1> QED BY <1>1, <1>2, <1>3 DEF Ends

\* Stopping the held monitor ends it and touches no other.
LEMMA StoppedEnds ==
  ASSUME procs \in Seq(ProcessType), NEW held \in 0 .. Len(procs)
  PROVE  /\ Ends(procs, Stopped(held)) /\ Stopped(held) \in Seq(ProcessType)
         /\ held # 0 => ~Stopped(held)[held].leader
         /\ \A i \in 1 .. Len(procs) : i # held => Stopped(held)[i] = procs[i]
<1>1. CASE held = 0
  BY <1>1 DEF Stopped, Ends
<1>2. CASE held # 0
  <2>1. held \in 1 .. Len(procs) /\ procs[held] \in ProcessType
    BY <1>2
  <2>2. Stopped(held) = [procs EXCEPT ![held] = KillGroup(procs[held])]
    BY <1>2 DEF Stopped
  <2> QED BY <2>1, <2>2, KillTypes DEF Ends
<1> QED BY <1>1, <1>2

\* A crash only ends processes.
LEMMA CrashEnds ==
  ASSUME procs \in Seq(ProcessType), NEW i \in DOMAIN procs, NEW left \in BOOLEAN,
         left => procs[i].child
  PROVE  Ends(procs, [procs EXCEPT ![i].leader = FALSE, ![i].child = left, ![i].fell = TRUE])
<1> DEFINE q == [procs[i] EXCEPT !.leader = FALSE, !.child = left, !.fell = TRUE]
           qs == [procs EXCEPT ![i] = q]
<1>1. procs[i] \in ProcessType
  OBVIOUS
<1>2. q \in ProcessType /\ Fallen(procs[i], q)
  BY <1>1 DEF ProcessType, Fallen
<1>3. [procs EXCEPT ![i].leader = FALSE, ![i].child = left, ![i].fell = TRUE] = qs
  BY <1>1 DEF ProcessType
<1> HIDE DEF q
<1>4. qs \in Seq(ProcessType) /\ Len(qs) = Len(procs)
  BY <1>2
<1>5. \A j \in 1 .. Len(procs) : qs[j] = procs[j] \/ Fallen(procs[j], qs[j])
  BY <1>2
<1>6. Ends(procs, qs)
  BY <1>4, <1>5 DEF Ends
<1> QED BY <1>3, <1>6

\* A process that ends takes no work up.
LEMMA EndsWork ==
  ASSUME NEW ps \in Seq(ProcessType), NEW qs, Ends(ps, qs), NEW what, Works(what, qs)
  PROVE  Works(what, ps)
<1>1. PICK i \in DOMAIN qs : qs[i].what = what /\ Working(qs[i])
  BY DEF Works
<1>2. i \in 1 .. Len(ps) /\ i \in DOMAIN ps
  BY DEF Ends
<1>3. ps[i].what = what /\ Working(ps[i])
  BY <1>1, <1>2 DEF Ends, Fallen, Working
<1> QED BY <1>2, <1>3 DEF Works

\* A process that was just started works.
LEMMA ProcessTypes ==
  ASSUME mode \in ModeType, NEW what \in {"dashboard", "traffic", "rf", "tls"}
  PROVE  /\ Process(what) \in ProcessType
         /\ Process(what).leader /\ Working(Process(what))
         /\ Process(what).what = what
  BY DEF ProcessType, Process, Working, ModeType

----------------------------------------------------------------------------
(* Types of the program's state *)

\* What is known since the last count.
SinceType == [stored : BOOLEAN, troubled : BOOLEAN, heldBack : Nat, between : BOOLEAN]

\* The types of the program, when there are n processes.
RunnerType(n) ==
  [pc : 1 .. Len(Script), wait : Nat, held : 0 .. n, before : -1 .. Retained,
   outcome : {"running", "done", "failed", "interrupted", "crashed"}]

\* The assumptions on the constants, in the form they are used in.
LEMMA TypesOfConstants ==
  /\ {RfSuppress, BaselineTime, Settle, CaptureSettle, QuietDwell, AlarmDwell, MaxCalls,
      MaxFaults, Window, Gap, Kept, RecentKept, Suppress, Retained} \subseteq Nat
  /\ Retained > 0 /\ Suppress > 0 /\ AlarmDwell > 1 /\ AlarmDwell > Window + Gap
BY DemoAssumption, DwellAssumption, TlsAssumption

\* The parts of the types that the next lemmas use.
LEMMA RunnerTypes ==
  DemoTypes => /\ runner \in RunnerType(Len(procs)) /\ mode \in ModeType
               /\ procs \in Seq(ProcessType) /\ Len(procs) \in Nat
               /\ TlsTypeOK
  BY DEF DemoTypes, RunnerType, ModeType

\* Only "done" is the last line, and by hand nothing comes after the question.
LEMMA NotLast ==
  ASSUME DemoTypes, Instruction.op # "done", Instruction.op = "ask" => mode.scripted
  PROVE  runner.pc + 1 \in 1 .. Len(Script)
<1>1. runner.pc \in 1 .. Len(Script) /\ mode \in ModeType
  BY DEF DemoTypes, ModeType
<1>2. CASE mode.scripted
  <2>1. /\ OpAt(Instruction.op, Place) /\ Lead \in 1 .. 4 /\ Len(Script) = Lead + 32
        /\ Place \in -3 .. 32 /\ runner.pc = Lead + Place
    BY <1>1, <1>2, Where
  <2>2. LineOK(Instruction, Place)
    BY <1>1, <1>2, <2>1, ScriptLines, Zenon DEF Instruction, Place
  <2>3. CASE Place = 32
    <3>1. Script[Lead + 32] = Do("done", None)
      BY <1>2, ScriptLines
    <3> QED BY <2>1, <2>3, <3>1 DEF Instruction, Do
  <2>4. CASE Place # 32
    <3>1. \A l \in 1 .. 4, p \in -3 .. 31 : l + p \in 1 .. l + 32 => (l + p) + 1 \in 1 .. l + 32
      OBVIOUS
    <3>2. Place \in -3 .. 31
      BY <2>1, <2>4
    <3> QED BY <1>1, <2>1, <3>1, <3>2, Zenon
  <2> QED BY <2>3, <2>4
<1>3. CASE ~mode.scripted
  <2>1. Len(Script) = 2 /\ Script[2].op = "ask"
    BY <1>3, WhereByHand, Zenon
  <2>2. runner.pc = 1 \/ runner.pc = 2
    BY <1>1, <2>1
  <2>3. runner.pc = 1
    BY <1>3, <2>1, <2>2, Zenon DEF Instruction
  <2> QED BY <2>1, <2>3
<1> QED BY <1>2, <1>3

\* Going on by one line keeps the types.
LEMMA Advance ==
  ASSUME DemoTypes, Instruction.op # "done", Instruction.op = "ask" => mode.scripted,
         NEW wait \in Nat
  PROVE  /\ Onwards(wait) \in RunnerType(Len(procs))
         /\ Onwards(wait).pc = runner.pc + 1 /\ Onwards(wait).wait = wait
         /\ Onwards(wait).held = runner.held /\ Onwards(wait).before = runner.before
         /\ Onwards(wait).outcome = runner.outcome
  BY NotLast, RunnerTypes DEF Onwards, RunnerType

\* So does taking or letting go of a handle.
LEMMA Holding ==
  ASSUME NEW r \in RunnerType(Len(procs)), Len(procs) \in Nat
  PROVE  /\ [r EXCEPT !.held = Len(procs) + 1] \in RunnerType(Len(procs) + 1)
         /\ [r EXCEPT !.held = 0] \in RunnerType(Len(procs))
  BY DEF RunnerType

\* What the end of the program does.
LEMMA ExitTypes ==
  ASSUME DemoTypes, NEW outcome \in {"done", "failed", "interrupted", "crashed"}, Exit(outcome)
  PROVE  /\ runner' \in RunnerType(Len(procs'))
         /\ procs' \in Seq(ProcessType)
         /\ Ends(procs, procs')
         /\ rf' \in {rf, None} /\ tls' \in {tls, None}
         /\ runner'.outcome = outcome /\ runner'.pc = runner.pc
  BY CleanupEnds, RunnerTypes DEF Exit, Reap, Ends, RunnerType

\* A fresh RF monitor has a state.
LEMMA FreshTypes ==
  ASSUME NEW reads \in SUBSET {"A", "B"}, mode \in ModeType
  PROVE  FreshRf(reads) \in {None} \cup RfState
<1>1. [radio \in Radios |-> RfSuppress] \in [Radios -> 0 .. RfSuppress]
  BY TypesOfConstants
<1> QED BY <1>1 DEF FreshRf, RfState, Radios

\* The processes with an RF monitor added.
LEMMA WithRfTypes ==
  ASSUME mode \in ModeType, file \in {None} \cup SUBSET Radios, NEW ps \in Seq(ProcessType)
  PROVE  /\ WithRf(ps) \in Seq(ProcessType) /\ Len(WithRf(ps)) = Len(ps) + 1
         /\ \A i \in 1 .. Len(ps) : WithRf(ps)[i] = ps[i]
         /\ WithRf(ps)[Len(ps) + 1] = IF file # None THEN Process("rf")
              ELSE [Process("rf") EXCEPT !.leader = FALSE, !.child = FALSE]
<1> DEFINE p == IF file # None THEN Process("rf") ELSE [Process("rf") EXCEPT !.leader = FALSE, !.child = FALSE]
<1>1. p \in ProcessType
  BY ProcessTypes DEF ProcessType
<1>2. WithRf(ps) = Append(ps, p)
  BY DEF WithRf
<1> HIDE DEF p
<1>3. /\ Append(ps, p) \in Seq(ProcessType) /\ Len(Append(ps, p)) = Len(ps) + 1
      /\ \A i \in 1 .. Len(ps) : Append(ps, p)[i] = ps[i]
      /\ Append(ps, p)[Len(ps) + 1] = p
  BY <1>1
<1> QED BY <1>2, <1>3 DEF p

\* The time an alert is held back is a time.
LEMMA HeldBackTypes ==
  ASSUME DemoTypes
  PROVE  HeldBack \in Nat
<1>1. rf # None => rf.sentAge["B"] \in 0 .. RfSuppress
  BY DEF DemoTypes, RfState, Radios
<1>2. tls # None => tls.sentAge["rogue"] \in 0 .. Suppress
  BY DEF DemoTypes, TlsTypeOK, TlsState, Identity
<1>3. RfSuppress \in Nat /\ Suppress \in Nat
  BY TypesOfConstants
<1> QED BY <1>1, <1>2, <1>3 DEF HeldBack

\* The answer to a question for the alerts.
LEMMA CountTypes ==
  ASSUME DemoTypes
  PROVE  AlertCount \in -1 .. Retained
<1>1. dash.alerts \in 0 .. Retained
  BY DEF DemoTypes, TlsTypeOK
<1>2. Retained \in Nat
  BY TypesOfConstants
<1> QED BY <1>1, <1>2 DEF AlertCount

\* By hand there is a monitor to be started, and a question.
LEMMA ByHandOps ==
  ASSUME DemoTypes, ~mode.scripted
  PROVE  \/ runner.pc = 1 /\ Instruction.op = "start_tls" /\ Instruction.arg = {"cloud"}
              /\ Instruction.arg \in SUBSET Traffic
         \/ runner.pc = 2 /\ Instruction.op = "ask"
<1>1. Len(Script) = 2 /\ runner.pc \in 1 .. Len(Script)
  BY WhereByHand DEF DemoTypes
<1>2. runner.pc = 1 \/ runner.pc = 2
  BY <1>1
<1>3. {"cloud"} \in SUBSET Traffic
  BY DEF Traffic
<1> QED BY <1>2, <1>3, WhereByHand, Zenon DEF Instruction

----------------------------------------------------------------------------
(* Types are kept by every step *)

\* The types of the next state, from those of its parts.
LEMMA TypesMade ==
  ASSUME mode \in ModeType, mode' = mode, TlsTypeOK', runner' \in RunnerType(Len(procs')),
         air' \in SUBSET Radios, rf' \in {None} \cup RfState, file' \in {None} \cup SUBSET Radios,
         procs' \in Seq(ProcessType),
         since' \in SinceType,
         spent' \in [faults : 0 .. MaxFaults, calls : 0 .. MaxCalls]
  PROVE  DemoTypes'
  BY SameScript DEF DemoTypes, ModeType, RunnerType, SinceType

\* The parts of the types, for the steps that leave them alone.
LEMMA TypesParts ==
  ASSUME DemoTypes
  PROVE  /\ mode \in ModeType /\ TlsTypeOK /\ runner \in RunnerType(Len(procs))
         /\ air \in SUBSET Radios /\ rf \in {None} \cup RfState /\ file \in {None} \cup SUBSET Radios
         /\ procs \in Seq(ProcessType) /\ Len(procs) \in Nat
         /\ since \in SinceType
         /\ spent \in [faults : 0 .. MaxFaults, calls : 0 .. MaxCalls]
  BY DEF DemoTypes, ModeType, RunnerType, SinceType

\* A network monitor that is started has a state.
LEMMA StartedTls ==
  ASSUME StartTls, Instruction.arg \in SUBSET Traffic
  PROVE  /\ tls' \in TlsState
         /\ tls'.reads = IF mode.replay THEN Instruction.arg ELSE None
         /\ tls'.sentAge["rogue"] = Suppress
         /\ mode.replay => tls'.left = Window
<1> DEFINE reads == IF mode.replay THEN Instruction.arg ELSE None
<1>1. PICK late \in Late(reads, Gap) : tls' = Started(reads, late)
  BY Zenon DEF StartTls
<1>2. reads \in {None} \cup SUBSET Traffic
  OBVIOUS
<1>3. late \in 0 .. Gap /\ (reads # None => late = 0)
  BY <1>1, TlsAssumption DEF Late
<1>4. Started(reads, late) \in TlsState
  BY <1>2, <1>3, TlsStateMade
<1>5. mode.replay => reads # None
  BY TlsNoneAssumption
<1>6. "rogue" \in Identity
  BY DEF Identity
<1>7. /\ Started(reads, late).reads = reads /\ Started(reads, late).left = Window + late
      /\ Started(reads, late).sentAge["rogue"] = Suppress
  BY <1>6 DEF Started
<1> HIDE DEF reads
<1>8. /\ tls' \in TlsState /\ tls'.reads = reads /\ tls'.sentAge["rogue"] = Suppress
      /\ mode.replay => tls'.left = Window
  BY <1>1, <1>3, <1>4, <1>5, <1>7, TlsAssumption
<1> QED BY <1>8 DEF reads

\* The network monitor's types, when it goes on or ends.
LEMMA TlsKept ==
  ASSUME TlsTypeOK, tls' \in {tls, None}, wire' = wire, dash' = dash, screen' = screen,
         called' = called
  PROVE  TlsTypeOK'
  BY DEF TlsTypeOK

\* The argument of the instruction the program is on.
LEMMA ArgTypes ==
  ASSUME DemoTypes, mode.scripted
  PROVE  ArgAt(Instruction.op, Instruction.arg, Place)
  BY Where DEF DemoTypes, ModeType

\* A fault, or an unscripted call, is counted within its bound.
LEMMA OneMore ==
  ASSUME spent \in [faults : 0 .. MaxFaults, calls : 0 .. MaxCalls]
  PROVE  /\ spent.faults < MaxFaults =>
              [spent EXCEPT !.faults = @ + 1] \in [faults : 0 .. MaxFaults, calls : 0 .. MaxCalls]
         /\ spent.calls < MaxCalls =>
              [spent EXCEPT !.calls = @ + 1] \in [faults : 0 .. MaxFaults, calls : 0 .. MaxCalls]
<1>1. MaxFaults \in Nat /\ MaxCalls \in Nat
  BY TypesOfConstants
<1>2. spent.calls \in 0 .. MaxCalls /\ spent.faults \in 0 .. MaxFaults
  OBVIOUS
<1>3. /\ spent.faults < MaxFaults => spent.faults + 1 \in 0 .. MaxFaults
      /\ spent.calls < MaxCalls => spent.calls + 1 \in 0 .. MaxCalls
  BY <1>1, <1>2
<1> QED BY <1>2, <1>3

\* What may be held of some processes may be held of one more.
LEMMA MoreToHold ==
  ASSUME NEW n \in Nat, NEW m, m = n + 1, NEW r \in RunnerType(n)
  PROVE  r \in RunnerType(m)
<1>1. 0 .. n \subseteq 0 .. m
  OBVIOUS
<1> QED BY <1>1, Zenon DEF RunnerType

\* The program's own steps keep the types.
LEMMA ExecuteTypes ==
  ASSUME DemoTypes, Execute
  PROVE  DemoTypes'
<1> USE TypesParts
<1>1. ASSUME mode.scripted
      PROVE  ArgAt(Instruction.op, Instruction.arg, Place)
  BY <1>1, ArgTypes
<1>2. CASE StartDashboard
  <2>1. Instruction.op = "dashboard"
    BY <1>2 DEF StartDashboard, At
  <2>2. runner' \in RunnerType(Len(procs))
    BY <1>2, <2>1, Advance DEF StartDashboard
  <2>3. procs' \in Seq(ProcessType) /\ Len(procs') = Len(procs) + 1
    BY <1>2, ProcessTypes DEF StartDashboard
  <2>4. runner' \in RunnerType(Len(procs'))
    BY <2>2, <2>3, MoreToHold
  <2>5. TlsTypeOK'
    <3>1. 0 \in 0 .. Retained
      BY TypesOfConstants
    <3> QED BY <1>2, <3>1 DEF StartDashboard, TlsTypeOK
  <2> QED BY <1>2, <2>3, <2>4, <2>5, TypesMade DEF StartDashboard
<1>3. CASE StartTraffic
  <2>1. Instruction.op = "traffic"
    BY <1>3 DEF StartTraffic, At
  <2>2. runner' \in RunnerType(Len(procs))
    BY <1>3, <2>1, Advance DEF StartTraffic
  <2>3. procs' \in Seq(ProcessType) /\ Len(procs') = Len(procs) + 1
    BY <1>3, ProcessTypes DEF StartTraffic
  <2>4. runner' \in RunnerType(Len(procs'))
    BY <2>2, <2>3, MoreToHold
  <2>5. TlsTypeOK'
    BY <1>3, TlsKept DEF StartTraffic, aside
  <2> QED BY <1>3, <2>3, <2>4, <2>5, TypesMade DEF StartTraffic, aside
<1>4. CASE EnterTry
  <2>1. Instruction.op = "try"
    BY <1>4 DEF EnterTry, At
  <2>2. runner' \in RunnerType(Len(procs'))
    BY <1>4, <2>1, Advance DEF EnterTry
  <2>3. TlsTypeOK'
    BY <1>4, TlsKept DEF EnterTry, aside
  <2> QED BY <1>4, <2>2, <2>3, TypesMade DEF EnterTry, aside
<1>5. CASE Preflight
  <2>1. Instruction.op = "preflight"
    BY <1>5 DEF Preflight, At
  <2>2. /\ runner' \in RunnerType(Len(procs')) /\ procs' \in Seq(ProcessType)
        /\ rf' \in {rf, None} /\ tls' \in {tls, None}
    BY <1>5, <2>1, Advance, ExitTypes DEF Preflight
  <2>3. TlsTypeOK'
    BY <1>5, <2>2, TlsKept DEF Preflight, aside
  <2> QED BY <1>5, <2>2, <2>3, TypesMade DEF Preflight, aside
<1>6. CASE Return
  <2>1. Instruction.op = "ask" /\ mode.scripted
    BY <1>6 DEF Return, At
  <2>2. runner' \in RunnerType(Len(procs'))
    BY <1>6, <2>1, Advance, TypesOfConstants DEF Return, Takes
  <2>3. TlsTypeOK'
    BY <1>6, TlsKept DEF Return, aside
  <2> QED BY <1>6, <2>2, <2>3, TypesMade DEF Return, aside
<1>7. CASE Baseline
  <2>1. Instruction.op = "baseline"
    BY <1>7 DEF Baseline, At
  <2>2. runner' \in RunnerType(Len(procs'))
    BY <1>7, <2>1, Advance, TypesOfConstants DEF Baseline
  <2>3. TlsTypeOK'
    BY <1>7, TlsKept DEF Baseline, monitorVars
  <2>4. file' \in {None} \cup SUBSET Radios
    BY <1>7 DEF Baseline, Learned, Radios
  <2> QED BY <1>7, <2>2, <2>3, <2>4, TypesMade DEF Baseline
<1>8. CASE StartRf
  <2>1. Instruction.op = "start_rf"
    BY <1>8 DEF StartRf, At
  <2>2. procs' \in Seq(ProcessType) /\ Len(procs') = Len(procs) + 1
    BY <1>8, WithRfTypes DEF StartRf, aside
  <2>3. runner' \in RunnerType(Len(procs'))
    BY <1>8, <2>1, <2>2, Advance, Holding DEF StartRf
  <2>4. rf' \in {None} \cup RfState
    <3>1. CASE mode.scripted
      BY <1>1, <1>8, <2>1, <3>1, FreshTypes DEF StartRf, ArgAt
    <3>2. CASE ~mode.scripted
      BY <2>1, <3>2, ByHandOps
    <3> QED BY <3>1, <3>2
  <2>5. TlsTypeOK'
    BY <1>8, TlsKept DEF StartRf, aside
  <2> QED BY <1>8, <2>2, <2>3, <2>4, <2>5, TypesMade DEF StartRf, aside
<1>9. CASE SwitchTo
  <2>1. Instruction.op = "switch"
    BY <1>9 DEF SwitchTo, At
  <2>2. Onwards(0) \in RunnerType(Len(procs)) /\ Onwards(Settle) \in RunnerType(Len(procs))
    BY <2>1, Advance, TypesOfConstants
  <2>3. TlsTypeOK'
    BY <1>9, TlsKept DEF SwitchTo, aside
  <2>4. CASE mode.replay
    <3>1. Stopped(runner.held) \in Seq(ProcessType) /\ Len(Stopped(runner.held)) = Len(procs)
      BY StoppedEnds DEF RunnerType, Ends
    <3>2. procs' \in Seq(ProcessType) /\ Len(procs') = Len(procs) + 1
      BY <1>9, <2>4, <3>1, WithRfTypes DEF SwitchTo
    <3>3. runner' \in RunnerType(Len(procs'))
      BY <1>9, <2>2, <2>4, <3>2, Holding DEF SwitchTo
    <3>4. rf' \in {None} \cup RfState
      <4>1. CASE mode.scripted
        BY <1>1, <1>9, <2>1, <2>4, <4>1, FreshTypes DEF SwitchTo, ArgAt
      <4>2. CASE ~mode.scripted
        BY <2>1, <4>2, ByHandOps
      <4> QED BY <4>1, <4>2
    <3> QED BY <1>9, <2>3, <3>2, <3>3, <3>4, TypesMade DEF SwitchTo, aside
  <2>5. CASE ~mode.replay
    BY <1>9, <2>2, <2>3, <2>5, TypesMade DEF SwitchTo, aside
  <2> QED BY <2>4, <2>5
<1>10. CASE Sleep
  <2>1. Instruction.op \in {"sleep", "dwell"}
    BY <1>10 DEF Sleep, At
  <2>2. Instruction.arg \in Nat
    <3>1. CASE mode.scripted
      BY <1>1, <2>1, <3>1 DEF ArgAt
    <3>2. CASE ~mode.scripted
      BY <2>1, <3>2, ByHandOps
    <3> QED BY <3>1, <3>2
  <2>3. runner' \in RunnerType(Len(procs'))
    BY <1>10, <2>1, <2>2, Advance DEF Sleep
  <2>4. TlsTypeOK'
    BY <1>10, TlsKept DEF Sleep, aside
  <2> QED BY <1>10, <2>3, <2>4, TypesMade DEF Sleep, aside
<1>11. CASE Count
  <2>1. Instruction.op = "count"
    BY <1>11 DEF Count, At
  <2>2. runner' \in RunnerType(Len(procs'))
    <3>1. PICK r : r = Onwards(0)
      OBVIOUS
    <3>2. r \in RunnerType(Len(procs)) /\ AlertCount \in -1 .. Retained
      BY <1>11, <2>1, <3>1, Advance, CountTypes
    <3>3. runner' = [r EXCEPT !.before = AlertCount] /\ procs' = procs
      BY <1>11, <3>1 DEF Count
    <3> QED BY <3>2, <3>3 DEF RunnerType
  <2>3. TlsTypeOK'
    BY <1>11, TlsKept DEF Count, monitorVars
  <2>4. since' \in SinceType
    BY <1>11, HeldBackTypes DEF Count, Untroubled, TlsTypeOK, SinceType
  <2> QED BY <1>11, <2>2, <2>3, <2>4, TypesMade DEF Count
<1>12. CASE Judge
  <2>1. Instruction.op = "judge"
    BY <1>12 DEF Judge, At
  <2>2. 0 \in -1 .. Retained
    BY TypesOfConstants
  <2>3. runner' \in RunnerType(Len(procs'))
    <3>1. Onwards(0) \in RunnerType(Len(procs))
      BY <2>1, Advance
    <3>2. runner' = [Onwards(0) EXCEPT !.before = 0] /\ procs' = procs
      BY <1>12, Zenon DEF Judge
    <3> HIDE DEF Onwards
    <3> QED BY <2>2, <3>1, <3>2 DEF RunnerType
  <2>4. TlsTypeOK'
    BY <1>12, TlsKept DEF Judge, monitorVars
  <2>5. since' \in SinceType
    BY <1>12 DEF Judge, Untroubled, SinceType
  <2> QED BY <1>12, <2>3, <2>4, <2>5, TypesMade DEF Judge
<1>13. CASE StartTls
  <2>1. Instruction.op = "start_tls"
    BY <1>13 DEF StartTls, At
  <2>2. procs' \in Seq(ProcessType) /\ Len(procs') = Len(procs) + 1
    <3>1. procs' = Append(procs, Process("tls"))
      BY <1>13, Zenon DEF StartTls
    <3> QED BY <3>1, ProcessTypes
  <2>3. runner' \in RunnerType(Len(procs'))
    BY <1>13, <2>1, <2>2, Advance, Holding DEF StartTls
  <2>4. TlsTypeOK'
    <3>1. Instruction.arg \in SUBSET Traffic
      <4>1. CASE mode.scripted
        BY <1>1, <2>1, <4>1 DEF ArgAt
      <4>2. CASE ~mode.scripted
        BY <2>1, <4>2, ByHandOps
      <4> QED BY <4>1, <4>2
    <3>2. tls' \in TlsState
      BY <1>13, <3>1, StartedTls
    <3>3. called' \in 0 .. Kept + 1
      <4>1. called' = Kept + 1
        BY <1>13, Zenon DEF StartTls
      <4>2. Kept \in Nat
        BY TypesOfConstants
      <4>3. Kept + 1 \in 0 .. Kept + 1
        BY <4>2
      <4> QED BY <4>1, <4>3, Zenon
    <3> QED BY <1>13, <3>2, <3>3 DEF StartTls, aside, TlsTypeOK
  <2> QED BY <1>13, <2>2, <2>3, <2>4, TypesMade DEF StartTls, aside
<1>14. CASE Call
  <2>1. Instruction.op = "call"
    BY <1>14 DEF Call, At
  <2>2. CASE /\ \E n \in 0 .. 2 : Calling("rogue", n)
             /\ since' = [since EXCEPT !.between = ~Capturing]
             /\ runner' = Onwards(0)
             /\ UNCHANGED <<procs, rf>>
    <3>1. wire' \in [Unusual -> Nat] /\ tls' \in {None} \cup TlsState
      <4>1. PICK n \in 0 .. 2 : Calling("rogue", n)
        BY <2>2
      <4>2. n \in Nat /\ "rogue" \in Unusual
        BY DEF Unusual
      <4> QED BY <4>1, <4>2, CallingTypes DEF TlsTypeOK
    <3>2. TlsTypeOK'
      BY <1>14, <3>1 DEF Call, TlsTypeOK
    <3>3. since' \in SinceType
      BY <2>2 DEF SinceType, Capturing
    <3>4. runner' \in RunnerType(Len(procs'))
      BY <2>1, <2>2, Advance
    <3> QED BY <1>14, <2>2, <3>2, <3>3, <3>4, TypesMade DEF Call
  <2>3. CASE Exit("crashed") /\ UNCHANGED <<wire, since>>
    <3>1. /\ runner' \in RunnerType(Len(procs')) /\ procs' \in Seq(ProcessType)
          /\ rf' \in {rf, None} /\ tls' \in {tls, None}
      BY <2>3, ExitTypes
    <3>2. TlsTypeOK'
      BY <1>14, <2>3, <3>1, TlsKept DEF Call
    <3> QED BY <1>14, <2>3, <3>1, <3>2, TypesMade DEF Call
  <2> QED BY <1>14, <2>2, <2>3 DEF Call
<1>15. CASE StopMonitor
  <2>1. Instruction.op = "stop"
    BY <1>15 DEF StopMonitor, At
  <2>2. /\ runner' \in RunnerType(Len(procs')) /\ procs' \in Seq(ProcessType)
        /\ rf' \in {rf, None} /\ tls' \in {tls, None}
    <3>1. CASE MayStop
      <4>1. /\ procs' = Stopped(runner.held)
            /\ rf' \in {rf, None} /\ tls' \in {tls, None}
            /\ runner' = [Onwards(0) EXCEPT !.held = 0]
        BY <1>15, <3>1 DEF StopMonitor, Reap
      <4>2. procs' \in Seq(ProcessType) /\ Len(procs') = Len(procs)
        BY <4>1, StoppedEnds DEF RunnerType, Ends
      <4>3. Onwards(0) \in RunnerType(Len(procs))
        BY <2>1, Advance
      <4>4. runner' \in RunnerType(Len(procs))
        BY <4>1, <4>3, Holding
      <4> QED BY <4>1, <4>2, <4>4
    <3>2. CASE ~MayStop
      BY <1>15, <3>2, ExitTypes DEF StopMonitor
    <3> QED BY <3>1, <3>2
  <2>3. TlsTypeOK'
    BY <1>15, <2>2, TlsKept DEF StopMonitor, aside
  <2> QED BY <1>15, <2>2, <2>3, TypesMade DEF StopMonitor, aside
<1>16. CASE Done
  <2>1. /\ runner' \in RunnerType(Len(procs')) /\ procs' \in Seq(ProcessType)
        /\ rf' \in {rf, None} /\ tls' \in {tls, None}
    BY <1>16, ExitTypes DEF Done
  <2>2. TlsTypeOK'
    BY <1>16, <2>1, TlsKept DEF Done, aside
  <2> QED BY <1>16, <2>1, <2>2, TypesMade DEF Done, aside
<1> QED
  BY <1>2, <1>3, <1>4, <1>5, <1>6, <1>7, <1>8, <1>9, <1>10, <1>11, <1>12, <1>13, <1>14,
     <1>15, <1>16 DEF Execute

\* The faults are counted within their bound.
LEMMA FaultTypes ==
  ASSUME DemoTypes, Fault
  PROVE  spent' \in [faults : 0 .. MaxFaults, calls : 0 .. MaxCalls]
<1>1. spent \in [faults : 0 .. MaxFaults, calls : 0 .. MaxCalls]
  BY TypesParts
<1>2. spent' = [spent EXCEPT !.faults = spent.faults + 1] /\ spent.faults + 1 \in 0 .. MaxFaults
  BY <1>1, TypesOfConstants DEF Fault
<1> QED BY <1>1, <1>2

\* A sweep keeps the types.
LEMMA SweepTypes ==
  ASSUME DemoTypes, NEW lost \in BOOLEAN, RfSweep(lost),
         spent' \in [faults : 0 .. MaxFaults, calls : 0 .. MaxCalls]
  PROVE  DemoTypes'
<1> DEFINE view    == IF rf.reads # None THEN rf.reads ELSE air
           sending == {radio \in view \ file : ~IsSuppressed(rf.sentAge[radio], RfSuppress)}
           stored  == sending # {} /\ dash.up /\ ~lost
           ages    == [radio \in Radios |-> IF radio \in sending THEN 0 ELSE rf.sentAge[radio]]
<1>1. /\ rf # None
      /\ rf' = [rf EXCEPT !.due = FALSE, !.sentAge = ages]
      /\ dash' = IF stored THEN Stored(Cardinality(sending)) ELSE dash
      /\ since' = [since EXCEPT !.stored = @ \/ stored, !.troubled = @ \/ lost]
      /\ UNCHANGED <<tls, wire, screen, called, mode, runner, air, file, procs, verdict>>
  BY DEF RfSweep
<1>2. /\ rf \in RfState
      /\ since \in SinceType
      /\ dash \in [up : BOOLEAN, alerts : 0 .. Retained]
  BY <1>1, TypesParts DEF TlsTypeOK
<1>3. stored \in BOOLEAN
  BY <1>2
<1>4. Cardinality(sending) \in Nat
  <2>1. sending \subseteq Radios
    BY <1>2, TypesParts DEF RfState
  <2> QED BY <2>1, SmallSets
<1>5. ages \in [Radios -> 0 .. RfSuppress]
  BY <1>2, TypesOfConstants DEF RfState
<1> HIDE DEF view, sending, stored, ages
<1>6. rf' \in RfState
  BY <1>1, <1>2, <1>5 DEF RfState
<1>7. dash' \in [up : BOOLEAN, alerts : 0 .. Retained]
  BY <1>1, <1>2, <1>4, TypesOfConstants DEF Stored, Least
<1>8. TlsTypeOK'
  BY <1>1, <1>7, TypesParts DEF TlsTypeOK
<1>9. since' \in SinceType
  BY <1>1, <1>2, <1>3 DEF SinceType
<1> QED BY <1>1, <1>6, <1>8, <1>9, TypesParts, TypesMade

\* A window keeps the types.
LEMMA TlsWindowTypes ==
  ASSUME DemoTypes, NEW captured \in BOOLEAN, NEW lost \in BOOLEAN, TlsWindow(captured, lost),
         spent' \in [faults : 0 .. MaxFaults, calls : 0 .. MaxCalls]
  PROVE  DemoTypes'
<1>1. TlsTypeOK'
  <2>1. PICK late \in 0 .. Gap : WindowDone(captured, lost, late)
    BY DEF TlsWindow
  <2> QED BY <2>1, TypesParts, WindowTypes
<1>2. dash \in [up : BOOLEAN, alerts : 0 .. Retained]
  BY TypesParts DEF TlsTypeOK
<1>3. since' \in SinceType
  BY <1>2, TypesParts DEF TlsWindow, SinceType
<1> QED BY <1>1, <1>3, TypesParts, TypesMade DEF TlsWindow

\* The passing of time keeps the types.
LEMMA TickStepTypes ==
  ASSUME DemoTypes, Tick
  PROVE  DemoTypes'
<1>1. TlsTypeOK'
  <2>1. (~mode.scripted \/ Works("traffic", procs)) \in BOOLEAN
    BY TypesParts DEF ModeType, Works
  <2> QED BY <2>1, TypesParts, TickTypes DEF Tick
<1>2. rf' \in {None} \cup RfState
  <2>1. CASE rf = None
    BY <2>1 DEF Tick
  <2>2. CASE rf # None
    <3> DEFINE ages == [radio \in Radios |-> Least(rf.sentAge[radio] + 1, RfSuppress)]
    <3>1. rf \in RfState /\ rf' = [rf EXCEPT !.due = TRUE, !.sentAge = ages]
      BY <2>2, TypesParts DEF Tick
    <3>2. ages \in [Radios -> 0 .. RfSuppress]
      BY <3>1, TypesOfConstants DEF RfState, Least
    <3> HIDE DEF ages
    <3> QED BY <3>1, <3>2 DEF RfState
  <2> QED BY <2>1, <2>2
<1>3. runner' \in RunnerType(Len(procs'))
  <2>1. PICK w : w = IF runner.wait > 0 THEN runner.wait - 1 ELSE 0
    OBVIOUS
  <2>2. runner \in RunnerType(Len(procs))
    BY TypesParts
  <2>3. runner.wait \in Nat
    BY <2>2 DEF RunnerType
  <2>4. w \in Nat
    BY <2>1, <2>3
  <2>5. runner' = [runner EXCEPT !.wait = w] /\ procs' = procs
    BY <2>1 DEF Tick
  <2> QED BY <2>2, <2>4, <2>5 DEF RunnerType
<1> QED BY <1>1, <1>2, <1>3, TypesParts, TypesMade DEF Tick

\* A crash keeps the types.
LEMMA CrashTypes ==
  ASSUME DemoTypes, Crash
  PROVE  /\ DemoTypes'
         /\ Ends(procs, procs') /\ Len(procs') = Len(procs)
<1>1. PICK i \in DOMAIN procs, left \in BOOLEAN :
        /\ left => procs[i].child
        /\ Reap([procs EXCEPT ![i].leader = FALSE, ![i].child = left, ![i].fell = TRUE])
  BY DEF Crash
<1>2. procs' \in Seq(ProcessType) /\ Len(procs') = Len(procs) /\ Ends(procs, procs')
  BY <1>1, TypesParts, CrashEnds DEF Reap, Ends
<1>3. rf' \in {rf, None} /\ tls' \in {tls, None}
  BY <1>1 DEF Reap
<1>4. TlsTypeOK'
  BY <1>3, TypesParts, TlsKept DEF Crash
<1>5. since' \in SinceType
  BY TypesParts DEF Crash, Trouble, SinceType
<1>6. runner' \in RunnerType(Len(procs'))
  BY <1>2, TypesParts DEF Crash
<1>7. spent' \in [faults : 0 .. MaxFaults, calls : 0 .. MaxCalls]
  BY FaultTypes DEF Crash
<1> QED BY <1>2, <1>3, <1>4, <1>5, <1>6, <1>7, TypesParts, TypesMade DEF Crash

\* The calls that nothing asks for.
LEMMA UnscriptedCalls ==
  ASSUME Unscripted
  PROVE  (wire' = wire /\ tls' = tls) \/ \E k \in Unusual, n \in 0 .. 2 : Calling(k, n)
<1>1. "rogue" \in Unusual /\ 0 .. 1 \subseteq 0 .. 2
  BY DEF Unusual
<1> QED BY <1>1, Zenon DEF Unscripted

\* Every step keeps the types.
LEMMA StepTypes ==
  ASSUME DemoTypes, [Next]_vars
  PROVE  DemoTypes'
<1> USE TypesParts
<1>1. CASE Execute
  BY <1>1, ExecuteTypes
<1>2. CASE Operate
  <2>1. mode.scripted /\ Instruction.op = "ask"
    BY <1>2 DEF Operate, At
  <2>2. Instruction.arg \in SUBSET {"A", "B"}
    BY <2>1, ArgTypes DEF ArgAt
  <2>3. TlsTypeOK'
    BY <1>2, TlsKept DEF Operate, monitorVars
  <2> QED BY <1>2, <2>2, <2>3, TypesMade DEF Operate, Radios
<1>3. CASE Interrupt
  <2>1. /\ runner' \in RunnerType(Len(procs')) /\ procs' \in Seq(ProcessType)
        /\ rf' \in {rf, None} /\ tls' \in {tls, None}
    BY <1>3, ExitTypes DEF Interrupt
  <2>2. TlsTypeOK'
    BY <1>3, <2>1, TlsKept DEF Interrupt, aside
  <2> QED BY <1>3, <2>1, <2>2, TypesMade DEF Interrupt, aside
<1>4. CASE Tick
  BY <1>4, TickStepTypes
<1>5. CASE RfSweep(FALSE) /\ UNCHANGED spent
  BY <1>5, SweepTypes
<1>6. CASE TlsWindow(TRUE, FALSE) /\ UNCHANGED spent
  BY <1>6, TlsWindowTypes
<1>7. CASE Crash
  BY <1>7, CrashTypes
<1>8. CASE Dashboard
  <2>1. dash' \in [up : BOOLEAN, alerts : 0 .. Retained]
    <3>1. 0 \in 0 .. Retained
      BY TypesOfConstants
    <3> QED BY <1>8, <3>1 DEF Dashboard, TlsTypeOK
  <2>2. TlsTypeOK'
    BY <1>8, <2>1 DEF Dashboard, TlsTypeOK
  <2>3. spent' \in [faults : 0 .. MaxFaults, calls : 0 .. MaxCalls]
    BY <1>8, FaultTypes DEF Dashboard
  <2>4. since' \in SinceType
    BY <1>8 DEF Dashboard, Trouble, SinceType
  <2> QED BY <1>8, <2>2, <2>3, <2>4, TypesMade DEF Dashboard
<1>9. CASE Unscripted
  <2>1. spent' \in [faults : 0 .. MaxFaults, calls : 0 .. MaxCalls]
    <3>1. CASE Fault
      BY <3>1, FaultTypes
    <3>2. CASE spent.calls < MaxCalls /\ spent' = [spent EXCEPT !.calls = @ + 1]
      BY <3>2, OneMore
    <3> QED BY <1>9, <3>1, <3>2 DEF Unscripted
  <2>2. wire' \in [Unusual -> Nat] /\ tls' \in {None} \cup TlsState
    <3>1. wire \in [Unusual -> Nat] /\ tls \in {None} \cup TlsState
      BY DEF TlsTypeOK
    <3>2. (wire' = wire /\ tls' = tls) \/ \E k \in Unusual, n \in 0 .. 2 : Calling(k, n)
      BY <1>9, UnscriptedCalls
    <3> QED BY <3>1, <3>2, CallingTypes
  <2>3. air' \in SUBSET Radios
    BY <1>9 DEF Unscripted, Radios
  <2>4. TlsTypeOK'
    BY <1>9, <2>2 DEF Unscripted, TlsTypeOK
  <2> QED BY <1>9, <2>1, <2>3, <2>4, TypesMade DEF Unscripted
<1>10. CASE Faulty
  BY <1>10, FaultTypes, SweepTypes, TlsWindowTypes DEF Faulty
<1>11. CASE UNCHANGED vars
  BY <1>11 DEF vars, monitorVars, DemoTypes, TlsTypeOK, Script, ByHand, Opening, ActOne, ActTwo
<1> QED
  BY <1>1, <1>2, <1>3, <1>4, <1>5, <1>6, <1>7, <1>8, <1>9, <1>10, <1>11 DEF Next

\* The types hold at the start.
LEMMA InitTypes ==
  ASSUME Init
  PROVE  DemoTypes
<1>1. mode \in ModeType
  BY DEF Init, ModeType
<1>2. Len(Script) \in Nat /\ Len(Script) >= 1
  BY <1>1, ScriptLength
<1>3. runner \in RunnerType(Len(procs))
  BY <1>2, TypesOfConstants DEF Init, RunnerType
<1>4. TlsTypeOK
  <2>1. dash \in [up : BOOLEAN, alerts : 0 .. Retained]
    <3>1. {0, Retained - 1} \subseteq 0 .. Retained
      BY TypesOfConstants
    <3>2. dash \in [up : {TRUE}, alerts : {0, Retained - 1}]
      BY DEF Init, TlsInit
    <3> QED BY <3>1, <3>2
  <2>2. called \in 0 .. Kept + 1 /\ wire \in [Unusual -> Nat]
    <3>1. called = Kept + 1 /\ wire = [k \in Unusual |-> 0]
      BY DEF Init, TlsInit
    <3>2. Kept + 1 \in 0 .. Kept + 1
      BY TypesOfConstants
    <3> QED BY <3>1, <3>2
  <2> QED BY <2>1, <2>2 DEF Init, TlsInit, TlsTypeOK
<1>5. since \in SinceType
  BY DEF Init, Untroubled, SinceType
<1>6. spent \in [faults : 0 .. MaxFaults, calls : 0 .. MaxCalls]
  BY TypesOfConstants DEF Init
<1>7. file \in {None} \cup SUBSET Radios
  BY DEF Init, Earlier, Radios
<1> QED BY <1>1, <1>3, <1>4, <1>5, <1>6, <1>7 DEF Init, DemoTypes, ModeType, RunnerType, SinceType

----------------------------------------------------------------------------
(* The steps, by what they do to the processes *)

\* The network monitor goes on with what it reads.
TlsOn == IF tls = None THEN tls' = None ELSE tls' # None /\ tls'.reads = tls.reads

\* A step that leaves the processes alone.
Calm ==
  /\ procs' = procs /\ mode' = mode
  /\ runner'.held = runner.held /\ runner'.outcome = runner.outcome
  /\ IF rf = None THEN rf' = None ELSE rf' # None /\ rf'.reads = rf.reads
  /\ IF tls = None THEN tls' = None ELSE tls' # None /\ tls'.reads = tls.reads
  /\ \/ runner'.pc = runner.pc
     \/ /\ runner'.pc = runner.pc + 1 /\ mode.scripted
        /\ Place \notin {18, 31} /\ (mode.replay => Place # 26)

\* A step in which processes end, other than the stop of a monitor.
Ended ==
  /\ Ends(procs, procs') /\ Reap(procs') /\ mode' = mode
  /\ runner'.pc = runner.pc
  /\ \/ runner' = runner
     \/ ~Running' /\ \E outcome \in {"done", "failed", "interrupted", "crashed"} : Exit(outcome)

\* A monitor that is there has a state.
LEMMA Monitors ==
  ASSUME DemoTypes
  PROVE  /\ rf # None => rf \in RfState
         /\ tls # None => tls \in TlsState
         /\ \A r \in RfState : r # None
         /\ \A t \in TlsState : t # None
  BY RfNoneAssumption, TlsNoneAssumption DEF DemoTypes, TlsTypeOK

\* The end of the program is an end of processes.
LEMMA ExitEnded ==
  ASSUME DemoTypes, NEW outcome \in {"done", "failed", "interrupted", "crashed"}, Exit(outcome),
         mode' = mode
  PROVE  Ended
<1>1. Ends(procs, procs') /\ runner'.pc = runner.pc /\ runner'.outcome = outcome
  BY ExitTypes
<1>2. Reap(procs')
  BY DEF Exit, Reap
<1> QED BY <1>1, <1>2 DEF Ended, Running

\* The line after which a monitor is stopped is not passed otherwise.
LEMMA NotStopped ==
  ASSUME NEW k \in -3 .. 32, NEW op, OpAt(op, k),
         op \in {"try", "preflight", "ask", "baseline", "sleep", "dwell", "count", "judge",
                 "call", "switch"}
  PROVE  k \notin {18, 31} /\ (mode.replay => k # 26)
<1>1. CASE op = "try"
  BY <1>1 DEF OpAt
<1>2. CASE op = "preflight"
  BY <1>2 DEF OpAt
<1>3. CASE op = "ask"
  BY <1>3 DEF OpAt
<1>4. CASE op = "baseline"
  BY <1>4 DEF OpAt
<1>5. CASE op = "sleep"
  BY <1>5 DEF OpAt
<1>6. CASE op = "dwell"
  BY <1>6 DEF OpAt
<1>7. CASE op = "count"
  BY <1>7 DEF OpAt
<1>8. CASE op = "judge"
  BY <1>8 DEF OpAt
<1>9. CASE op = "call"
  BY <1>9 DEF OpAt
<1>10. CASE op = "switch"
  BY <1>10 DEF OpAt
<1> QED
  BY <1>1, <1>2, <1>3, <1>4, <1>5, <1>6, <1>7, <1>8, <1>9, <1>10

\* Going on by one line, with the processes left alone.
LEMMA CalmAdvance ==
  ASSUME DemoTypes, mode.scripted, NEW wait \in Nat, NEW op, Instruction.op = op,
         op \in {"try", "preflight", "ask", "baseline", "sleep", "dwell", "count", "judge",
                 "call", "switch"},
         procs' = procs, mode' = mode, rf' = rf, TlsOn,
         \/ runner' = Onwards(wait)
         \/ \E before \in -1 .. Retained : runner' = [Onwards(wait) EXCEPT !.before = before]
  PROVE  Calm
<1>1. OpAt(op, Place) /\ mode \in ModeType
  BY Where DEF DemoTypes, ModeType
<1>2. Place \notin {18, 31} /\ (mode.replay => Place # 26)
  <2>1. Place \in -3 .. 32
    BY Where DEF DemoTypes, ModeType
  <2> QED BY <1>1, <2>1, NotStopped
<1>3. /\ Onwards(wait) \in RunnerType(Len(procs))
      /\ Onwards(wait).pc = runner.pc + 1 /\ Onwards(wait).held = runner.held
      /\ Onwards(wait).outcome = runner.outcome
  BY Advance
<1>4. /\ runner'.pc = runner.pc + 1 /\ runner'.held = runner.held
      /\ runner'.outcome = runner.outcome
  BY <1>3 DEF RunnerType
<1> QED BY <1>2, <1>4 DEF Calm, TlsOn

\* A step of others, with the processes left alone.
LEMMA CalmStill ==
  ASSUME DemoTypes, procs' = procs, mode' = mode, runner' = runner, rf' = rf, TlsOn
  PROVE  Calm
  BY DEF Calm, TlsOn

\* A session that is begun leaves the monitor alone.
LEMMA CallingOn ==
  ASSUME DemoTypes
  PROVE  \A k \in Unusual, n \in 0 .. 2 : Calling(k, n) => TlsOn
<1> SUFFICES ASSUME NEW k \in Unusual, NEW n \in 0 .. 2, Calling(k, n) PROVE TlsOn
  OBVIOUS
<1>1. tls \in {None} \cup TlsState /\ wire \in [Unusual -> Nat] /\ n \in Nat
  BY TypesParts DEF TlsTypeOK
<1>2. IF tls = None THEN tls' = None ELSE tls' \in TlsState /\ tls'.reads = tls.reads
  BY <1>1, CallingTypes
<1> QED BY <1>2, Monitors DEF TlsOn

\* A sweep leaves the processes alone.
LEMMA SweepCalm ==
  ASSUME DemoTypes, NEW lost \in BOOLEAN, RfSweep(lost)
  PROVE  Calm
<1>1. rf # None /\ rf \in RfState
  BY Monitors DEF RfSweep
<1>2. rf' \in RfState /\ rf'.reads = rf.reads
  <2>1. PICK ages : rf' = [rf EXCEPT !.due = FALSE, !.sentAge = ages]
    BY DEF RfSweep
  <2>2. rf'.reads = rf.reads
    BY <1>1, <2>1 DEF RfState
  <2>3. rf' \in RfState
    <3> DEFINE sending == {radio \in (IF rf.reads # None THEN rf.reads ELSE air) \ file :
                              ~IsSuppressed(rf.sentAge[radio], RfSuppress)}
               now     == [radio \in Radios |-> IF radio \in sending THEN 0 ELSE rf.sentAge[radio]]
    <3>1. rf' = [rf EXCEPT !.due = FALSE, !.sentAge = now]
      BY DEF RfSweep
    <3>2. now \in [Radios -> 0 .. RfSuppress]
      BY <1>1, TypesOfConstants DEF RfState
    <3> HIDE DEF now
    <3> QED BY <1>1, <3>1, <3>2 DEF RfState
  <2> QED BY <2>2, <2>3
<1> QED BY <1>1, <1>2, Monitors DEF RfSweep, Calm

\* A window leaves the processes alone.
LEMMA WindowCalm ==
  ASSUME DemoTypes, NEW captured \in BOOLEAN, NEW lost \in BOOLEAN, TlsWindow(captured, lost)
  PROVE  Calm
<1>1. tls \in TlsState /\ tls' \in TlsState /\ tls'.reads = tls.reads
  <2>1. PICK late \in 0 .. Gap : WindowDone(captured, lost, late)
    BY DEF TlsWindow
  <2> QED BY <2>1, TypesParts, WindowTypes
<1> QED BY <1>1, Monitors DEF TlsWindow, Calm

\* The passing of time leaves the processes alone.
LEMMA TickCalm ==
  ASSUME DemoTypes, Tick
  PROVE  Calm
<1>1. IF tls = None THEN tls' = None ELSE tls' \in TlsState /\ tls'.reads = tls.reads
  <2>1. (~mode.scripted \/ Works("traffic", procs)) \in BOOLEAN
    BY TypesParts DEF ModeType, Works
  <2> QED BY <2>1, TypesParts, TickTypes DEF Tick
<1>2. IF rf = None THEN rf' = None ELSE rf' \in RfState /\ rf'.reads = rf.reads
  <2>1. CASE rf = None
    BY <2>1 DEF Tick
  <2>2. CASE rf # None
    <3> DEFINE ages == [radio \in Radios |-> Least(rf.sentAge[radio] + 1, RfSuppress)]
    <3>1. rf \in RfState /\ rf' = [rf EXCEPT !.due = TRUE, !.sentAge = ages]
      BY <2>2, TypesParts DEF Tick
    <3>2. ages \in [Radios -> 0 .. RfSuppress]
      BY <3>1, TypesOfConstants DEF RfState, Least
    <3> HIDE DEF ages
    <3> QED BY <2>2, <3>1, <3>2 DEF RfState
  <2> QED BY <2>1, <2>2
<1>3. /\ runner'.pc = runner.pc /\ runner'.held = runner.held
      /\ runner'.outcome = runner.outcome
  BY TypesParts DEF Tick, RunnerType
<1> QED BY <1>1, <1>2, <1>3, Monitors DEF Tick, Calm

\* What a step does to the processes.
LEMMA StepKinds ==
  ASSUME DemoTypes, [Next]_vars
  PROVE  \/ Calm \/ Ended
         \/ StartDashboard \/ StartTraffic \/ StartRf \/ (SwitchTo /\ mode.replay) \/ StartTls
         \/ (StopMonitor /\ MayStop)
<1>1. CASE Execute
  <2>1. CASE EnterTry \/ Return \/ Baseline \/ Sleep \/ (SwitchTo /\ ~mode.replay)
    <3>1. mode.scripted
      BY <2>1, ByHandOps DEF EnterTry, Return, Baseline, Sleep, SwitchTo, At
    <3>2. /\ Instruction.op \in {"try", "ask", "baseline", "sleep", "dwell", "switch"}
          /\ procs' = procs /\ mode' = mode /\ rf' = rf /\ TlsOn
          /\ \E wait \in {0, BaselineTime, Instruction.arg} : runner' = Onwards(wait)
          /\ ~ Sleep => \E wait \in {0, BaselineTime} : runner' = Onwards(wait)
      BY <2>1 DEF EnterTry, Return, Baseline, Sleep, SwitchTo, At, aside, monitorVars, TlsOn, Takes
    <3>3. ArgAt(Instruction.op, Instruction.arg, Place)
      BY <3>1, ArgTypes
    <3>4. Sleep => Instruction.arg \in Nat
      BY <3>3 DEF Sleep, At, ArgAt
    <3>5. \E wait \in Nat : runner' = Onwards(wait)
      BY <3>2, <3>4, TypesOfConstants
    <3> QED BY <3>1, <3>2, <3>5, CalmAdvance
  <2>2. CASE Count \/ Judge
    <3>1. mode.scripted
      BY <2>2, ByHandOps DEF Count, Judge, At
    <3>2. /\ Instruction.op \in {"count", "judge"}
          /\ procs' = procs /\ mode' = mode /\ rf' = rf /\ TlsOn
          /\ runner' = [Onwards(0) EXCEPT !.before = AlertCount] \/ runner' = [Onwards(0) EXCEPT !.before = 0]
      BY <2>2 DEF Count, Judge, At, monitorVars, TlsOn
    <3>3. 0 \in -1 .. Retained
      BY TypesOfConstants
    <3> QED BY <3>1, <3>2, <3>3, CountTypes, CalmAdvance
  <2>3. CASE Preflight
    <3>1. mode.scripted /\ Instruction.op = "preflight" /\ mode' = mode
      BY <2>3, ByHandOps DEF Preflight, At, aside
    <3>2. tls' = tls => TlsOn
      BY DEF TlsOn
    <3> QED BY <2>3, <3>1, <3>2, CalmAdvance, ExitEnded DEF Preflight
  <2>4. CASE Call
    <3>1. mode.scripted /\ Instruction.op = "call" /\ mode' = mode
      BY <2>4, ByHandOps DEF Call, At
    <3>2. \A n \in 0 .. 2 : Calling("rogue", n) => TlsOn
      <4>1. "rogue" \in Unusual
        BY DEF Unusual
      <4> QED BY <4>1, CallingOn
    <3> QED BY <2>4, <3>1, <3>2, CalmAdvance, ExitEnded DEF Call
  <2>5. CASE Done
    BY <2>5, ExitEnded DEF Done, aside
  <2>6. CASE StopMonitor /\ ~MayStop
    BY <2>6, ExitEnded DEF StopMonitor, aside
  <2>7. \/ EnterTry \/ Return \/ Baseline \/ Sleep \/ (SwitchTo /\ ~mode.replay)
        \/ Count \/ Judge \/ Preflight \/ Call \/ Done \/ (StopMonitor /\ ~MayStop)
        \/ StartDashboard \/ StartTraffic \/ StartRf \/ (SwitchTo /\ mode.replay) \/ StartTls
        \/ (StopMonitor /\ MayStop)
    <3>1. \/ EnterTry \/ Return \/ Baseline \/ Sleep \/ SwitchTo
          \/ Count \/ Judge \/ Preflight \/ Call \/ Done \/ StopMonitor
          \/ StartDashboard \/ StartTraffic \/ StartRf \/ StartTls
      BY <1>1, Zenon DEF Execute
    <3> QED BY <3>1, Zenon
  <2> QED BY <2>1, <2>2, <2>3, <2>4, <2>5, <2>6, <2>7, Zenon
<1>2. CASE Operate \/ Dashboard \/ Unscripted
  <2>1. procs' = procs /\ mode' = mode /\ runner' = runner /\ rf' = rf
    BY <1>2 DEF Operate, Dashboard, Unscripted, monitorVars
  <2>2. TlsOn
    <3>1. tls' = tls => TlsOn
      BY DEF TlsOn
    <3>2. Operate \/ Dashboard => tls' = tls
      BY DEF Operate, Dashboard, monitorVars
    <3> QED BY <1>2, <3>1, <3>2, UnscriptedCalls, CallingOn
  <2> QED BY <2>1, <2>2, CalmStill
<1>3. CASE Interrupt
  BY <1>3, ExitEnded DEF Interrupt, aside
<1>4. CASE Tick
  BY <1>4, TickCalm
<1>5. CASE RfSweep(FALSE) /\ UNCHANGED spent
  BY <1>5, SweepCalm
<1>6. CASE TlsWindow(TRUE, FALSE) /\ UNCHANGED spent
  BY <1>6, WindowCalm
<1>7. CASE Crash
  <2>1. Reap(procs') /\ Ends(procs, procs') /\ mode' = mode /\ runner' = runner
    BY <1>7, CrashTypes DEF Crash, Reap
  <2> QED BY <2>1 DEF Ended
<1>8. CASE Faulty
  BY <1>8, SweepCalm, WindowCalm DEF Faulty
<1>9. CASE UNCHANGED vars
  BY <1>9, CalmStill DEF vars, monitorVars, TlsOn
<1> QED BY <1>1, <1>2, <1>3, <1>4, <1>5, <1>6, <1>7, <1>8, <1>9 DEF Next

----------------------------------------------------------------------------
(* The processes *)

\* What is known of a process when the program is on line pc, at place k.
Kind(p, pc, k) ==
  /\ p.what = "dashboard" => mode.scripted /\ pc > 1
  /\ p.what = "traffic" => mode.scripted /\ k > 19
  /\ p.what = "rf" => mode.scripted /\ k > 3
  /\ p.what = "tls" => IF mode.scripted THEN k > IF mode.replay THEN 19 ELSE 21 ELSE pc > 1
  /\ p.child => ~mode.replay
  /\ p.sudo => p.what = "tls" /\ ~mode.replay
  /\ p.sudo /\ p.leader => p.child
  /\ p.child /\ ~p.leader => p.fell

\* It is known of all of them.
KindsInv == \A i \in 1 .. Len(procs) : Kind(procs[i], runner.pc, Place)

\* Which monitor the program may hold at place k.
HoldsAt(what, k) ==
  \/ what = "rf" /\ k \in 4 .. 18
  \/ what = "tls" /\ IF mode.replay THEN k \in 20 .. 26 \/ k \in 28 .. 31 ELSE k \in 22 .. 31

\* The handle is on the monitor of the act that is played.
HeldInv ==
  Running /\ mode.scripted /\ runner.held # 0 => HoldsAt(procs[runner.held].what, Place)

\* A monitor reads a recording exactly in a replay.
ReadsInv ==
  /\ tls # None => (tls.reads # None) = mode.replay
  /\ rf # None => (rf.reads # None) = mode.replay

\* No two processes of one kind are alive.
Alone(ps) ==
  \A i, j \in 1 .. Len(ps) :
    i # j /\ ps[i].what = ps[j].what => ~(Alive(ps[i]) /\ Alive(ps[j]))

\* No monitor runs but the one that is held.
OnlyHeld(ps, held) ==
  \A i \in 1 .. Len(ps) : ps[i].leader /\ ps[i].what \in {"rf", "tls"} => i = held

\* The invariant of the processes.
ProcsInv ==
  /\ StatesOfProcesses
  /\ KindsInv
  /\ HeldInv
  /\ ReadsInv
  /\ Alone(procs)
  /\ Running => OnlyHeld(procs, runner.held)

\* A process is added at the end.
Joins(ps, qs, p) ==
  /\ qs \in Seq(ProcessType) /\ Len(qs) = Len(ps) + 1
  /\ \A i \in 1 .. Len(ps) : qs[i] = ps[i]
  /\ qs[Len(ps) + 1] = p

\* A process that is appended joins the others.
LEMMA AppendJoins ==
  ASSUME NEW ps \in Seq(ProcessType), NEW p \in ProcessType
  PROVE  Joins(ps, Append(ps, p), p)
  BY DEF Joins

\* The process of a new RF monitor; without a baseline it has ended at once.
NewRf == IF file # None THEN Process("rf") ELSE [Process("rf") EXCEPT !.leader = FALSE, !.child = FALSE]

\* What is known of a process that was just started.
LEMMA NewProcesses ==
  ASSUME mode \in ModeType, file \in {None} \cup SUBSET Radios
  PROVE  /\ NewRf \in ProcessType /\ NewRf.what = "rf" /\ NewRf.leader = (file # None)
         /\ Working(NewRf) = (file # None)
         /\ (NewRf.child => ~mode.replay) /\ NewRf.sudo = FALSE /\ (NewRf.child => NewRf.leader)
         /\ \A what \in {"dashboard", "traffic", "tls"} :
              /\ Process(what) \in ProcessType /\ Process(what).what = what
              /\ Process(what).leader /\ Working(Process(what))
              /\ Process(what).child => ~mode.replay
              /\ Process(what).sudo => what = "tls" /\ ~mode.replay /\ Process(what).child
  BY DEF NewRf, Process, ProcessType, ModeType, Working

\* A new RF monitor joins the other processes.
LEMMA WithRfJoins ==
  ASSUME mode \in ModeType, file \in {None} \cup SUBSET Radios, NEW ps \in Seq(ProcessType)
  PROVE  Joins(ps, WithRf(ps), NewRf)
<1>1. WithRf(ps) = Append(ps, NewRf)
  BY Zenon DEF WithRf, NewRf
<1> QED BY <1>1, AppendJoins, NewProcesses

\* What works after a process has joined.
LEMMA JoinsWork ==
  ASSUME NEW ps \in Seq(ProcessType), NEW p \in ProcessType, NEW qs, Joins(ps, qs, p), NEW what
  PROVE  Works(what, qs) <=> Works(what, ps) \/ (p.what = what /\ Working(p))
<1>1. Len(ps) \in Nat /\ DOMAIN ps = 1 .. Len(ps) /\ DOMAIN qs = 1 .. Len(ps) + 1
  BY DEF Joins
<1>2. ASSUME Works(what, qs)
      PROVE  Works(what, ps) \/ (p.what = what /\ Working(p))
  <2>1. PICK i \in DOMAIN qs : qs[i].what = what /\ Working(qs[i])
    BY <1>2 DEF Works
  <2>2. i \in 1 .. Len(ps) \/ i = Len(ps) + 1
    BY <1>1
  <2> QED BY <1>1, <2>1, <2>2 DEF Joins, Works
<1>3. ASSUME Works(what, ps)
      PROVE  Works(what, qs)
  <2>1. PICK i \in 1 .. Len(ps) : ps[i].what = what /\ Working(ps[i])
    BY <1>1, <1>3 DEF Works
  <2>2. i \in DOMAIN qs /\ qs[i] = ps[i]
    BY <1>1 DEF Joins
  <2> QED BY <2>1, <2>2 DEF Works
<1>4. ASSUME p.what = what, Working(p)
      PROVE  Works(what, qs)
  <2>1. Len(ps) + 1 \in DOMAIN qs /\ qs[Len(ps) + 1] = p
    BY <1>1 DEF Joins
  <2> QED BY <1>4, <2>1 DEF Works
<1> QED BY <1>2, <1>3, <1>4

\* A process that joins is alone when none of its kind was alive.
LEMMA JoinsAlone ==
  ASSUME NEW ps \in Seq(ProcessType), NEW p \in ProcessType, NEW qs, Joins(ps, qs, p),
         Alone(ps), \A i \in 1 .. Len(ps) : ps[i].what = p.what => ~Alive(ps[i])
  PROVE  Alone(qs)
<1>1. Len(ps) \in Nat /\ Len(qs) = Len(ps) + 1
  BY DEF Joins
<1>2. ASSUME NEW i \in 1 .. Len(qs), NEW j \in 1 .. Len(qs), i # j, qs[i].what = qs[j].what
      PROVE  ~(Alive(qs[i]) /\ Alive(qs[j]))
  <2>1. i \in 1 .. Len(ps) \/ i = Len(ps) + 1
    BY <1>1
  <2>2. j \in 1 .. Len(ps) \/ j = Len(ps) + 1
    BY <1>1
  <2> QED BY <1>2, <2>1, <2>2 DEF Joins, Alone
<1> QED BY <1>2 DEF Alone

\* A monitor that joins is the only one when none ran, and is held.
LEMMA JoinsOnlyHeld ==
  ASSUME NEW ps \in Seq(ProcessType), NEW p \in ProcessType, NEW qs, Joins(ps, qs, p)
  PROVE  /\ OnlyHeld(ps, 0) => OnlyHeld(qs, Len(ps) + 1)
         /\ \A held : OnlyHeld(ps, held) /\ p.what \notin {"rf", "tls"} => OnlyHeld(qs, held)
<1>1. Len(ps) \in Nat /\ Len(qs) = Len(ps) + 1
  BY DEF Joins
<1>2. \A i \in 1 .. Len(qs) : i \in 1 .. Len(ps) \/ i = Len(ps) + 1
  BY <1>1
<1>3. ASSUME OnlyHeld(ps, 0)
      PROVE  OnlyHeld(qs, Len(ps) + 1)
  BY <1>1, <1>2, <1>3 DEF Joins, OnlyHeld
<1>4. ASSUME NEW held, OnlyHeld(ps, held), p.what \notin {"rf", "tls"}
      PROVE  OnlyHeld(qs, held)
  BY <1>1, <1>2, <1>4 DEF Joins, OnlyHeld
<1> QED BY <1>3, <1>4

\* Fewer processes are alone and held as before.
LEMMA EndsAlone ==
  ASSUME NEW ps \in Seq(ProcessType), NEW qs, Ends(ps, qs), Alone(ps)
  PROVE  /\ Alone(qs)
         /\ \A held : OnlyHeld(ps, held) => OnlyHeld(qs, held)
         /\ \A i \in 1 .. Len(qs) : qs[i].what = ps[i].what /\ (qs[i].leader => ps[i].leader)
  BY DEF Ends, Fallen, Alone, Alive, OnlyHeld

\* What is known of a process stays true as the program goes on.
LEMMA KindMono ==
  ASSUME NEW p \in ProcessType, NEW q, q = p \/ Fallen(p, q), NEW pc \in Int, NEW k \in Int,
         NEW l \in Int, NEW n \in Int, n >= pc, l >= k, Kind(p, pc, k), mode \in ModeType
  PROVE  Kind(q, n, l)
  BY DEF Kind, Fallen, ProcessType, ModeType

\* The place as a number.
LEMMA Places ==
  ASSUME DemoTypes
  PROVE  runner.pc \in Int /\ Place \in Int /\ Lead \in 1 .. 4 /\ runner.pc = Lead + Place
<1>1. Lead \in 1 .. 4 /\ runner.pc \in 1 .. Len(Script) /\ Len(Script) \in Nat
  BY OpeningLines, ScriptLength, TypesParts DEF DemoTypes
<1>2. \A l \in 1 .. 4, p \in Int : p - l \in Int /\ p = l + (p - l)
  OBVIOUS
<1>3. runner.pc \in Int
  BY <1>1
<1> QED BY <1>1, <1>2, <1>3, Zenon DEF Place

\* The place moves with the line.
LEMMA PlaceNext ==
  ASSUME DemoTypes, mode' = mode
  PROVE  /\ runner'.pc = runner.pc => Place' = Place
         /\ runner'.pc = runner.pc + 1 => Place' = Place + 1
<1>1. Lead' = Lead
  BY SameScript
<1>2. \A l \in 1 .. 4, p \in Int : (p + 1) - l = (p - l) + 1
  OBVIOUS
<1> QED BY <1>1, <1>2, Places, Zenon DEF Place

\* What is known of the processes stays true when some of them end.
LEMMA KindsKept ==
  ASSUME DemoTypes, KindsInv, mode' = mode, Ends(procs, procs'),
         runner'.pc = runner.pc \/ runner'.pc = runner.pc + 1
  PROVE  KindsInv'
<1>1. runner'.pc \in Int /\ Place' \in Int /\ runner'.pc >= runner.pc /\ Place' >= Place
  BY Places, PlaceNext
<1>2. ASSUME NEW i \in 1 .. Len(procs')
      PROVE  Kind(procs'[i], runner'.pc, Place')
  <2>1. i \in 1 .. Len(procs) /\ procs[i] \in ProcessType /\ Kind(procs[i], runner.pc, Place)
        /\ (procs'[i] = procs[i] \/ Fallen(procs[i], procs'[i]))
    BY TypesParts DEF KindsInv, Ends
  <2> QED BY <1>1, <2>1, KindMono, Places, TypesParts
<1> QED BY <1>2 DEF KindsInv, Kind

\* A step that leaves the processes alone keeps their invariant.
LEMMA CalmProcs ==
  ASSUME DemoTypes, ProcsInv, Calm
  PROVE  ProcsInv'
<1>1. /\ procs' = procs /\ mode' = mode /\ runner'.held = runner.held
      /\ runner'.outcome = runner.outcome
  BY DEF Calm
<1>2. StatesOfProcesses'
  BY <1>1 DEF Calm, ProcsInv, StatesOfProcesses, Works, Working
<1>3. KindsInv'
  <2>1. Ends(procs, procs')
    BY <1>1, TypesParts DEF Ends
  <2> QED BY <1>1, <2>1, KindsKept DEF Calm, ProcsInv
<1>4. HeldInv'
  <2>1. CASE runner'.pc = runner.pc
    <3>1. Place' = Place
      BY <1>1, <2>1, PlaceNext
    <3> QED BY <1>1, <3>1 DEF ProcsInv, HeldInv, HoldsAt, Running
  <2>2. CASE runner'.pc = runner.pc + 1 /\ mode.scripted /\ Place \notin {18, 31}
             /\ (mode.replay => Place # 26)
    <3>1. Place' = Place + 1 /\ Place \in Int
      BY <1>1, <2>2, PlaceNext, Places
    <3>2. \A what : HoldsAt(what, Place) => HoldsAt(what, Place + 1)
      BY <2>2, <3>1 DEF HoldsAt
    <3>3. HoldsAt(procs[runner.held].what, Place + 1) => HoldsAt(procs[runner.held].what, Place)'
      BY <1>1, <3>1 DEF HoldsAt
    <3> QED BY <1>1, <3>2, <3>3 DEF ProcsInv, HeldInv, Running
  <2> QED BY <2>1, <2>2 DEF Calm
<1>5. ReadsInv'
  BY <1>1 DEF Calm, ProcsInv, ReadsInv
<1>6. Alone(procs)' /\ (Running' => OnlyHeld(procs, runner.held)')
  BY <1>1 DEF ProcsInv, Alone, OnlyHeld, Alive, Running
<1> QED BY <1>2, <1>3, <1>4, <1>5, <1>6 DEF ProcsInv

\* After the monitors are reaped, their states are those of the processes.
LEMMA ReapStates ==
  ASSUME DemoTypes, StatesOfProcesses, Ends(procs, procs'), Reap(procs'), ReadsInv, mode' = mode
  PROVE  StatesOfProcesses' /\ ReadsInv'
<1>1. \A what : Works(what, procs') => Works(what, procs)
  BY EndsWork, TypesParts
<1>2. /\ rf' = IF Works("rf", procs') THEN rf ELSE None
      /\ tls' = IF Works("tls", procs') THEN tls ELSE None
  BY DEF Reap
<1>3. \A what : Works(what, procs)' <=> Works(what, procs')
  BY DEF Works, Working
<1> QED BY <1>1, <1>2, <1>3 DEF StatesOfProcesses, ReadsInv

\* A step that ends processes keeps it.
LEMMA EndedProcs ==
  ASSUME DemoTypes, ProcsInv, Ended
  PROVE  ProcsInv'
<1>1. Ends(procs, procs') /\ Reap(procs') /\ mode' = mode /\ runner'.pc = runner.pc
  BY DEF Ended
<1>2. StatesOfProcesses' /\ ReadsInv'
  BY <1>1, ReapStates DEF ProcsInv
<1>3. KindsInv'
  BY <1>1, KindsKept DEF ProcsInv
<1>4. /\ Alone(procs')
      /\ \A held : OnlyHeld(procs, held) => OnlyHeld(procs', held)
      /\ \A i \in 1 .. Len(procs') : procs'[i].what = procs[i].what
  BY <1>1, EndsAlone, TypesParts DEF ProcsInv
<1>5. HeldInv' /\ (Running' => OnlyHeld(procs, runner.held)')
  <2>1. CASE ~Running'
    BY <2>1 DEF HeldInv
  <2>2. CASE runner' = runner
    <3>1. Place' = Place
      BY <1>1, PlaceNext
    <3>2. runner.held # 0 => runner.held \in 1 .. Len(procs')
      BY <1>1, TypesParts DEF RunnerType, Ends
    <3> QED BY <1>1, <1>4, <2>2, <3>1, <3>2 DEF ProcsInv, HeldInv, HoldsAt, OnlyHeld, Running
  <2> QED BY <2>1, <2>2 DEF Ended
<1> QED BY <1>2, <1>3, <1>4, <1>5 DEF ProcsInv, Alone, Alive

\* Stopping the held monitor keeps it.
LEMMA StopProcs ==
  ASSUME DemoTypes, ProcsInv, StopMonitor, MayStop
  PROVE  ProcsInv'
<1>1. /\ procs' = Stopped(runner.held) /\ Reap(procs') /\ mode' = mode
      /\ runner' = [Onwards(0) EXCEPT !.held = 0] /\ Instruction.op = "stop"
  BY DEF StopMonitor, Reap, aside, At
<1>2. /\ Ends(procs, procs')
      /\ runner.held # 0 => ~procs'[runner.held].leader
  BY <1>1, StoppedEnds, TypesParts DEF RunnerType
<1>3. runner'.pc = runner.pc + 1 /\ runner'.held = 0 /\ runner'.outcome = runner.outcome
  BY <1>1, Advance DEF RunnerType
<1>4. StatesOfProcesses' /\ ReadsInv'
  BY <1>1, <1>2, ReapStates DEF ProcsInv
<1>5. KindsInv'
  BY <1>1, <1>2, <1>3, KindsKept DEF ProcsInv
<1>6. Alone(procs') /\ (OnlyHeld(procs, runner.held) => OnlyHeld(procs', runner.held))
  BY <1>2, EndsAlone, TypesParts DEF ProcsInv
<1>7. HeldInv'
  BY <1>3 DEF HeldInv
<1>8. Running' => OnlyHeld(procs', 0)
  <2>1. Running' <=> Running
    BY <1>3 DEF Running
  <2>2. \A i \in 1 .. Len(procs') : i = runner.held => ~procs'[i].leader
    BY <1>2, TypesParts DEF RunnerType, Ends
  <2> QED BY <1>6, <2>1, <2>2 DEF ProcsInv, OnlyHeld
<1>9. Alone(procs)' /\ (Running' => OnlyHeld(procs, runner.held)')
  BY <1>3, <1>6, <1>8 DEF Alone, Alive, OnlyHeld
<1> QED BY <1>4, <1>5, <1>7, <1>9 DEF ProcsInv

\* Going on by one line with another handle.
LEMMA AdvanceHolding ==
  ASSUME DemoTypes, Instruction.op # "done", Instruction.op = "ask" => mode.scripted,
         NEW wait \in Nat, NEW held,
         runner' = [Onwards(wait) EXCEPT !.held = held]
  PROVE  /\ runner'.pc = runner.pc + 1 /\ runner'.held = held
         /\ runner'.outcome = runner.outcome /\ runner'.wait = wait
<1>1. /\ Onwards(wait) \in RunnerType(Len(procs)) /\ Onwards(wait).pc = runner.pc + 1
      /\ Onwards(wait).outcome = runner.outcome /\ Onwards(wait).wait = wait
  BY Advance
<1> QED BY <1>1 DEF RunnerType

\* What is known of a new RF monitor.
LEMMA NewRfKind ==
  ASSUME mode \in ModeType, file \in {None} \cup SUBSET Radios, mode.scripted, NEW pc, NEW k \in Int, k > 3
  PROVE  Kind(NewRf, pc, k)
<1>1. /\ NewRf.what = "rf" /\ (NewRf.child => ~mode.replay) /\ ~NewRf.sudo
      /\ NewRf.child => NewRf.leader
  BY NewProcesses
<1> QED BY <1>1 DEF Kind

\* The kinds of the processes, after one has been added on the next line.
LEMMA KindsJoin ==
  ASSUME DemoTypes, KindsInv, mode' = mode, runner'.pc = runner.pc + 1,
         NEW ps \in Seq(ProcessType), Ends(procs, ps), NEW p \in ProcessType,
         Joins(ps, procs', p), Kind(p, runner.pc + 1, Place + 1)
  PROVE  KindsInv'
<1>1. runner'.pc \in Int /\ Place' \in Int /\ runner'.pc >= runner.pc /\ Place' >= Place
      /\ Place' = Place + 1
  BY Places, PlaceNext
<1>2. ASSUME NEW i \in 1 .. Len(procs')
      PROVE  Kind(procs'[i], runner'.pc, Place')
  <2>1. i \in 1 .. Len(ps) \/ i = Len(ps) + 1
    BY DEF Joins
  <2>2. CASE i = Len(ps) + 1
    BY <1>1, <2>2 DEF Joins
  <2>3. CASE i \in 1 .. Len(ps)
    <3>1. i \in 1 .. Len(procs) /\ procs[i] \in ProcessType /\ Kind(procs[i], runner.pc, Place)
          /\ (ps[i] = procs[i] \/ Fallen(procs[i], ps[i])) /\ procs'[i] = ps[i]
      BY <2>3, TypesParts DEF KindsInv, Ends, Joins
    <3> QED BY <1>1, <3>1, KindMono, Places, TypesParts
  <2> QED BY <2>1, <2>2, <2>3
<1> QED BY <1>2 DEF KindsInv, Kind

\* Nothing has to end.
LEMMA EndsSelf ==
  ASSUME NEW ps \in Seq(ProcessType)
  PROVE  Ends(ps, ps)
  BY DEF Ends

\* A dashboard or the traffic is started: no monitor is concerned.
LEMMA AsideProcs ==
  ASSUME DemoTypes, ProcsInv, NEW p \in ProcessType, p.what \in {"dashboard", "traffic"},
         ~p.child, ~p.sudo, Joins(procs, procs', p), mode' = mode, rf' = rf, tls' = tls,
         runner'.pc = runner.pc + 1, runner'.held = runner.held,
         runner'.outcome = runner.outcome, mode.scripted,
         p.what = "dashboard" => Place <= 0 /\ runner.pc = 1,
         p.what = "traffic" => Place = 19
  PROVE  ProcsInv'
<1>1. StatesOfProcesses'
  <2>1. ASSUME NEW what \in {"rf", "tls"}
        PROVE  Works(what, procs') <=> Works(what, procs)
    <3>1. procs \in Seq(ProcessType) /\ what # p.what
      BY TypesParts
    <3>2. Works(what, procs') <=> Works(what, procs) \/ (p.what = what /\ Working(p))
      BY <3>1, JoinsWork
    <3> QED BY <3>1, <3>2
  <2> QED BY <2>1 DEF ProcsInv, StatesOfProcesses, Works, Working
<1>2. KindsInv'
  <2>1. Kind(p, runner.pc + 1, Place + 1)
    BY Places, TypesParts DEF Kind, ProcessType
  <2> QED BY <2>1, KindsJoin, EndsSelf, TypesParts DEF ProcsInv
<1>3. HeldInv'
  <2>1. Place' = Place + 1
    BY PlaceNext
  <2>2. Place \in Int
    BY Places
  <2>3. ~ HoldsAt(procs[runner.held].what, Place)
    BY <2>2 DEF HoldsAt
  <2>4. Running => runner.held = 0
    BY <2>3 DEF ProcsInv, HeldInv
  <2> QED BY <2>4 DEF HeldInv, Running
<1>4. Alone(procs')
  <2>1. \A i \in 1 .. Len(procs) : procs[i].what # p.what
    BY Places, TypesParts DEF ProcsInv, KindsInv, Kind
  <2> QED BY <2>1, JoinsAlone, TypesParts DEF ProcsInv
<1>5. Running' => OnlyHeld(procs', runner'.held)
  BY JoinsOnlyHeld, TypesParts DEF ProcsInv, Running
<1>6. ReadsInv'
  BY DEF ProcsInv, ReadsInv
<1> QED BY <1>1, <1>2, <1>3, <1>4, <1>5, <1>6 DEF ProcsInv, Alone, Alive, OnlyHeld

\* Starting the dashboard or the traffic keeps the invariant.
LEMMA StartAsideProcs ==
  ASSUME DemoTypes, ProcsInv, StartDashboard \/ StartTraffic
  PROVE  ProcsInv'
<1>1. mode.scripted /\ mode \in ModeType
  BY ByHandOps, TypesParts DEF StartDashboard, StartTraffic, At
<1>2. OpAt(Instruction.op, Place)
  BY <1>1, Where DEF DemoTypes
<1>3. CASE StartDashboard
  <2>1. Instruction.op = "dashboard" /\ procs' = Append(procs, Process("dashboard"))
    BY <1>3 DEF StartDashboard, At
  <2>2. Place = 1 - Lead
    BY <1>2, <2>1 DEF OpAt
  <2>3. Place <= 0 /\ runner.pc = 1
    BY <2>2, Places
  <2>4. /\ Process("dashboard") \in ProcessType /\ Process("dashboard").what = "dashboard"
        /\ ~Process("dashboard").child /\ ~Process("dashboard").sudo
    BY <1>1, ProcessTypes DEF Process
  <2>5. /\ runner'.pc = runner.pc + 1 /\ runner'.held = runner.held
        /\ runner'.outcome = runner.outcome /\ mode' = mode /\ rf' = rf /\ tls' = tls
    BY <1>3, <2>1, Advance DEF StartDashboard
  <2> QED BY <1>1, <2>1, <2>3, <2>4, <2>5, AppendJoins, AsideProcs, TypesParts
<1>4. CASE StartTraffic
  <2>1. Instruction.op = "traffic" /\ procs' = Append(procs, Process("traffic"))
    BY <1>4 DEF StartTraffic, At
  <2>2. Place = 19
    BY <1>2, <2>1 DEF OpAt
  <2>3. /\ Process("traffic") \in ProcessType /\ Process("traffic").what = "traffic"
        /\ ~Process("traffic").child /\ ~Process("traffic").sudo
    BY <1>1, ProcessTypes DEF Process
  <2>4. /\ runner'.pc = runner.pc + 1 /\ runner'.held = runner.held
        /\ runner'.outcome = runner.outcome /\ mode' = mode /\ rf' = rf /\ tls' = tls
    BY <1>4, <2>1, Advance DEF StartTraffic, aside
  <2> QED BY <1>1, <2>1, <2>2, <2>3, <2>4, AppendJoins, AsideProcs, TypesParts
<1> QED BY <1>3, <1>4

\* A monitor is started, where none of its layer is alive and none is led.
LEMMA MonitorProcs ==
  ASSUME DemoTypes, ProcsInv, NEW ps \in Seq(ProcessType), Ends(procs, ps),
         NEW p \in ProcessType, p.what \in {"rf", "tls"},
         Joins(ps, procs', p), mode' = mode,
         runner'.pc = runner.pc + 1, runner'.held = Len(ps) + 1,
         runner'.outcome = runner.outcome,
         Kind(p, runner.pc + 1, Place + 1),
         mode.scripted => HoldsAt(p.what, Place + 1),
         \A i \in 1 .. Len(ps) : ps[i].what = p.what => ~Alive(ps[i]),
         OnlyHeld(ps, 0)
  PROVE  /\ KindsInv' /\ HeldInv' /\ Alone(procs') /\ OnlyHeld(procs', runner'.held)
         /\ \A what : Works(what, procs') <=> Works(what, ps) \/ (what = p.what /\ Working(p))
         /\ ~Works(p.what, ps)
<1>1. KindsInv'
  BY KindsJoin DEF ProcsInv
<1>2. HeldInv'
  <2>1. Place' = Place + 1
    BY PlaceNext
  <2>2. procs'[runner'.held] = p
    BY DEF Joins
  <2>3. HoldsAt(p.what, Place + 1) => HoldsAt(procs[runner.held].what, Place)'
    BY <2>1, <2>2 DEF HoldsAt
  <2> QED BY <2>3 DEF HeldInv
<1>3. Alone(procs') /\ OnlyHeld(procs', runner'.held)
  BY EndsAlone, JoinsAlone, JoinsOnlyHeld, TypesParts DEF ProcsInv
<1>4. ~Works(p.what, ps)
  BY DEF Works, Working, Alive
<1> QED BY <1>1, <1>2, <1>3, <1>4, JoinsWork

\* A fresh RF monitor has a state exactly when there is a baseline.
LEMMA FreshStates ==
  ASSUME mode \in ModeType, file \in {None} \cup SUBSET Radios, NEW reads \in SUBSET {"A", "B"}
  PROVE  /\ FreshRf(reads) # None <=> file # None
         /\ FreshRf(reads) # None => (FreshRf(reads).reads # None) = mode.replay
<1>1. CASE file # None
  <2>1. FreshRf(reads) = [reads |-> IF mode.replay THEN reads ELSE None, due |-> TRUE,
                          sentAge |-> [radio \in Radios |-> RfSuppress]]
    BY <1>1 DEF FreshRf
  <2>2. FreshRf(reads) \in RfState
    <3>1. [radio \in Radios |-> RfSuppress] \in [Radios -> 0 .. RfSuppress]
      BY TypesOfConstants
    <3>2. reads \in SUBSET Radios
      BY DEF Radios
    <3> QED BY <2>1, <3>1, <3>2 DEF RfState
  <2>3. FreshRf(reads) # None
    BY <2>2, RfNoneAssumption
  <2>4. FreshRf(reads).reads = IF mode.replay THEN reads ELSE None
    BY <2>1
  <2> QED BY <1>1, <2>3, <2>4, RfNoneAssumption DEF ModeType, Radios
<1>2. CASE file = None
  BY <1>2 DEF FreshRf
<1> QED BY <1>1, <1>2

\* Starting the RF monitor keeps the invariant.
LEMMA StartRfProcs ==
  ASSUME DemoTypes, ProcsInv, StartRf
  PROVE  ProcsInv'
<1>1. mode.scripted /\ mode \in ModeType /\ procs \in Seq(ProcessType) /\ file \in {None} \cup SUBSET Radios
  BY ByHandOps, TypesParts DEF StartRf, At
<1>2. Instruction.op = "start_rf" /\ Running
  BY DEF StartRf, At
<1>3. Place = 3 /\ Instruction.arg \in SUBSET {"A", "B"}
  BY <1>1, <1>2, Where DEF DemoTypes, OpAt, ArgAt
<1>4. /\ Joins(procs, procs', NewRf) /\ mode' = mode /\ tls' = tls
      /\ rf' = FreshRf(Instruction.arg)
  BY <1>1, WithRfJoins DEF StartRf, aside
<1>5. runner'.pc = runner.pc + 1 /\ runner'.held = Len(procs) + 1
      /\ runner'.outcome = runner.outcome
  <2>1. runner' = [Onwards(0) EXCEPT !.held = Len(procs) + 1]
    BY Zenon DEF StartRf
  <2>2. 0 \in Nat /\ Instruction.op # "done" /\ Instruction.op # "ask"
    BY <1>2
  <2> QED BY <2>1, <2>2, AdvanceHolding, Zenon
<1>6. \A i \in 1 .. Len(procs) : procs[i].what \notin {"rf", "tls"}
  BY <1>1, <1>3 DEF ProcsInv, KindsInv, Kind
<1>7. Kind(NewRf, runner.pc + 1, Place + 1)
  BY <1>1, <1>3, NewRfKind
<1>8. HoldsAt("rf", Place + 1) /\ NewRf.what = "rf" /\ NewRf \in ProcessType
  <2>1. HoldsAt("rf", Place + 1)
    BY <1>3 DEF HoldsAt
  <2>2. NewRf.what = "rf" /\ NewRf \in ProcessType
    BY <1>1, NewProcesses
  <2> QED BY <2>1, <2>2
<1>9. OnlyHeld(procs, 0) /\ \A i \in 1 .. Len(procs) : procs[i].what = "rf" => ~Alive(procs[i])
  BY <1>6 DEF OnlyHeld
<1>10. /\ KindsInv' /\ HeldInv' /\ Alone(procs') /\ OnlyHeld(procs', runner'.held)
       /\ \A what : Works(what, procs') <=> Works(what, procs) \/ (what = "rf" /\ Working(NewRf))
       /\ ~Works("rf", procs)
  BY <1>1, <1>4, <1>5, <1>7, <1>8, <1>9, EndsSelf, MonitorProcs
<1>11. StatesOfProcesses' /\ ReadsInv'
  <2>1. Works("rf", procs') <=> file # None
    BY <1>1, <1>10, NewProcesses
  <2>2. Works("tls", procs') <=> Works("tls", procs)
    BY <1>10
  <2>3. /\ rf' # None <=> file # None
        /\ rf' # None => (rf'.reads # None) = mode.replay
    BY <1>1, <1>3, <1>4, FreshStates
  <2>4. \A what : Works(what, procs)' <=> Works(what, procs')
    BY DEF Works, Working
  <2> QED BY <1>4, <2>1, <2>2, <2>3, <2>4 DEF ProcsInv, StatesOfProcesses, ReadsInv
<1> QED BY <1>10, <1>11 DEF ProcsInv, Alone, Alive, OnlyHeld

\* In a recording no process has a child.
LEMMA ReplayAlive ==
  ASSUME DemoTypes, ProcsInv, mode.replay, NEW i \in 1 .. Len(procs)
  PROVE  /\ ~procs[i].child /\ ~procs[i].sudo
         /\ Alive(procs[i]) <=> procs[i].leader
         /\ Working(procs[i]) <=> procs[i].leader
<1>1. procs[i] \in ProcessType /\ Kind(procs[i], runner.pc, Place) /\ mode \in ModeType
  BY TypesParts DEF ProcsInv, KindsInv
<1>2. ~procs[i].child /\ ~procs[i].sudo
  BY <1>1 DEF Kind
<1> QED BY <1>1, <1>2 DEF Alive, Working

\* Replacing the RF monitor in a replay keeps it.
LEMMA SwitchProcs ==
  ASSUME DemoTypes, ProcsInv, SwitchTo, mode.replay
  PROVE  ProcsInv'
<1> DEFINE held == runner.held  ps == Stopped(held)
<1>1. mode.scripted /\ mode \in ModeType /\ procs \in Seq(ProcessType) /\ file \in {None} \cup SUBSET Radios
  BY ByHandOps, TypesParts DEF SwitchTo, At
<1>2. Instruction.op = "switch" /\ Running
  BY DEF SwitchTo, At
<1>3. Place \in {10, 15} /\ Instruction.arg \in SUBSET {"A", "B"}
  BY <1>1, <1>2, Where DEF DemoTypes, OpAt, ArgAt
<1>4. held \in 0 .. Len(procs) /\ (held # 0 => procs[held].what = "rf")
  BY <1>1, <1>2, <1>3, TypesParts DEF ProcsInv, HeldInv, HoldsAt, RunnerType
<1>5. /\ ps \in Seq(ProcessType) /\ Ends(procs, ps) /\ Len(ps) = Len(procs)
      /\ held # 0 => ~ps[held].leader
      /\ \A i \in 1 .. Len(procs) : i # held => ps[i] = procs[i]
  BY <1>1, <1>4, StoppedEnds DEF Ends
<1> HIDE DEF ps
<1>6. /\ Joins(ps, procs', NewRf) /\ mode' = mode /\ tls' = tls
      /\ rf' = FreshRf(Instruction.arg)
  BY <1>1, <1>5, WithRfJoins DEF SwitchTo, aside, ps
<1>7. runner'.pc = runner.pc + 1 /\ runner'.held = Len(ps) + 1
      /\ runner'.outcome = runner.outcome
  <2>1. /\ runner' = [Onwards(Settle) EXCEPT !.held = Len(procs) + 1] /\ Settle \in Nat
    BY TypesOfConstants DEF SwitchTo
  <2>2. Instruction.op # "done" /\ Instruction.op # "ask"
    BY <1>2
  <2> QED BY <1>5, <2>1, <2>2, AdvanceHolding, Zenon
<1>8. \A i \in 1 .. Len(ps) :
        /\ ps[i].what = procs[i].what
        /\ ps[i].what \in {"rf", "tls"} => ~ps[i].leader
        /\ ~ps[i].child
  <2>1. OnlyHeld(procs, held)
    BY <1>2 DEF ProcsInv
  <2>2. ASSUME NEW i \in 1 .. Len(ps)
        PROVE  /\ ps[i].what = procs[i].what
               /\ ps[i].what \in {"rf", "tls"} => ~ps[i].leader
               /\ ~ps[i].child
    <3>1. i \in 1 .. Len(procs) /\ ~procs[i].child
      BY <1>5, ReplayAlive
    <3>2. ps[i] = procs[i] \/ Fallen(procs[i], ps[i])
      BY <1>5, <3>1 DEF Ends
    <3> QED BY <1>5, <2>1, <3>1, <3>2 DEF OnlyHeld, Fallen
  <2> QED BY <2>2
<1>9. Kind(NewRf, runner.pc + 1, Place + 1)
  BY <1>1, <1>3, NewRfKind
<1>10. HoldsAt("rf", Place + 1) /\ NewRf.what = "rf" /\ NewRf \in ProcessType
  <2>1. HoldsAt("rf", Place + 1)
    BY <1>3 DEF HoldsAt
  <2>2. NewRf.what = "rf" /\ NewRf \in ProcessType
    BY <1>1, NewProcesses
  <2> QED BY <2>1, <2>2
<1>11. OnlyHeld(ps, 0) /\ \A i \in 1 .. Len(ps) : ps[i].what = "rf" => ~Alive(ps[i])
  BY <1>8 DEF OnlyHeld, Alive
<1>12. /\ KindsInv' /\ HeldInv' /\ Alone(procs') /\ OnlyHeld(procs', runner'.held)
       /\ \A what : Works(what, procs') <=> Works(what, ps) \/ (what = "rf" /\ Working(NewRf))
       /\ ~Works("rf", ps)
  BY <1>5, <1>6, <1>7, <1>9, <1>10, <1>11, MonitorProcs
<1>13. Works("tls", ps) <=> Works("tls", procs)
  <2>1. DOMAIN ps = 1 .. Len(procs) /\ DOMAIN procs = 1 .. Len(procs)
    BY <1>1, <1>5
  <2>2. ASSUME NEW i \in 1 .. Len(procs)
        PROVE  ps[i].what = "tls" /\ Working(ps[i]) <=> procs[i].what = "tls" /\ Working(procs[i])
    BY <1>4, <1>5, <1>8
  <2> QED BY <2>1, <2>2 DEF Works
<1>14. StatesOfProcesses' /\ ReadsInv'
  <2>1. Works("rf", procs') <=> file # None
    BY <1>1, <1>12, NewProcesses
  <2>2. Works("tls", procs') <=> Works("tls", procs)
    BY <1>12, <1>13
  <2>3. /\ rf' # None <=> file # None
        /\ rf' # None => (rf'.reads # None) = mode.replay
    BY <1>1, <1>3, <1>6, FreshStates
  <2>4. \A what : Works(what, procs)' <=> Works(what, procs')
    BY DEF Works, Working
  <2> QED BY <1>6, <2>1, <2>2, <2>3, <2>4 DEF ProcsInv, StatesOfProcesses, ReadsInv
<1> QED BY <1>12, <1>14 DEF ProcsInv, Alone, Alive, OnlyHeld

\* Starting the network monitor keeps it.
LEMMA StartTlsProcs ==
  ASSUME DemoTypes, ProcsInv, StartTls
  PROVE  ProcsInv'
<1> DEFINE p == Process("tls")
<1>1. mode \in ModeType /\ procs \in Seq(ProcessType)
  BY TypesParts
<1>2. Instruction.op = "start_tls" /\ Running
  BY DEF StartTls, At
<1>3. /\ mode.scripted => IF mode.replay THEN Place \in {19, 27} ELSE Place = 21
      /\ Instruction.arg \in SUBSET Traffic
      /\ ~mode.scripted => runner.pc = 1
  <2>1. CASE mode.scripted
    BY <1>1, <1>2, <2>1, Where DEF DemoTypes, OpAt, ArgAt
  <2>2. CASE ~mode.scripted
    BY <1>2, <2>2, ByHandOps
  <2> QED BY <2>1, <2>2
<1>4. /\ Joins(procs, procs', p) /\ mode' = mode /\ rf' = rf
      /\ tls' \in TlsState /\ tls'.reads = IF mode.replay THEN Instruction.arg ELSE None
  <2>1. p \in ProcessType
    BY <1>1, ProcessTypes
  <2>2. procs' = Append(procs, p)
    BY Zenon DEF StartTls
  <2>3. mode' = mode /\ rf' = rf
    BY Zenon DEF StartTls, aside
  <2>4. tls' \in TlsState /\ tls'.reads = IF mode.replay THEN Instruction.arg ELSE None
    BY <1>3, StartedTls
  <2> QED BY <1>1, <2>1, <2>2, <2>3, <2>4, AppendJoins
<1>5. runner'.pc = runner.pc + 1 /\ runner'.held = Len(procs) + 1
      /\ runner'.outcome = runner.outcome
  <2>1. runner' = [Onwards(0) EXCEPT !.held = Len(procs) + 1]
    BY Zenon DEF StartTls
  <2>2. 0 \in Nat /\ Instruction.op # "done" /\ Instruction.op # "ask"
    BY <1>2
  <2> QED BY <2>1, <2>2, AdvanceHolding, Zenon
<1>6. /\ p \in ProcessType /\ p.what = "tls" /\ p.leader /\ Working(p)
      /\ p.child => ~mode.replay
      /\ p.sudo => ~mode.replay /\ p.child
  <2>1. file \in {None} \cup SUBSET Radios /\ "tls" \in {"dashboard", "traffic", "tls"}
    BY TypesParts
  <2> QED BY <1>1, <2>1, NewProcesses, Zenon DEF p
<1> HIDE DEF p
<1>7. /\ OnlyHeld(procs, 0)
      /\ \A i \in 1 .. Len(procs) : procs[i].what = "tls" => ~Alive(procs[i])
  <2>1. \A i \in 1 .. Len(procs) : Kind(procs[i], runner.pc, Place)
    BY DEF ProcsInv, KindsInv
  <2>2. CASE ~mode.scripted
    <3>1. \A i \in 1 .. Len(procs) : procs[i].what \notin {"rf", "tls"}
      BY <1>3, <2>1, <2>2 DEF Kind
    <3> QED BY <3>1 DEF OnlyHeld
  <2>3. CASE mode.scripted
    <3>1. runner.held = 0
      <4>1. ~ HoldsAt(procs[runner.held].what, Place)
        BY <1>3, <2>3 DEF HoldsAt
      <4> QED BY <1>2, <2>3, <4>1 DEF ProcsInv, HeldInv
    <3>2. OnlyHeld(procs, 0)
      BY <1>2, <3>1 DEF ProcsInv
    <3>3. CASE mode.replay
      BY <3>2, <3>3, ReplayAlive DEF OnlyHeld
    <3>4. CASE ~mode.replay
      <4>1. \A i \in 1 .. Len(procs) : procs[i].what # "tls"
        BY <1>3, <2>1, <2>3, <3>4 DEF Kind
      <4> QED BY <3>2, <4>1
    <3> QED BY <3>2, <3>3, <3>4
  <2> QED BY <2>2, <2>3
<1>8. Kind(p, runner.pc + 1, Place + 1)
  BY <1>1, <1>3, <1>6, Places DEF Kind
<1>9. mode.scripted => HoldsAt("tls", Place + 1)
  BY <1>1, <1>3 DEF HoldsAt, ModeType
<1>10. /\ KindsInv' /\ HeldInv' /\ Alone(procs') /\ OnlyHeld(procs', runner'.held)
       /\ \A what : Works(what, procs') <=> Works(what, procs) \/ (what = "tls" /\ Working(p))
  BY <1>1, <1>4, <1>5, <1>6, <1>7, <1>8, <1>9, EndsSelf, MonitorProcs
<1>11. StatesOfProcesses' /\ ReadsInv'
  <2>1. Works("tls", procs')
    BY <1>6, <1>10
  <2>2. Works("rf", procs') <=> Works("rf", procs)
    BY <1>10
  <2>3. tls' # None /\ tls'.reads = IF mode.replay THEN Instruction.arg ELSE None
    BY <1>4, TlsStateMade
  <2>4. (tls'.reads # None) = mode.replay
    BY <1>1, <1>3, <2>3, TlsNoneAssumption DEF ModeType
  <2>5. \A what : Works(what, procs)' <=> Works(what, procs')
    BY DEF Works, Working
  <2> QED BY <1>4, <2>1, <2>2, <2>3, <2>4, <2>5 DEF ProcsInv, StatesOfProcesses, ReadsInv
<1> QED BY <1>10, <1>11 DEF ProcsInv, Alone, Alive, OnlyHeld

\* Every step keeps the invariant of the processes.
LEMMA StepProcs ==
  ASSUME DemoTypes, ProcsInv, [Next]_vars
  PROVE  ProcsInv'
  BY StepKinds, CalmProcs, EndedProcs, StartAsideProcs, StartRfProcs, SwitchProcs,
     StartTlsProcs, StopProcs

\* It holds at the start.
LEMMA InitProcs ==
  ASSUME Init
  PROVE  ProcsInv
<1>1. procs = <<>> /\ rf = None /\ tls = None /\ runner.held = 0
  BY DEF Init, TlsInit
<1>2. ~Works("rf", procs) /\ ~Works("tls", procs)
  BY <1>1 DEF Works
<1> QED BY <1>1, <1>2 DEF ProcsInv, StatesOfProcesses, KindsInv, HeldInv, ReadsInv, Alone, OnlyHeld

----------------------------------------------------------------------------
(* What survives the program, and what the screen remembers *)

\* Once the program is over, it and its processes stay as they are.
LEMMA OverStep ==
  ASSUME ~Running, [Next]_vars
  PROVE  procs' = procs /\ runner' = runner /\ mode' = mode /\ verdict' = verdict
<1>1. CASE Execute
  BY <1>1 DEF Execute, StartDashboard, EnterTry, Preflight, Return, Baseline, StartRf, SwitchTo,
     Sleep, Count, Judge, StartTraffic, StartTls, Call, StopMonitor, Done, At
<1>2. CASE Operate \/ Interrupt \/ Tick \/ Crash \/ Faulty
  BY <1>2 DEF Operate, Interrupt, Tick, Crash, Faulty, Fault, At
<1>3. CASE RfSweep(FALSE) \/ TlsWindow(TRUE, FALSE) \/ Dashboard \/ Unscripted
  BY <1>3 DEF RfSweep, TlsWindow, Dashboard, Unscripted
<1>4. CASE UNCHANGED vars
  BY <1>4 DEF vars
<1> QED BY <1>1, <1>2, <1>3, <1>4 DEF Next

\* The program ends in no other way than by an exit.
LEMMA EndingStep ==
  ASSUME DemoTypes, Running, ~Running', [Next]_vars
  PROVE  Ended /\ \E outcome \in {"done", "failed", "interrupted", "crashed"} : Exit(outcome)
<1>1. Calm => Running'
  BY DEF Calm, Running
<1>2. StartDashboard \/ StartTraffic => Running'
  <2>1. StartDashboard \/ StartTraffic => runner' = Onwards(0) /\ Instruction.op \notin {"ask", "done"}
    BY DEF StartDashboard, StartTraffic, At
  <2> QED BY <2>1, Advance DEF Running
<1>3. ASSUME StartRf \/ (SwitchTo /\ mode.replay) \/ StartTls \/ (StopMonitor /\ MayStop)
      PROVE  Running'
  <2>1. /\ Instruction.op \notin {"ask", "done"}
        /\ \E wait \in {0, Settle} :
             \/ runner' = [Onwards(wait) EXCEPT !.held = Len(procs) + 1]
             \/ runner' = [Onwards(wait) EXCEPT !.held = 0]
    BY <1>3 DEF StartRf, SwitchTo, StartTls, StopMonitor, At
  <2>2. PICK wait \in Nat, held \in {Len(procs) + 1, 0} : runner' = [Onwards(wait) EXCEPT !.held = held]
    BY <2>1, TypesOfConstants
  <2>3. runner'.outcome = runner.outcome
    BY <2>1, <2>2, AdvanceHolding, Zenon
  <2> QED BY <2>3 DEF Running
<1>4. Ended
  BY <1>1, <1>2, <1>3, StepKinds
<1> QED BY <1>4 DEF Ended, Running

\* The try is entered or not, as long as the program is on one line.
LEMMA GuardedKept ==
  ASSUME mode' = mode, runner'.pc = runner.pc
  PROVE  Guarded' <=> Guarded
  BY SameScript DEF Guarded

\* Every step keeps the promise about what survives.
LEMMA StepSurvive ==
  ASSUME DemoTypes, ProcsInv, OnlyTheseSurvive, [Next]_vars
  PROVE  OnlyTheseSurvive'
<1>1. CASE ~Running
  <2>1. procs' = procs /\ runner' = runner /\ mode' = mode
    BY <1>1, OverStep
  <2>2. Guarded' <=> Guarded
    BY <2>1, GuardedKept
  <2> QED BY <1>1, <2>1, <2>2 DEF OnlyTheseSurvive, Running, Alive
<1>2. CASE Running /\ ~Running'
  <2>1. Ended /\ \E outcome \in {"done", "failed", "interrupted", "crashed"} : Exit(outcome)
    BY <1>2, EndingStep
  <2>2. Guarded' <=> Guarded
    BY <2>1, GuardedKept DEF Ended
  <2>3. CASE ~Guarded
    BY <2>2, <2>3 DEF OnlyTheseSurvive
  <2>4. CASE Guarded
    <3>1. procs' = Cleanup(procs) /\ procs \in Seq(ProcessType)
      BY <2>1, <2>4, TypesParts DEF Exit, Reap
    <3>2. ASSUME NEW i \in DOMAIN procs', Alive(procs'[i])
          PROVE  \/ procs'[i].fell
                 \/ \E j \in 1 .. i : procs'[j].leader /\ procs'[j].sudo
      <4>1. i \in 1 .. Len(procs) /\ DOMAIN procs = 1 .. Len(procs)
        BY <3>1, CleanupEnds DEF Ends
      <4>2. CASE \E j \in 1 .. i : ~MaySignal(procs[j])
        <5>1. PICK j \in 1 .. i : ~MaySignal(procs[j])
          BY <4>2
        <5>2. j \in 1 .. Len(procs) /\ j \in 1 .. j
          BY <4>1
        <5>3. procs'[j] = procs[j]
          BY <3>1, <4>1, <5>1, <5>2 DEF Cleanup
        <5> QED BY <5>1, <5>3 DEF MaySignal
      <4>3. CASE ~ \E j \in 1 .. i : ~MaySignal(procs[j])
        <5>1. procs'[i] = KillGroup(procs[i])
          BY <3>1, <4>1, <4>3 DEF Cleanup
        <5>2. procs[i] \in ProcessType /\ Kind(procs[i], runner.pc, Place)
          BY <3>1, <4>1 DEF ProcsInv, KindsInv
        <5> QED BY <3>2, <5>1, <5>2 DEF KillGroup, Alive, Kind, ProcessType
      <4> QED BY <4>2, <4>3
    <3> QED BY <3>2 DEF OnlyTheseSurvive, Alive
  <2> QED BY <2>3, <2>4
<1>3. CASE Running'
  BY <1>3 DEF OnlyTheseSurvive
<1> QED BY <1>1, <1>2, <1>3

----------------------------------------------------------------------------
(* What the screen remembers *)

\* The flagged sessions of the history and the time since the last call to a
\* rogue tell the same.
Memory(history, call) ==
  /\ \A age \in history.flagged : age >= call
  /\ call <= Kept => call \in history.flagged

\* They do while the monitor runs.
MemoryInv == tls # None => Memory(tls.history, called)

\* A window keeps the memory and shows it.
LEMMA WindowMemory ==
  ASSUME TlsTypeOK, MemoryInv, ScreenRemembers, NEW captured \in BOOLEAN, NEW lost \in BOOLEAN, NEW late,
         WindowDone(captured, lost, late)
  PROVE  MemoryInv' /\ ScreenRemembers'
<1> DEFINE seen     == NextWindow(captured)
           again    == [tls EXCEPT !.left = Window + late, !.seen = {}]
           findings == Findings(seen)
           sessions == RecentSessions(tls.history, Sessions(seen), Flagged(findings))
           sending  == {i \in findings : Sent[i]}
           heard    == dash.up /\ ~lost
<1>1. tls # None /\ tls \in TlsState /\ Memory(tls.history, called) /\ called \in 0 .. Kept + 1
  BY DEF WindowDone, TlsTypeOK, MemoryInv
<1>2. Kept \in Nat
  BY TlsAssumption
<1>3. CASE /\ seen = None
           /\ tls' = again
           /\ UNCHANGED <<dash, screen, called>>
  <2>1. tls'.history = tls.history
    BY <1>1, <1>3 DEF TlsState
  <2> QED BY <1>1, <1>3, <2>1 DEF MemoryInv, Memory, ScreenRemembers
<1>4. CASE /\ seen # None
           /\ called' = IF "rogue" \in seen THEN 0 ELSE called
           /\ screen' = IF heard THEN [state |-> State(sessions), called |-> called']
                                  ELSE screen
           /\ dash' = IF heard THEN Stored(Cardinality(sending)) ELSE dash
           /\ tls' = [again EXCEPT !.history = sessions,
                         !.sentAge = [i \in Identity |-> IF i \in sending THEN 0 ELSE @[i]]]
  <2>1. NewlyFlagged(Sessions(seen), Flagged(findings)) = IF "rogue" \in seen THEN {0} ELSE {}
    <3>1. Sessions(seen) \cap Flagged(findings) = IF "rogue" \in seen THEN {"rogue"} ELSE {}
      BY DEF Sessions, Flagged, Findings, Identity
    <3> QED BY <3>1 DEF NewlyFlagged
  <2>2. sessions.flagged = {age \in tls.history.flagged : age <= Kept}
                              \cup (IF "rogue" \in seen THEN {0} ELSE {})
    BY <2>1 DEF RecentSessions
  <2>3. tls.history.flagged \subseteq 0 .. Kept + 1
    BY <1>1 DEF TlsState, History
  <2>4. tls'.history = sessions
    BY <1>1, <1>4 DEF TlsState
  <2> HIDE DEF sessions, seen, sending
  <2>5. Memory(sessions, called') /\ \A age \in sessions.flagged : age \in Nat /\ age <= Kept
    BY <1>1, <1>2, <1>4, <2>2, <2>3 DEF Memory
  <2>6. State(sessions) = "alert" <=> called' <= Kept
    <3>1. called' \in Nat
      BY <1>1, <1>2, <1>4
    <3>2. sessions.flagged # {} <=> called' <= Kept
      BY <1>2, <2>5, <3>1 DEF Memory
    <3> QED BY <3>2 DEF State
  <2>7. ScreenRemembers'
    BY <1>4, <2>6 DEF ScreenRemembers
  <2> QED BY <2>4, <2>5, <2>7 DEF MemoryInv, Memory
<1> QED BY <1>3, <1>4 DEF WindowDone

\* The passing of time keeps the memory.
LEMMA TickMemory ==
  ASSUME TlsTypeOK, MemoryInv, NEW inverter \in BOOLEAN, TlsTick(inverter)
  PROVE  MemoryInv'
<1>1. CASE tls = None
  BY <1>1 DEF TlsTick, MemoryInv
<1>2. CASE tls # None
  <2>1. /\ tls \in TlsState /\ Memory(tls.history, called) /\ called \in 0 .. Kept + 1
        /\ Kept \in Nat
    BY <1>2, TlsAssumption DEF TlsTypeOK, MemoryInv
  <2>2. tls.history \in History /\ tls.history.flagged \subseteq 0 .. Kept + 1
    BY <2>1 DEF TlsState, History
  <2>3. tls'.history = Older(tls.history) /\ called' = Least(called + 1, Kept + 1)
    BY <1>2, <2>1 DEF TlsTick, TlsState
  <2>4. Older(tls.history).flagged = {Least(age + 1, Kept + 1) : age \in tls.history.flagged}
    BY <2>2 DEF Older, History
  <2>5. Memory(tls'.history, called')
    BY <2>1, <2>2, <2>3, <2>4 DEF Memory, Least
  <2> QED BY <2>5 DEF MemoryInv, Memory
<1> QED BY <1>1, <1>2

\* Every step keeps the memory and the screen.
LEMMA StepMemory ==
  ASSUME DemoTypes, MemoryInv, ScreenRemembers, [Next]_vars
  PROVE  MemoryInv' /\ ScreenRemembers'
<1> USE TypesParts
<1>1. ASSUME NEW captured \in BOOLEAN, NEW lost \in BOOLEAN, TlsWindow(captured, lost)
      PROVE  MemoryInv' /\ ScreenRemembers'
  <2>1. PICK late \in 0 .. Gap : WindowDone(captured, lost, late)
    BY <1>1 DEF TlsWindow
  <2> QED BY <2>1, WindowMemory
<1>2. CASE Tick
  <2>1. (~mode.scripted \/ Works("traffic", procs)) \in BOOLEAN
    BY DEF ModeType, Works
  <2>2. screen' = screen
    BY <1>2 DEF Tick, TlsTick
  <2> QED BY <1>2, <2>1, <2>2, TickMemory DEF Tick, ScreenRemembers
<1>3. CASE StartTls
  <2>1. PICK late : tls' = Started(IF mode.replay THEN Instruction.arg ELSE None, late)
    BY <1>3, Zenon DEF StartTls
  <2>4. called' = Kept + 1
    BY <1>3, Zenon DEF StartTls
  <2>2. tls'.history.flagged = {}
    BY <2>1 DEF Started
  <2>3. screen' = screen /\ ~(Kept + 1 <= Kept)
    <3>1. screen' = screen
      BY <1>3, Zenon DEF StartTls, aside
    <3>2. Kept \in Nat
      BY TypesOfConstants
    <3>3. ~(Kept + 1 <= Kept)
      BY <3>2
    <3> QED BY <3>1, <3>3
  <2> QED BY <2>2, <2>3, <2>4 DEF MemoryInv, Memory, ScreenRemembers
<1> DEFINE Keeps == tls' = None \/ (tls # None /\ tls'.history = tls.history)
<1>10. tls' \in {tls, None} => Keeps
  OBVIOUS
<1>4. CASE Keeps /\ called' = called /\ screen' = screen
  BY <1>4 DEF MemoryInv, Memory, ScreenRemembers
<1>11. \A k \in Unusual, n \in 0 .. 2 : Calling(k, n) => Keeps
  BY TypesParts DEF Calling, Capturing, TlsTypeOK, TlsState
<1> HIDE DEF Keeps
<1>5. ASSUME NEW outcome, Exit(outcome)
      PROVE  tls' \in {tls, None}
  BY <1>5 DEF Exit, Reap
<1>6. CASE Execute /\ ~StartTls
  <2>1. StopMonitor => Keeps /\ called' = called /\ screen' = screen
    BY <1>5, <1>10 DEF StopMonitor, Reap, aside
  <2>2. Preflight \/ Done => Keeps /\ called' = called /\ screen' = screen
    BY <1>5, <1>10 DEF Preflight, Done, aside
  <2>4. Call => Keeps /\ called' = called /\ screen' = screen
    <3>1. "rogue" \in Unusual
      BY DEF Unusual
    <3> QED BY <1>5, <1>10, <1>11, <3>1 DEF Call
  <2>3. StartDashboard \/ EnterTry \/ Return \/ Baseline \/ StartRf \/ SwitchTo \/ Sleep \/ Count
          \/ Judge \/ StartTraffic => Keeps /\ called' = called /\ screen' = screen
    BY <1>10 DEF StartDashboard, EnterTry, Return, Baseline, StartRf, SwitchTo, Sleep, Count, Judge,
       StartTraffic, aside, monitorVars
  <2> QED BY <1>4, <1>6, <2>1, <2>2, <2>3, <2>4 DEF Execute
<1>7. CASE Operate \/ Interrupt \/ Crash \/ Dashboard \/ Unscripted
  <2>1. Interrupt \/ Crash => Keeps /\ called' = called /\ screen' = screen
    BY <1>5, <1>10 DEF Interrupt, Crash, Reap, aside
  <2>2. Operate \/ Dashboard => Keeps /\ called' = called /\ screen' = screen
    BY <1>10 DEF Operate, Dashboard, monitorVars
  <2>3. Unscripted => Keeps /\ called' = called /\ screen' = screen
    <3>1. Unscripted => called' = called /\ screen' = screen
      BY DEF Unscripted
    <3> QED BY <1>10, <1>11, <3>1, UnscriptedCalls
  <2> QED BY <1>4, <1>7, <2>1, <2>2, <2>3
<1>8. ASSUME NEW lost \in BOOLEAN, RfSweep(lost)
      PROVE  MemoryInv' /\ ScreenRemembers'
  BY <1>4, <1>8, <1>10 DEF RfSweep
<1>9. CASE UNCHANGED vars
  BY <1>4, <1>9, <1>10 DEF vars, monitorVars
<1> QED BY <1>1, <1>2, <1>3, <1>6, <1>7, <1>8, <1>9 DEF Next, Faulty

----------------------------------------------------------------------------
(* The theorems *)

\* The inductive invariant: the types, what is known of the processes, and the
\* network monitor's memory of calls to a rogue.
DemoInv ==
  /\ DemoTypes /\ ProcsInv
  /\ OnlyTheseSurvive
  /\ MemoryInv /\ ScreenRemembers

\* It holds at the start.
LEMMA InitInv == Init => DemoInv
<1> SUFFICES ASSUME Init PROVE DemoInv
  OBVIOUS
<1>1. DemoTypes /\ ProcsInv
  BY InitTypes, InitProcs
<1>2. Running /\ tls = None /\ screen = None
  BY DEF Init, TlsInit, Running
<1>3. OnlyTheseSurvive /\ MemoryInv /\ ScreenRemembers
  BY <1>2 DEF OnlyTheseSurvive, MemoryInv, ScreenRemembers
<1> QED BY <1>1, <1>3 DEF DemoInv

\* Every step keeps it.
LEMMA NextInv == DemoInv /\ [Next]_vars => DemoInv'
<1> SUFFICES ASSUME DemoInv, [Next]_vars PROVE DemoInv'
  OBVIOUS
<1>1. /\ DemoTypes /\ ProcsInv /\ OnlyTheseSurvive /\ MemoryInv /\ ScreenRemembers
  BY DEF DemoInv
<1>2. DemoTypes' /\ ProcsInv'
  BY <1>1, StepTypes, StepProcs
<1>3. OnlyTheseSurvive'
  BY <1>1, StepSurvive
<1>4. MemoryInv' /\ ScreenRemembers'
  BY <1>1, StepMemory
<1> QED BY <1>2, <1>3, <1>4 DEF DemoInv

\* So it always holds.
LEMMA Invariance == Spec => []DemoInv
  BY InitInv, NextInv, PTL DEF Spec

\* The types, and that a monitor has a state exactly as long as its process
\* works, however it ends (MonitorHandle and cleanup, demo/run_demo.py:215-330).
THEOREM TypesCorrect == Spec => []DemoTypeOK
<1>1. DemoInv => DemoTypeOK
  BY DEF DemoInv, DemoTypeOK, ProcsInv
<1> QED BY <1>1, Invariance, PTL

\* Two monitors of one layer never run at once, and none that runs is let go of
\* (switch_to and stop, demo/run_demo.py:514-515).
THEOREM OneMonitorAtATime == Spec => []OneMonitor
<1>1. ASSUME DemoInv
      PROVE  OneMonitor
  <2>1. DOMAIN procs = 1 .. Len(procs)
    BY <1>1, TypesParts DEF DemoInv
  <2>2. Alone(procs) /\ (Running => OnlyHeld(procs, runner.held))
    BY <1>1 DEF DemoInv, ProcsInv
  <2> QED BY <2>1, <2>2 DEF OneMonitor, Alone, OnlyHeld
<1>2. DemoInv => OneMonitor
  BY <1>1
<1> QED BY <1>2, Invariance, PTL

\* What outlives the program, for any faults and at whatever line it ends
\* (_kill_group, cleanup, main: demo/run_demo.py:215-240, 649-680).
THEOREM NothingElseSurvives == Spec => []OnlyTheseSurvive
<1>1. DemoInv => OnlyTheseSurvive
  BY DEF DemoInv
<1> QED BY <1>1, Invariance, PTL

\* A flagged session is on the screen as long as it should be, for any lengths of
\* the window and of the two memories (demo/tls_monitor.py:230-261, 287-299).
THEOREM TheScreenRemembers == Spec => []ScreenRemembers
<1>1. DemoInv => ScreenRemembers
  BY DEF DemoInv
<1> QED BY <1>1, Invariance, PTL

=============================================================================
