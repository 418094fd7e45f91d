---------------------------- MODULE SyncerProofs ----------------------------
(***************************************************************************)
(* What Syncer promises of a pass, for any number of connections, messages *)
(* and keys.  TypeOK is inductive.  FramedPass and ExactPass are not: the  *)
(* first needs to know which write is under way (Paired), the second where *)
(* the loop stands (Located).                                              *)
(***************************************************************************)
EXTENDS Syncer, TLAPS

-----------------------------------------------------------------------------
(***************************************************************************)
(* Type correctness                                                        *)
(***************************************************************************)

\* Entering sync_one keeps the types of the variables it sets.
LEMMA EnterTyped ==
    ASSUME TypeOK, NEW c \in Connections, NEW i \in Nat, NEW of \in Nat,
           EnterSyncOne(c, i, of)
    PROVE  /\ stage' \in [Connections -> Stage]
           /\ at' \in [Connections -> Nat]
           /\ copy' \in [Connections -> Nat]
  BY DEF TypeOK, EnterSyncOne, Stage

\* So does the end of the loop.
LEMMA StopTyped ==
    ASSUME TypeOK, NEW c \in Connections, Stop(c)
    PROVE  /\ stage' \in [Connections -> Stage]
           /\ at' \in [Connections -> Nat]
           /\ copy' \in [Connections -> Nat]
  BY DEF TypeOK, Stop, Stage

\* So does a run of the loop, whatever its iterators are worth.
LEMMA ScanTyped ==
    ASSUME TypeOK, NEW c \in Connections, NEW md, NEW from \in Nat,
           NEW to \in Nat, Scan(c, md, from, to) \/ ScanStale(c)
    PROVE  /\ stage' \in [Connections -> Stage]
           /\ at' \in [Connections -> Nat]
           /\ copy' \in [Connections -> Nat]
<1>1. CASE Stop(c)
  BY <1>1, StopTyped
<1>2. CASE \E i \in from..to : EnterSyncOne(c, i, i)
  <2>1. PICK i \in from..to : EnterSyncOne(c, i, i)
    BY <1>2
  <2>2. i \in Nat
    OBVIOUS
  <2> QED
    BY <2>1, <2>2, EnterTyped
<1>3. CASE \E i \in at[c] + 1..end[c], garbage \in BOOLEAN :
              EnterSyncOne(c, i, IF garbage THEN 0 ELSE i)
  <2>1. PICK i \in at[c] + 1..end[c], garbage \in BOOLEAN :
                EnterSyncOne(c, i, IF garbage THEN 0 ELSE i)
    BY <1>3
  <2>2. at[c] \in Nat /\ end[c] \in Nat
    BY DEF TypeOK
  <2>3. i \in Nat /\ (IF garbage THEN 0 ELSE i) \in Nat
    BY <2>2
  <2> QED
    BY <2>1, <2>3, EnterTyped
<1> QED
  BY <1>1, <1>2, <1>3 DEF Scan, ScanStale

LEMMA InitTyped == Init => TypeOK
<1> SUFFICES ASSUME Init
             PROVE  TypeOK
  OBVIOUS
<1>1. <<>> \in Seq(Message) /\ <<>> \in Seq(Write)
  OBVIOUS
<1>2. messages \in Seq(Message)
  BY <1>1 DEF Init
<1>3. pass \in [Connections -> Seq(Write)]
  BY <1>1 DEF Init
<1> QED
  BY <1>2, <1>3 DEF Init, TypeOK, Stage, SyncMode

LEMMA TypeStep == TypeOK /\ [Next]_syncerVars => TypeOK'
<1> SUFFICES ASSUME TypeOK, [Next]_syncerVars
             PROVE  TypeOK'
  OBVIOUS
<1>1. ASSUME NEW m \in Message, AddMessage(m)
      PROVE  TypeOK'
  BY <1>1 DEF TypeOK, AddMessage
<1>2. ASSUME NEW c \in Connections, NEW md \in SyncMode, Begin(c, md)
      PROVE  TypeOK'
  <2>1. Len(messages) \in Nat
    BY DEF TypeOK
  <2>2. /\ stage' \in [Connections -> Stage]
        /\ at' \in [Connections -> Nat]
        /\ copy' \in [Connections -> Nat]
    BY <1>2, <2>1, ScanTyped DEF Begin, EndIterator
  <2>3. <<>> \in Seq(Write)
    OBVIOUS
  <2>4. pass' \in [Connections -> Seq(Write)]
    BY <1>2, <2>3 DEF TypeOK, Begin
  <2>5. /\ mode' \in [Connections -> SyncMode]
        /\ end' \in [Connections -> Nat]
        /\ stale' \in [Connections -> BOOLEAN]
    BY <1>2, <2>1 DEF TypeOK, Begin, EndIterator
  <2> QED
    BY <1>2, <2>2, <2>4, <2>5 DEF TypeOK, Begin
<1>3. ASSUME NEW c \in Connections, NEW ok \in BOOLEAN, HeaderWritten(c, ok)
      PROVE  TypeOK'
  <2>1. [kind |-> "header", of |-> copy[c], ok |-> ok] \in Write
    BY DEF TypeOK, Write
  <2>2. pass' \in [Connections -> Seq(Write)]
    BY <1>3, <2>1 DEF TypeOK, HeaderWritten
  <2> QED
    BY <1>3, <2>2 DEF TypeOK, HeaderWritten, Stage
<1>4. ASSUME NEW c \in Connections, NEW ok \in BOOLEAN, BytesWritten(c, ok)
      PROVE  TypeOK'
  <2>1. [kind |-> "bytes", of |-> BytesOf(c), ok |-> ok] \in Write
    BY DEF TypeOK, Write, BytesOf
  <2>2. pass' \in [Connections -> Seq(Write)]
    BY <1>4, <2>1 DEF TypeOK, BytesWritten
  <2>3. at[c] + 1 \in Nat /\ end[c] \in Nat
    BY DEF TypeOK
  <2>4. /\ stage' \in [Connections -> Stage]
        /\ at' \in [Connections -> Nat]
        /\ copy' \in [Connections -> Nat]
    BY <1>4, <2>3, ScanTyped DEF BytesWritten, ScanOn
  <2> QED
    BY <1>4, <2>2, <2>4 DEF TypeOK, BytesWritten
<1>5. ASSUME NEW c \in Connections, ScanCrashes(c)
      PROVE  TypeOK'
  BY <1>5 DEF TypeOK, ScanCrashes
<1>6. CASE UNCHANGED syncerVars
  BY <1>6 DEF TypeOK, syncerVars
<1> QED
  BY <1>1, <1>2, <1>3, <1>4, <1>5, <1>6 DEF Next, WriteCompletes

\* The variables of Syncer keep their types (hrafn.cpp:168-208).
THEOREM TypeCorrect == Spec => []TypeOK
  BY InitTyped, TypeStep, PTL DEF Spec

-----------------------------------------------------------------------------
(***************************************************************************)
(* Framing                                                                 *)
(***************************************************************************)

\* Which write of sync_one is under way, seen from the writes that completed.
Paired(c) ==
    LET n == Len(pass[c])
    IN  /\ stage[c] = "bytes" => /\ n > 0
                                 /\ pass[c][n].kind = "header"
                                 /\ pass[c][n].of = copy[c]
        /\ stage[c] # "bytes" /\ n > 0 => pass[c][n].kind = "bytes"

FramedInv == TypeOK /\ FramedPass /\ \A c \in Connections : Paired(c)

\* A well-framed sequence stays so when the right write follows.
LEMMA AppendFramed ==
    ASSUME NEW s \in Seq(Write), NEW w \in Write, WellFramed(s),
           w.kind = "header" /\ Len(s) > 0 => s[Len(s)].kind = "bytes",
           w.kind = "bytes" => /\ Len(s) > 0
                               /\ s[Len(s)].kind = "header"
                               /\ s[Len(s)].of = w.of
    PROVE  WellFramed(Append(s, w))
<1> DEFINE t == Append(s, w)
           n == Len(s)
<1>1. /\ n \in Nat
      /\ Len(t) = n + 1
      /\ t[n + 1] = w
      /\ \A i \in 1..n : t[i] = s[i]
  OBVIOUS
<1> SUFFICES ASSUME NEW i \in 1..Len(t)
             PROVE  /\ t[i].kind = "header" /\ i > 1 => t[i - 1].kind = "bytes"
                    /\ t[i].kind = "bytes" => /\ i > 1
                                              /\ t[i - 1].kind = "header"
                                              /\ t[i - 1].of = t[i].of
  BY DEF WellFramed
<1> HIDE DEF t, n
<1>2. CASE i \in 1..n
  <2>1. t[i] = s[i] /\ (i > 1 => t[i - 1] = s[i - 1])
    BY <1>1, <1>2
  <2>2. /\ s[i].kind = "header" /\ i > 1 => s[i - 1].kind = "bytes"
        /\ s[i].kind = "bytes" => /\ i > 1
                                  /\ s[i - 1].kind = "header"
                                  /\ s[i - 1].of = s[i].of
    BY <1>2 DEF WellFramed, n
  <2> QED
    BY <2>1, <2>2
<1>3. CASE i = n + 1
  <2>1. t[i] = w /\ (i > 1 => i - 1 = n /\ t[i - 1] = s[n])
    BY <1>1, <1>3
  <2>2. i > 1 <=> n > 0
    BY <1>1, <1>3
  <2> QED
    BY <2>1, <2>2 DEF n
<1> QED
  BY <1>1, <1>2, <1>3

\* What a run of the loop leaves in stage.
LEMMA ScanStage ==
    ASSUME TypeOK, NEW c \in Connections, NEW md, NEW from, NEW to,
           Scan(c, md, from, to) \/ ScanStale(c)
    PROVE  /\ stage'[c] # "bytes"
           /\ \A d \in Connections \ {c} : stage'[d] = stage[d] /\ copy'[d] = copy[d]
  BY DEF TypeOK, Scan, ScanStale, Stop, EnterSyncOne

LEMMA FramedStep == FramedInv /\ [Next]_syncerVars => FramedInv'
<1> SUFFICES ASSUME FramedInv, [Next]_syncerVars
             PROVE  FramedInv'
  OBVIOUS
<1> USE DEF FramedInv
<1>1. TypeOK'
  BY TypeStep
<1>2. ASSUME NEW m \in Message, AddMessage(m)
      PROVE  FramedPass' /\ \A d \in Connections : Paired(d)'
  BY <1>2 DEF AddMessage, FramedPass, Paired
<1>3. ASSUME NEW c \in Connections, NEW md \in SyncMode, Begin(c, md)
      PROVE  FramedPass' /\ \A d \in Connections : Paired(d)'
  <2>1. /\ stage'[c] # "bytes"
        /\ \A d \in Connections \ {c} : stage'[d] = stage[d] /\ copy'[d] = copy[d]
    BY <1>3, ScanStage DEF Begin
  <2>2. pass'[c] = <<>> /\ \A d \in Connections \ {c} : pass'[d] = pass[d]
    BY <1>3 DEF Begin, TypeOK
  <2>3. WellFramed(pass'[c]) /\ Paired(c)'
    BY <2>1, <2>2 DEF WellFramed, Paired
  <2>4. \A d \in Connections \ {c} : WellFramed(pass'[d]) /\ Paired(d)'
    BY <2>1, <2>2 DEF Paired, FramedPass
  <2> QED
    BY <2>3, <2>4 DEF FramedPass
<1>4. ASSUME NEW c \in Connections, NEW ok \in BOOLEAN, HeaderWritten(c, ok)
      PROVE  FramedPass' /\ \A d \in Connections : Paired(d)'
  <2> DEFINE w == [kind |-> "header", of |-> copy[c], ok |-> ok]
  <2>1. /\ stage[c] = "header"
        /\ stage'[c] = "bytes"
        /\ pass'[c] = Append(pass[c], w)
        /\ copy' = copy
        /\ \A d \in Connections \ {c} : pass'[d] = pass[d] /\ stage'[d] = stage[d]
    BY <1>4 DEF HeaderWritten, TypeOK
  <2>2. w.kind = "header" /\ w.kind # "bytes" /\ w.of = copy[c]
    OBVIOUS
  <2> HIDE DEF w
  <2>3. pass[c] \in Seq(Write)
    BY DEF TypeOK
  <2>4. /\ Len(pass[c]) \in Nat
        /\ Len(pass[c]) > 0 => pass[c][Len(pass[c])].kind = "bytes"
    BY <2>1, <2>3 DEF Paired
  <2>5. /\ Len(pass'[c]) = Len(pass[c]) + 1
        /\ pass'[c][Len(pass[c]) + 1] = w
        /\ \A i \in 1..Len(pass[c]) : pass'[c][i] = pass[c][i]
    BY <2>1, <2>3
  <2>6. Paired(c)'
    BY <2>1, <2>2, <2>4, <2>5 DEF Paired
  <2>7. w \in Write
    BY DEF TypeOK, Write, w
  <2>8. WellFramed(pass'[c])
    BY <2>1, <2>2, <2>3, <2>4, <2>7, AppendFramed DEF FramedPass
  <2>9. \A d \in Connections \ {c} : WellFramed(pass'[d]) /\ Paired(d)'
    BY <2>1 DEF Paired, FramedPass
  <2> QED
    BY <2>6, <2>8, <2>9 DEF FramedPass
<1>5. ASSUME NEW c \in Connections, NEW ok \in BOOLEAN, BytesWritten(c, ok)
      PROVE  FramedPass' /\ \A d \in Connections : Paired(d)'
  <2> DEFINE w == [kind |-> "bytes", of |-> copy[c], ok |-> ok]
  <2>1. /\ stage[c] = "bytes"
        /\ pass'[c] = Append(pass[c], w)
        /\ \A d \in Connections \ {c} : pass'[d] = pass[d]
    BY <1>5 DEF BytesWritten, BytesOf, TypeOK
  <2>2. w.kind = "bytes" /\ w.kind # "header" /\ w.of = copy[c]
    OBVIOUS
  <2> HIDE DEF w
  <2>3. pass[c] \in Seq(Write)
    BY DEF TypeOK
  <2>4. /\ Len(pass[c]) \in Nat
        /\ Len(pass[c]) > 0
        /\ pass[c][Len(pass[c])].kind = "header"
        /\ pass[c][Len(pass[c])].of = copy[c]
    BY <2>1, <2>3 DEF Paired
  <2>5. /\ Len(pass'[c]) = Len(pass[c]) + 1
        /\ pass'[c][Len(pass[c]) + 1] = w
        /\ \A i \in 1..Len(pass[c]) : pass'[c][i] = pass[c][i]
    BY <2>1, <2>3
  <2>6. /\ stage'[c] # "bytes"
        /\ \A d \in Connections \ {c} : stage'[d] = stage[d] /\ copy'[d] = copy[d]
    BY <1>5, ScanStage DEF BytesWritten, ScanOn
  <2>7. w \in Write
    BY DEF TypeOK, Write, w
  <2>8. WellFramed(pass'[c])
    BY <2>1, <2>2, <2>3, <2>4, <2>7, AppendFramed DEF FramedPass
  <2>9. Paired(c)'
    BY <2>2, <2>4, <2>5, <2>6 DEF Paired
  <2>10. \A d \in Connections \ {c} : WellFramed(pass'[d]) /\ Paired(d)'
    BY <2>1, <2>6 DEF Paired, FramedPass
  <2> QED
    BY <2>8, <2>9, <2>10 DEF FramedPass
<1>6. ASSUME NEW c \in Connections, ScanCrashes(c)
      PROVE  FramedPass' /\ \A d \in Connections : Paired(d)'
  BY <1>6 DEF ScanCrashes, FramedPass, Paired
<1>7. CASE UNCHANGED syncerVars
  <2>1. FramedPass' /\ \A d \in Connections : Paired(d)'
    BY <1>7 DEF syncerVars, FramedPass, Paired
  <2> QED
    BY <1>1, <2>1
<1> QED
  BY <1>1, <1>2, <1>3, <1>4, <1>5, <1>6, <1>7 DEF Next, WriteCompletes

\* sync_one (hrafn.cpp:204-207) writes a header and then the bytes of that same
\* message, for every message of every pass over every connection, however
\* add_message interferes.
THEOREM Framed == Spec => []FramedPass
<1>1. Init => FramedInv
  <2>1. Init => TypeOK
    BY InitTyped
  <2>2. Init => FramedPass /\ \A c \in Connections : Paired(c)
    BY DEF Init, FramedPass, WellFramed, Paired
  <2> QED
    BY <2>1, <2>2 DEF FramedInv
<1>2. FramedInv => FramedPass
  BY DEF FramedInv
<1> QED
  BY <1>1, <1>2, FramedStep, PTL DEF Spec

-----------------------------------------------------------------------------
(***************************************************************************)
(* Exactness                                                               *)
(***************************************************************************)

\* Where the loop of c stands in the vector, and what sync_one holds.
Located(c) ==
    /\ end[c] <= Len(messages)
    /\ stage[c] # "idle" => at[c] \in 1..end[c]
    /\ stage[c] = "header" /\ ~stale[c] =>
          copy[c] = at[c] /\ Wanted(c, mode[c], messages[at[c]])

ExactFor(c) == ~stale[c] => Headers(pass[c]) = Owed(c, Passed(c))

ExactInv == TypeOK /\ \A c \in Connections : ExactFor(c) /\ Located(c)

\* A completed header write adds its message, a completed bytes write nothing.
LEMMA HeadersAppend ==
    ASSUME NEW s \in Seq(Write), NEW w \in Write
    PROVE  Headers(Append(s, w)) =
               IF w.kind = "header" THEN Headers(s) \cup {w.of} ELSE Headers(s)
<1> DEFINE t == Append(s, w)
           n == Len(s)
<1>1. /\ n \in Nat
      /\ Len(t) = n + 1
      /\ t[n + 1] = w
      /\ \A i \in 1..n : t[i] = s[i]
  OBVIOUS
<1>2. \A x : x \in Headers(t) <=>
              \E i \in 1..n + 1 : t[i].kind = "header" /\ x = t[i].of
  BY <1>1 DEF Headers
<1>3. \A x : x \in Headers(s) <=>
              \E i \in 1..n : s[i].kind = "header" /\ x = s[i].of
  BY DEF Headers
<1> HIDE DEF t, n
<1>4. \A x : x \in Headers(t) <=>
              \/ x \in Headers(s)
              \/ w.kind = "header" /\ x = w.of
  BY <1>1, <1>2, <1>3
<1> QED
  BY <1>4 DEF t

\* Being owed is being wanted.
LEMMA OwedIsWanted ==
    ASSUME TypeOK, NEW c \in Connections, NEW n \in Nat
    PROVE  Owed(c, n) = {i \in 1..n : Wanted(c, mode[c], messages[i])}
  BY DEF TypeOK, Owed, Wanted, SyncMode

\* A message added later is not among the first n.
LEMMA OwedAdd ==
    ASSUME TypeOK, NEW m \in Message, messages' = Append(messages, m),
           mode' = mode, NEW c \in Connections, NEW n \in Nat,
           n <= Len(messages)
    PROVE  Owed(c, n)' = Owed(c, n)
<1>1. \A i \in 1..n : messages'[i] = messages[i]
  BY DEF TypeOK
<1> QED
  BY <1>1 DEF Owed

\* What a run of the loop over good iterators has established.
LEMMA ScanFinds ==
    ASSUME TypeOK, NEW c \in Connections, NEW md, NEW from \in Nat,
           NEW to \in Nat, Scan(c, md, from, to)
    PROVE  /\ \/ /\ stage'[c] = "idle"
                 /\ \A i \in from..to : ~Wanted(c, md, messages[i])
              \/ \E i \in from..to :
                    /\ stage'[c] = "header"
                    /\ at'[c] = i
                    /\ copy'[c] = i
                    /\ Wanted(c, md, messages[i])
                    /\ \A j \in from..i - 1 : ~Wanted(c, md, messages[j])
           /\ \A d \in Connections \ {c} :
                 stage'[d] = stage[d] /\ at'[d] = at[d] /\ copy'[d] = copy[d]
<1>1. CASE Wants(c, md, from, to) = {} /\ Stop(c)
  BY <1>1 DEF Wants, Stop, TypeOK
<1>2. CASE \E i \in from..to :
              FirstWanted(c, md, from, to, i) /\ EnterSyncOne(c, i, i)
  <2>1. PICK i \in from..to :
                FirstWanted(c, md, from, to, i) /\ EnterSyncOne(c, i, i)
    BY <1>2
  <2>2. Wanted(c, md, messages[i])
    BY <2>1 DEF FirstWanted, Wants
  <2>3. \A j \in from..i - 1 : ~Wanted(c, md, messages[j])
    <3> SUFFICES ASSUME NEW j \in from..i - 1, Wanted(c, md, messages[j])
                 PROVE  FALSE
      OBVIOUS
    <3>1. j \in from..to /\ j < i
      OBVIOUS
    <3>2. j \in Wants(c, md, from, to)
      BY <3>1 DEF Wants
    <3> QED
      BY <2>1, <3>1, <3>2 DEF FirstWanted
  <2>4. /\ stage'[c] = "header"
        /\ at'[c] = i
        /\ copy'[c] = i
        /\ \A d \in Connections \ {c} :
              stage'[d] = stage[d] /\ at'[d] = at[d] /\ copy'[d] = copy[d]
    BY <2>1 DEF EnterSyncOne, TypeOK
  <2> QED
    BY <2>1, <2>2, <2>3, <2>4
<1> QED
  BY <1>1, <1>2 DEF Scan

\* A connection that a step leaves alone keeps its part of the invariant.
LEMMA Untouched ==
    ASSUME TypeOK, NEW c \in Connections, ExactFor(c) /\ Located(c),
           messages' = messages, stage'[c] = stage[c], mode'[c] = mode[c],
           at'[c] = at[c], end'[c] = end[c], stale'[c] = stale[c],
           copy'[c] = copy[c], pass'[c] = pass[c]
    PROVE  ExactFor(c)' /\ Located(c)'
<1>1. Passed(c)' = Passed(c)
  BY DEF Passed
<1>2. \A n : Owed(c, n)' = Owed(c, n)
  BY DEF Owed
<1>3. \A m : Wanted(c, mode[c], m)' = Wanted(c, mode[c], m)
  BY DEF Wanted
<1> QED
  BY <1>1, <1>2 DEF ExactFor, Located, Wanted

LEMMA ExactStep == ExactInv /\ [Next]_syncerVars => ExactInv'
<1> SUFFICES ASSUME ExactInv, [Next]_syncerVars
             PROVE  ExactInv'
  OBVIOUS
<1> USE DEF ExactInv
<1> DEFINE Good(c) == ExactFor(c) /\ Located(c)
<1>1. TypeOK'
  BY TypeStep
<1>2. ASSUME NEW m \in Message, AddMessage(m), NEW c \in Connections
      PROVE  ExactFor(c)' /\ Located(c)'
  <2>1. /\ messages' = Append(messages, m)
        /\ stale'[c] = FALSE => stale[c] = FALSE
        /\ UNCHANGED <<stage, mode, at, end, copy, pass>>
    BY <1>2 DEF AddMessage, TypeOK
  <2>2. /\ end[c] \in Nat
        /\ at[c] \in Nat
        /\ Len(messages) \in Nat
        /\ Len(messages') = Len(messages) + 1
        /\ \A i \in 1..Len(messages) : messages'[i] = messages[i]
    BY <2>1 DEF TypeOK
  <2>3. Located(c)'
    BY <2>1, <2>2, <1>1 DEF Located, Wanted, TypeOK
  <2>4. Passed(c)' = Passed(c)
    BY <2>1 DEF Passed
  <2>5. stage[c] \in Stage
    BY DEF TypeOK
  <2>6. Passed(c) \in Nat /\ Passed(c) <= Len(messages)
    BY <2>2, <2>5 DEF Located, Passed, Stage
  <2>7. Owed(c, Passed(c))' = Owed(c, Passed(c))
    BY <2>1, <2>4, <2>6, OwedAdd
  <2>8. ExactFor(c)'
    BY <2>1, <2>7, <1>1 DEF ExactFor, TypeOK
  <2> QED
    BY <2>3, <2>8
<1>3. ASSUME NEW c \in Connections, NEW md \in SyncMode, Begin(c, md),
             NEW d \in Connections
      PROVE  ExactFor(d)' /\ Located(d)'
  <2>1. Len(messages) \in Nat
    BY DEF TypeOK
  <2>2. /\ messages' = messages
        /\ mode'[c] = md
        /\ end'[c] = Len(messages)
        /\ stale'[c] = FALSE
        /\ pass'[c] = <<>>
        /\ Scan(c, md, 1, Len(messages))
    BY <1>3 DEF Begin, EndIterator, TypeOK
  <2>3. \A e \in Connections \ {c} :
           /\ mode'[e] = mode[e]
           /\ end'[e] = end[e]
           /\ stale'[e] = stale[e]
           /\ pass'[e] = pass[e]
    BY <1>3 DEF Begin, TypeOK
  <2>4. /\ \/ /\ stage'[c] = "idle"
              /\ \A i \in 1..Len(messages) : ~Wanted(c, md, messages[i])
           \/ \E i \in 1..Len(messages) :
                 /\ stage'[c] = "header"
                 /\ at'[c] = i
                 /\ copy'[c] = i
                 /\ Wanted(c, md, messages[i])
                 /\ \A j \in 1..i - 1 : ~Wanted(c, md, messages[j])
        /\ \A e \in Connections \ {c} :
              stage'[e] = stage[e] /\ at'[e] = at[e] /\ copy'[e] = copy[e]
    BY <2>1, <2>2, ScanFinds
  <2>5. CASE d # c
    BY <2>2, <2>3, <2>4, <2>5, Untouched
  <2>6. CASE d = c
    <3>1. Located(c)'
      BY <2>1, <2>2, <2>4 DEF Located, Wanted
    <3>2. Headers(pass'[c]) = {}
      BY <2>2 DEF Headers
    <3>3. Passed(c)' \in Nat
      BY <2>1, <2>2, <2>4 DEF Passed
    <3>4. \A j \in 1..Passed(c)' : ~Wanted(c, md, messages[j])
      BY <2>1, <2>2, <2>4 DEF Passed
    <3>5. Owed(c, Passed(c))' = {}
      BY <3>4, <2>2 DEF Owed, Wanted, SyncMode
    <3> QED
      BY <2>6, <3>1, <3>2, <3>5 DEF ExactFor
  <2> QED
    BY <2>5, <2>6
<1>4. ASSUME NEW c \in Connections, NEW ok \in BOOLEAN, HeaderWritten(c, ok),
             NEW d \in Connections
      PROVE  ExactFor(d)' /\ Located(d)'
  <2> DEFINE w == [kind |-> "header", of |-> copy[c], ok |-> ok]
  <2>1. /\ stage[c] = "header"
        /\ stage'[c] = "bytes"
        /\ pass'[c] = Append(pass[c], w)
        /\ \A e \in Connections \ {c} : pass'[e] = pass[e] /\ stage'[e] = stage[e]
        /\ UNCHANGED <<messages, mode, at, end, stale, copy>>
    BY <1>4 DEF HeaderWritten, TypeOK
  <2>2. CASE d # c
    BY <2>1, <2>2, Untouched
  <2>3. CASE d = c
    <3>1. w \in Write /\ w.kind = "header" /\ w.of = copy[c]
      BY DEF TypeOK, Write
    <3> HIDE DEF w
    <3>2. Located(c)'
      BY <2>1 DEF Located
    <3>3. ASSUME ~stale[c]
          PROVE  Headers(pass'[c]) = Owed(c, Passed(c))'
      <4>1. pass[c] \in Seq(Write) /\ at[c] \in Nat /\ at[c] >= 1
        BY <2>1 DEF TypeOK, Located
      <4>2. Headers(pass'[c]) = Headers(pass[c]) \cup {at[c]}
        BY <2>1, <3>1, <3>3, <4>1, HeadersAppend DEF Located
      <4>3. Headers(pass[c]) = {i \in 1..at[c] - 1 : Wanted(c, mode[c], messages[i])}
        BY <2>1, <3>3, <4>1, OwedIsWanted DEF ExactFor, Passed
      <4>4. Wanted(c, mode[c], messages[at[c]])
        BY <2>1, <3>3 DEF Located
      <4>5. Headers(pass'[c]) = {i \in 1..at[c] : Wanted(c, mode[c], messages[i])}
        BY <4>1, <4>2, <4>3, <4>4
      <4>6. Passed(c)' = at[c]
        BY <2>1 DEF Passed
      <4>7. Owed(c, Passed(c))' = Owed(c, at[c])
        BY <2>1, <4>6 DEF Owed
      <4> QED
        BY <4>1, <4>5, <4>7, OwedIsWanted
    <3> QED
      BY <2>1, <2>3, <3>2, <3>3 DEF ExactFor
  <2> QED
    BY <2>2, <2>3
<1>5. ASSUME NEW c \in Connections, NEW ok \in BOOLEAN, BytesWritten(c, ok),
             NEW d \in Connections
      PROVE  ExactFor(d)' /\ Located(d)'
  <2> DEFINE w == [kind |-> "bytes", of |-> copy[c], ok |-> ok]
  <2>1. /\ stage[c] = "bytes"
        /\ pass'[c] = Append(pass[c], w)
        /\ \A e \in Connections \ {c} : pass'[e] = pass[e]
        /\ UNCHANGED <<messages, mode, end, stale>>
        /\ IF stale[c] THEN ScanStale(c)
                       ELSE Scan(c, mode[c], at[c] + 1, end[c])
    BY <1>5 DEF BytesWritten, BytesOf, ScanOn, TypeOK
  <2>2. /\ at[c] \in Nat
        /\ end[c] \in Nat
        /\ Len(messages) \in Nat
        /\ at[c] \in 1..end[c]
        /\ end[c] <= Len(messages)
        /\ pass[c] \in Seq(Write)
    BY <2>1 DEF TypeOK, Located
  <2>3. CASE stale[c]
    <3>1. /\ \/ stage'[c] = "idle"
             \/ stage'[c] = "header" /\ at'[c] \in at[c] + 1..end[c]
          /\ \A e \in Connections \ {c} :
                stage'[e] = stage[e] /\ at'[e] = at[e] /\ copy'[e] = copy[e]
      BY <2>1, <2>3 DEF ScanStale, Stop, EnterSyncOne, TypeOK
    <3>2. CASE d # c
      BY <2>1, <3>1, <3>2, Untouched
    <3>3. CASE d = c
      BY <2>1, <2>2, <2>3, <3>1, <3>3 DEF ExactFor, Located
    <3> QED
      BY <3>2, <3>3
  <2>4. CASE ~stale[c]
    <3>0. /\ at[c] + 1 \in Nat
          /\ Scan(c, mode[c], at[c] + 1, end[c])
      BY <2>1, <2>2, <2>4
    <3>1. /\ \/ /\ stage'[c] = "idle"
                /\ \A i \in at[c] + 1..end[c] : ~Wanted(c, mode[c], messages[i])
             \/ \E i \in at[c] + 1..end[c] :
                   /\ stage'[c] = "header"
                   /\ at'[c] = i
                   /\ copy'[c] = i
                   /\ Wanted(c, mode[c], messages[i])
                   /\ \A j \in at[c] + 1..i - 1 : ~Wanted(c, mode[c], messages[j])
          /\ \A e \in Connections \ {c} :
                stage'[e] = stage[e] /\ at'[e] = at[e] /\ copy'[e] = copy[e]
      BY <2>2, <3>0, ScanFinds
    <3>2. CASE d # c
      BY <2>1, <3>1, <3>2, Untouched
    <3>3. CASE d = c
      <4>1. Located(c)'
        BY <2>1, <2>2, <3>1 DEF Located, Wanted
      <4>2. w \in Write /\ w.kind # "header"
        BY DEF TypeOK, Write
      <4> HIDE DEF w
      <4>3. Headers(pass'[c]) = Headers(pass[c])
        BY <2>1, <2>2, <4>2, HeadersAppend
      <4>4. Headers(pass[c]) = {i \in 1..at[c] : Wanted(c, mode[c], messages[i])}
        BY <2>1, <2>2, <2>4, OwedIsWanted DEF ExactFor, Passed
      <4>5. /\ Passed(c)' \in Nat
            /\ Passed(c)' >= at[c]
            /\ \A i \in at[c] + 1..Passed(c)' : ~Wanted(c, mode[c], messages[i])
        BY <2>1, <2>2, <3>1 DEF Passed
      <4>6. Headers(pass[c]) =
               {i \in 1..Passed(c)' : Wanted(c, mode[c], messages[i])}
        BY <2>2, <4>4, <4>5
      <4>7. Owed(c, Passed(c))' = Owed(c, Passed(c)')
        BY <2>1 DEF Owed
      <4> QED
        BY <3>3, <4>1, <4>3, <4>5, <4>6, <4>7, OwedIsWanted DEF ExactFor
    <3> QED
      BY <3>2, <3>3
  <2> QED
    BY <2>3, <2>4
<1>6. ASSUME NEW c \in Connections, ScanCrashes(c), NEW d \in Connections
      PROVE  ExactFor(d)' /\ Located(d)'
  BY <1>6, Untouched DEF ScanCrashes
<1>7. ASSUME UNCHANGED syncerVars, NEW d \in Connections
      PROVE  ExactFor(d)' /\ Located(d)'
  BY <1>7, Untouched DEF syncerVars
<1> QED
  BY <1>1, <1>2, <1>3, <1>4, <1>5, <1>6, <1>7 DEF Next, WriteCompletes

\* A pass that no reallocation disturbed has offered exactly the wanted messages
\* among those its loop went past (hrafn.cpp:174-198).
THEOREM Exact == Spec => []ExactPass
<1>1. Init => ExactInv
  <2>1. Init => TypeOK
    BY InitTyped
  <2>2. ASSUME Init, NEW c \in Connections
        PROVE  ExactFor(c) /\ Located(c)
    BY <2>2 DEF Init, ExactFor, Located, Headers, Owed, Passed
  <2> QED
    BY <2>1, <2>2 DEF ExactInv
<1>2. ExactInv => ExactPass
  BY DEF ExactInv, ExactFor, ExactPass
<1> QED
  BY <1>1, <1>2, ExactStep, PTL DEF Spec

-----------------------------------------------------------------------------
(***************************************************************************)
(* Order                                                                   *)
(***************************************************************************)

\* The headers in a sequence of writes are of later and later messages, but for
\* those that were garbage.
Rising(s) ==
    \A i, j \in 1..Len(s) :
        i < j /\ s[i].kind = "header" /\ s[j].kind = "header"
              /\ s[i].of # 0 /\ s[j].of # 0
        => s[i].of < s[j].of

\* A message whose header is written lies before the loop's position, and the
\* one whose header is under way at it.
Behind(c) ==
    /\ stage[c] = "header" => copy[c] \in {0, at[c]}
    /\ \A i \in 1..Len(pass[c]) :
          pass[c][i].kind = "header" /\ pass[c][i].of # 0 =>
              /\ pass[c][i].of <= at[c]
              /\ stage[c] = "header" => pass[c][i].of < at[c]

OrderInv == TypeOK /\ \A c \in Connections : Behind(c) /\ Rising(pass[c])

\* One more write keeps the order if it is no header or a later one.
LEMMA AppendRising ==
    ASSUME NEW s \in Seq(Write), Rising(s), NEW w \in Write,
           w.kind = "header" /\ w.of # 0 =>
               \A i \in 1..Len(s) :
                   s[i].kind = "header" /\ s[i].of # 0 => s[i].of < w.of
    PROVE  Rising(Append(s, w))
<1> DEFINE t == Append(s, w)
<1>1. /\ Len(t) = Len(s) + 1 /\ Len(s) \in Nat
      /\ t[Len(s) + 1] = w
      /\ \A i \in 1..Len(s) : t[i] = s[i]
  OBVIOUS
<1> HIDE DEF t
<1>2. SUFFICES ASSUME NEW i \in 1..Len(t), NEW j \in 1..Len(t), i < j,
                      t[i].kind = "header", t[j].kind = "header",
                      t[i].of # 0, t[j].of # 0
               PROVE  t[i].of < t[j].of
  BY DEF Rising, t
<1>3. i \in 1..Len(s) /\ t[i] = s[i]
  BY <1>1, <1>2
<1>4. CASE j \in 1..Len(s)
  BY <1>1, <1>2, <1>3, <1>4 DEF Rising
<1>5. CASE j = Len(s) + 1
  BY <1>1, <1>2, <1>3, <1>5
<1> QED
  BY <1>1, <1>4, <1>5

\* The loop runs forward: it ends where it is, or stops at a later position.
LEMMA ScanForward ==
    ASSUME TypeOK, NEW c \in Connections, NEW md, NEW from \in Nat, NEW to \in Nat,
           from > at[c],
           Scan(c, md, from, to) \/ ScanStale(c)
    PROVE  /\ \/ stage'[c] = "idle" /\ at'[c] = at[c]
              \/ /\ stage'[c] = "header"
                 /\ at'[c] \in Nat /\ at'[c] > at[c]
                 /\ copy'[c] \in {0, at'[c]}
           /\ \A d \in Connections \ {c} :
                 stage'[d] = stage[d] /\ at'[d] = at[d] /\ copy'[d] = copy[d]
<1>1. at[c] \in Nat /\ end[c] \in Nat
  BY DEF TypeOK
<1>2. CASE Stop(c)
  BY <1>2 DEF Stop, TypeOK
<1>3. ASSUME NEW i \in Nat, i > at[c], NEW of \in {0, i}, EnterSyncOne(c, i, of)
      PROVE  /\ stage'[c] = "header" /\ at'[c] = i /\ copy'[c] = of
             /\ \A d \in Connections \ {c} :
                   stage'[d] = stage[d] /\ at'[d] = at[d] /\ copy'[d] = copy[d]
  BY <1>3 DEF EnterSyncOne, TypeOK
<1>4. CASE \E i \in from..to : EnterSyncOne(c, i, i)
  BY <1>1, <1>3, <1>4
<1>5. CASE \E i \in at[c] + 1..end[c], garbage \in BOOLEAN :
              EnterSyncOne(c, i, IF garbage THEN 0 ELSE i)
  BY <1>1, <1>3, <1>5
<1> QED
  BY <1>2, <1>4, <1>5 DEF Scan, ScanStale, FirstWanted

\* The writes of a sequence are writes.
LEMMA WritesOf ==
    ASSUME NEW s \in Seq(Write), NEW i \in 1..Len(s)
    PROVE  s[i] \in Write /\ s[i].of \in Nat
<1>1. s[i] \in Write
  OBVIOUS
<1> QED
  BY <1>1 DEF Write

\* What a step does not touch stays in order.
LEMMA OrderUntouched ==
    ASSUME NEW d, Behind(d), Rising(pass[d]),
           stage'[d] = stage[d], at'[d] = at[d], copy'[d] = copy[d],
           pass'[d] = pass[d]
    PROVE  (Behind(d) /\ Rising(pass[d]))'
BY DEF Behind, Rising

\* Every step keeps the writes of every pass in order.
LEMMA OrderStep == OrderInv /\ [Next]_syncerVars => OrderInv'
<1> SUFFICES ASSUME OrderInv, [Next]_syncerVars
             PROVE  OrderInv'
  OBVIOUS
<1>0. TypeOK /\ TypeOK'
  BY TypeStep DEF OrderInv
<1> USE <1>0
<1> SUFFICES ASSUME NEW d \in Connections
             PROVE  (Behind(d) /\ Rising(pass[d]))'
  BY DEF OrderInv
<1>d. Behind(d) /\ Rising(pass[d])
  BY DEF OrderInv
<1>1. CASE \E m \in Message : AddMessage(m)
  BY <1>1, <1>d, OrderUntouched DEF AddMessage
<1>2. ASSUME NEW c \in Connections, NEW md \in SyncMode, Begin(c, md)
      PROVE  (Behind(d) /\ Rising(pass[d]))'
  <2>1. Scan(c, md, 1, EndIterator) /\ pass' = [pass EXCEPT ![c] = <<>>]
    BY <1>2 DEF Begin
  <2>2. CASE d = c
    <3>1. pass'[d] = <<>>
      BY <2>1, <2>2 DEF TypeOK
    <3>2. stage'[d] = "header" => copy'[d] \in {0, at'[d]}
      <4>1. CASE Stop(c)
        BY <2>2, <4>1 DEF Stop, TypeOK
      <4>2. CASE \E i \in 1..EndIterator : EnterSyncOne(c, i, i)
        BY <2>2, <4>2 DEF EnterSyncOne, TypeOK
      <4> QED
        BY <2>1, <4>1, <4>2 DEF Scan
    <3> QED
      BY <3>1, <3>2 DEF Behind, Rising
  <2>3. CASE d # c
    <3>1. /\ stage'[d] = stage[d] /\ at'[d] = at[d] /\ copy'[d] = copy[d]
          /\ pass'[d] = pass[d]
      <4>1. CASE Stop(c)
        BY <2>1, <2>3, <4>1 DEF Stop, TypeOK
      <4>2. CASE \E i \in 1..EndIterator : EnterSyncOne(c, i, i)
        BY <2>1, <2>3, <4>2 DEF EnterSyncOne, TypeOK
      <4> QED
        BY <2>1, <4>1, <4>2 DEF Scan
    <3> QED
      BY <1>d, <3>1, OrderUntouched
  <2> QED
    BY <2>2, <2>3
<1>3. ASSUME NEW c \in Connections, NEW ok \in BOOLEAN, HeaderWritten(c, ok)
      PROVE  (Behind(d) /\ Rising(pass[d]))'
  <2> DEFINE w == [kind |-> "header", of |-> copy[c], ok |-> ok]
  <2>1. /\ stage[c] = "header"
        /\ stage' = [stage EXCEPT ![c] = "bytes"]
        /\ pass' = [pass EXCEPT ![c] = Append(pass[c], w)]
        /\ at' = at /\ copy' = copy
    BY <1>3 DEF HeaderWritten, TypeOK
  <2>2. CASE d = c
    <3>1. /\ pass[c] \in Seq(Write) /\ w \in Write
          /\ at[c] \in Nat
          /\ stage'[c] = "bytes"
          /\ pass'[c] = Append(pass[c], w)
      BY <2>1 DEF TypeOK, Write
    <3>2. /\ copy[c] \in {0, at[c]}
          /\ \A i \in 1..Len(pass[c]) :
                pass[c][i].kind = "header" /\ pass[c][i].of # 0 =>
                    pass[c][i].of < at[c]
      BY <1>d, <2>1, <2>2 DEF Behind
    <3>3. w.of = copy[c] /\ w.kind = "header"
      OBVIOUS
    <3> HIDE DEF w
    <3>4. Rising(Append(pass[c], w))
      BY <1>d, <2>2, <3>1, <3>2, <3>3, AppendRising
    <3>5. Behind(c)'
      <4>1. \A i \in 1..Len(Append(pass[c], w)) :
                \/ i \in 1..Len(pass[c]) /\ Append(pass[c], w)[i] = pass[c][i]
                \/ Append(pass[c], w)[i] = w
        BY <3>1
      <4>2. \A i \in 1..Len(pass[c]) : pass[c][i].of \in Nat
        BY <3>1, WritesOf
      <4> QED
        BY <2>1, <3>1, <3>2, <3>3, <4>1, <4>2 DEF Behind
    <3>6. Rising(pass[c])'
      BY <3>1, <3>4 DEF Rising
    <3> QED
      BY <2>2, <3>5, <3>6
  <2>3. CASE d # c
    BY <1>d, <2>1, <2>3, OrderUntouched DEF TypeOK
  <2> QED
    BY <2>2, <2>3
<1>4. ASSUME NEW c \in Connections, NEW ok \in BOOLEAN, BytesWritten(c, ok)
      PROVE  (Behind(d) /\ Rising(pass[d]))'
  <2> DEFINE w == [kind |-> "bytes", of |-> copy[c], ok |-> ok]
  <2>1. /\ stage[c] = "bytes"
        /\ pass' = [pass EXCEPT ![c] = Append(pass[c], w)]
        /\ at[c] + 1 \in Nat /\ end[c] \in Nat /\ at[c] \in Nat
        /\ at[c] + 1 > at[c]
        /\ Scan(c, mode[c], at[c] + 1, end[c]) \/ ScanStale(c)
    BY <1>4 DEF BytesWritten, BytesOf, ScanOn, TypeOK
  <2>2. /\ \/ stage'[c] = "idle" /\ at'[c] = at[c]
           \/ /\ stage'[c] = "header"
              /\ at'[c] \in Nat /\ at'[c] > at[c]
              /\ copy'[c] \in {0, at'[c]}
        /\ \A e \in Connections \ {c} :
              stage'[e] = stage[e] /\ at'[e] = at[e] /\ copy'[e] = copy[e]
    BY <2>1, ScanForward
  <2>3. CASE d = c
    <3>1. /\ pass[c] \in Seq(Write) /\ w \in Write
          /\ pass'[c] = Append(pass[c], w)
      BY <2>1 DEF TypeOK, Write
    <3>2. w.kind = "bytes"
      OBVIOUS
    <3> HIDE DEF w
    <3>3. Rising(Append(pass[c], w))
      BY <1>d, <2>3, <3>1, <3>2, AppendRising
    <3>4. Behind(c)'
      <4>1. \A i \in 1..Len(Append(pass[c], w)) :
                \/ i \in 1..Len(pass[c]) /\ Append(pass[c], w)[i] = pass[c][i]
                \/ Append(pass[c], w)[i] = w
        BY <3>1
      <4>2. \A i \in 1..Len(pass[c]) :
                /\ pass[c][i].of \in Nat
                /\ pass[c][i].kind = "header" /\ pass[c][i].of # 0 =>
                       pass[c][i].of <= at[c]
        BY <1>d, <2>3, <3>1, WritesOf DEF Behind
      <4> QED
        BY <2>1, <2>2, <3>1, <3>2, <4>1, <4>2 DEF Behind
    <3>5. Rising(pass[c])'
      BY <3>1, <3>3 DEF Rising
    <3> QED
      BY <2>3, <3>4, <3>5
  <2>4. CASE d # c
    BY <1>d, <2>1, <2>2, <2>4, OrderUntouched DEF TypeOK
  <2> QED
    BY <2>3, <2>4
<1>5. ASSUME NEW c \in Connections, ScanCrashes(c)
      PROVE  (Behind(d) /\ Rising(pass[d]))'
  BY <1>5, <1>d, OrderUntouched DEF ScanCrashes
<1>6. CASE UNCHANGED syncerVars
  BY <1>6, <1>d, OrderUntouched DEF syncerVars
<1> QED
  BY <1>1, <1>2, <1>3, <1>4, <1>5, <1>6 DEF Next, WriteCompletes

\* A pass offers messages in the order in which they were added, each once,
\* also when the vector was reallocated under it (hrafn.cpp:174-198).
THEOREM OffersInOrder == Spec => []InOrder
<1>1. Init => OrderInv
  <2>1. Init => TypeOK
    BY InitTyped
  <2>2. ASSUME Init, NEW c \in Connections
        PROVE  Behind(c) /\ Rising(pass[c])
    BY <2>2 DEF Init, Behind, Rising
  <2> QED
    BY <2>1, <2>2 DEF OrderInv
<1>2. OrderInv => InOrder
  BY DEF OrderInv, Rising, InOrder
<1> QED
  BY <1>1, <1>2, OrderStep, PTL DEF Spec

-----------------------------------------------------------------------------
(***************************************************************************)
(* The end of a pass                                                       *)
(***************************************************************************)

\* A pass that is under way is within the vector as it was when it began.
Within(c) == stage[c] # "idle" => at[c] <= end[c]

WithinInv == TypeOK /\ \A c \in Connections : Within(c)

\* How many writes a pass over c has at most before it.
WritesLeft(c) ==
    CASE stage[c] = "idle" -> 0
      [] stage[c] = "header" -> 2 * (end[c] - at[c]) + 2
      [] stage[c] = "bytes" -> 2 * (end[c] - at[c]) + 1

\* The loop does not run beyond the end it was given.
LEMMA ScanWithin ==
    ASSUME TypeOK, NEW c \in Connections, NEW md, NEW from \in Nat, NEW to \in Nat,
           from > 0, Scan(c, md, from, to)
    PROVE  /\ \/ stage'[c] = "idle"
              \/ stage'[c] = "header" /\ at'[c] \in from..to
           /\ \A d \in Connections \ {c} : stage'[d] = stage[d] /\ at'[d] = at[d]
BY DEF Scan, Stop, EnterSyncOne, TypeOK

LEMMA ScanStaleWithin ==
    ASSUME TypeOK, NEW c \in Connections, ScanStale(c)
    PROVE  /\ \/ stage'[c] = "idle"
              \/ stage'[c] = "header" /\ at'[c] \in at[c] + 1..end[c]
           /\ \A d \in Connections \ {c} : stage'[d] = stage[d] /\ at'[d] = at[d]
BY DEF ScanStale, Stop, EnterSyncOne, TypeOK

\* A pass that goes on after a write has fewer writes left than before.
Shrinks(c) ==
    stage[c] # "idle" =>
        /\ WritesLeft(c)' \in Nat /\ WritesLeft(c) \in Nat
        /\ \/ UNCHANGED <<stage[c], at[c], end[c], pass[c]>>
           \/ WritesLeft(c)' < WritesLeft(c)

\* What a step does to the pass over c, with what it leaves of it.
LEMMA WithinStep ==
    ASSUME WithinInv, [Next]_syncerVars, NEW d \in Connections
    PROVE  Within(d)' /\ Shrinks(d)
<1>0. /\ TypeOK /\ Within(d)
      /\ at[d] \in Nat /\ end[d] \in Nat /\ stage[d] \in Stage
      /\ stage[d] # "idle" => at[d] <= end[d]
  BY DEF WithinInv, Within, TypeOK
<1>1. ASSUME stage'[d] = stage[d], at'[d] = at[d], end'[d] = end[d], pass'[d] = pass[d]
      PROVE  Within(d)' /\ Shrinks(d)
  BY <1>0, <1>1 DEF Within, Shrinks, WritesLeft, Stage
<1>2. ASSUME stage'[d] = "header", at'[d] \in Nat, end'[d] = end[d], at'[d] <= end[d],
             stage[d] = "bytes" /\ at[d] < at'[d]
      PROVE  Within(d)' /\ Shrinks(d)
  BY <1>0, <1>2 DEF Within, Shrinks, WritesLeft
<1>3. ASSUME stage'[d] = "idle", stage[d] = "bytes"
      PROVE  Within(d)' /\ Shrinks(d)
  BY <1>0, <1>3 DEF Within, Shrinks, WritesLeft
<1>4. CASE (\E m \in Message : AddMessage(m)) \/ (\E c \in Connections : ScanCrashes(c))
           \/ UNCHANGED syncerVars
  BY <1>1, <1>4 DEF AddMessage, ScanCrashes, syncerVars
<1>5. ASSUME NEW c \in Connections, NEW md \in SyncMode, Begin(c, md)
      PROVE  Within(d)' /\ Shrinks(d)
  <2>1. /\ stage[c] = "idle"
        /\ end' = [end EXCEPT ![c] = Len(messages)]
        /\ pass' = [pass EXCEPT ![c] = <<>>]
        /\ Scan(c, md, 1, Len(messages))
        /\ Len(messages) \in Nat
    BY <1>0, <1>5 DEF Begin, EndIterator, TypeOK
  <2>2. /\ \/ stage'[c] = "idle"
           \/ stage'[c] = "header" /\ at'[c] \in 1..Len(messages)
        /\ \A e \in Connections \ {c} : stage'[e] = stage[e] /\ at'[e] = at[e]
    BY <1>0, <2>1, ScanWithin
  <2>3. CASE d = c
    BY <1>0, <2>1, <2>2, <2>3 DEF Within, Shrinks, TypeOK
  <2>4. CASE d # c
    BY <1>0, <1>1, <2>1, <2>2, <2>4 DEF TypeOK
  <2> QED
    BY <2>3, <2>4
<1>6. ASSUME NEW c \in Connections, NEW ok \in BOOLEAN, HeaderWritten(c, ok)
      PROVE  Within(d)' /\ Shrinks(d)
  <2>1. /\ stage[c] = "header" /\ stage' = [stage EXCEPT ![c] = "bytes"]
        /\ at' = at /\ end' = end
        /\ \A e \in Connections \ {c} : pass'[e] = pass[e]
    BY <1>0, <1>6 DEF HeaderWritten, TypeOK
  <2>2. CASE d = c
    <3>1. stage'[d] = "bytes" /\ stage[d] = "header"
      BY <1>0, <2>1, <2>2 DEF TypeOK
    <3> QED
      BY <1>0, <2>1, <3>1 DEF Within, Shrinks, WritesLeft
  <2>3. CASE d # c
    BY <1>0, <1>1, <2>1, <2>3 DEF TypeOK
  <2> QED
    BY <2>2, <2>3
<1>7. ASSUME NEW c \in Connections, NEW ok \in BOOLEAN, BytesWritten(c, ok)
      PROVE  Within(d)' /\ Shrinks(d)
  <2>1. /\ stage[c] = "bytes" /\ end' = end
        /\ \A e \in Connections \ {c} : pass'[e] = pass[e]
        /\ Scan(c, mode[c], at[c] + 1, end[c]) \/ ScanStale(c)
        /\ at[c] \in Nat /\ end[c] \in Nat /\ at[c] + 1 \in Nat /\ at[c] + 1 > 0
    BY <1>0, <1>7 DEF BytesWritten, ScanOn, TypeOK
  <2>2. /\ \/ stage'[c] = "idle"
           \/ stage'[c] = "header" /\ at'[c] \in at[c] + 1..end[c]
        /\ \A e \in Connections \ {c} : stage'[e] = stage[e] /\ at'[e] = at[e]
    BY <1>0, <2>1, ScanWithin, ScanStaleWithin
  <2>3. CASE d = c
    BY <1>2, <1>3, <2>1, <2>2, <2>3
  <2>4. CASE d # c
    BY <1>1, <2>1, <2>2, <2>4
  <2> QED
    BY <2>3, <2>4
<1> QED
  BY <1>4, <1>5, <1>6, <1>7 DEF Next, WriteCompletes

LEMMA WithinAlways == Spec => []WithinInv
<1>1. Init => WithinInv
  <2>1. Init => TypeOK
    BY InitTyped
  <2>2. ASSUME Init, NEW c \in Connections
        PROVE  Within(c)
    BY <2>2 DEF Init, Within
  <2> QED
    BY <2>1, <2>2 DEF WithinInv
<1>2. WithinInv /\ [Next]_syncerVars => WithinInv'
  BY TypeStep, WithinStep DEF WithinInv
<1> QED
  BY <1>1, <1>2, PTL DEF Spec

\* A pass is finite, whatever happens meanwhile: the number of writes that are at
\* most left of it is never raised by a message that is added, a vector that is
\* reallocated, a write that fails or another pass, and each write of its own
\* lowers it (the range-for and sync_one, hrafn.cpp:174-203).  That the writes
\* themselves complete is the stream's affair.
THEOREM PassesShrink == Spec => [][\A c \in Connections : Shrinks(c)]_syncerVars
<1>1. WithinInv /\ [Next]_syncerVars => [\A c \in Connections : Shrinks(c)]_syncerVars
  BY WithinStep
<1> QED
  BY <1>1, WithinAlways, PTL DEF Spec
=============================================================================
