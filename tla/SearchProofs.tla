---------------------------- MODULE SearchProofs ----------------------------
(***************************************************************************)
(* Proofs about what is searched for answers, for every number of sources, *)
(* rounds, folders, documents, chunks, scores, builders and models:        *)
(*   questions      types; the numbers of an answer mean the sources that  *)
(*                  were shown under them; sources are stored before they  *)
(*                  are told of; nothing withdrawn is answered from        *)
(*   tools          what they tell was in the pinned scope                 *)
(*   vector index   types, and that no build replaces a newer index        *)
(*   searches       what is returned was visible, in the order of scores.  *)
(***************************************************************************)
EXTENDS Asking, Retrieval, FiniteSetTheorems, TLAPS

(***************************************************************************)
(* Questions.  Nothing is collected before the sources are; from then on   *)
(* what is stored, and what an authorization let through, carries the      *)
(* ranks of the prompt; the model is asked, and the client told, only once *)
(* every source of the prompt is stored; what was withdrawn is hidden      *)
(* still, and once the membership was looked up, hidden from those who     *)
(* have access too; and what a statement has found since is not withdrawn, *)
(* so that an authorization which finds every source proves that none is.  *)
(***************************************************************************)
NothingYet(a) ==
  todo[a] \in {"idle", "opened", "retrieve", "recheck"} =>
    /\ evidence[a] = <<>> /\ checked[a] = {} /\ persisted[a] = {}
    /\ rows[a] = {} /\ told[a] = {} /\ withdrawn[a] = {}

RanksKept(a) == rows[a] \cup checked[a] \subseteq Ranked(evidence[a])

AllChecked(a) ==
  todo[a] \in {"persist", "proceed", "mark", "chat"} =>
    checked[a] = Ranked(evidence[a])

AllStored(a) ==
  /\ told[a] \subseteq persisted[a]
  /\ todo[a] \in {"proceed", "mark", "chat"} => Used(a) \subseteq persisted[a]

StillHidden(a) ==
  /\ withdrawn[a] \subseteq Used(a) \ Visible
  /\ todo[a] = "select" => withdrawn[a] \cap Present = {}

SeenShown(a) ==
  todo[a] = "select" =>
    /\ matched[a] \subseteq DOMAIN evidence[a]
    /\ \A n \in matched[a] : evidence[a][n] \notin withdrawn[a]

FoundAgain(a) ==
  at[a] = "answered" /\ todo[a] \in {"persist", "proceed"} => withdrawn[a] = {}

CompletedAtEnd(a) ==
  message[a] = "completed" =>
    /\ todo[a] \in {"ending", "ended", "closed"} \cup Handling
    /\ mode[a] # "plain" => withdrawn[a] = {}

Sound(a) ==
  /\ NothingYet(a) /\ RanksKept(a) /\ AllChecked(a) /\ AllStored(a)
  /\ StillHidden(a) /\ SeenShown(a) /\ FoundAgain(a) /\ CompletedAtEnd(a)

AskInv == AskTypeOK /\ \A a \in Ask : Sound(a)

\* A ranking lists some elements of a set, each once.
LEMMA RankingFacts ==
  ASSUME NEW S, NEW q \in Rankings(S)
  PROVE  /\ q \in Seq(S)
         /\ Len(q) \in Nat /\ DOMAIN q = 1..Len(q)
         /\ \A n \in 1..Len(q) : q[n] \in S
         /\ \A m, n \in 1..Len(q) : q[m] = q[n] => m = n
<1>1. PICK n \in Nat : q \in [1..n -> S]
  BY DEF Rankings
<1>2. IsInjective(q)
  BY DEF Rankings
<1>3. q \in Seq(S) /\ DOMAIN q = 1..n /\ Len(q) = n
  BY <1>1
<1>4. QED
  BY <1>1, <1>2, <1>3 DEF IsInjective

\* Whatever lists elements of a finite set, each once, is a ranking of it.
LEMMA RankingIntro ==
  ASSUME NEW S, IsFiniteSet(S), NEW q \in Seq(S),
         \A m, n \in 1..Len(q) : q[m] = q[n] => m = n
  PROVE  q \in Rankings(S)
<1>1. Len(q) \in Nat /\ q \in [1..Len(q) -> S]
  OBVIOUS
<1>2. q \in Injection(1..Len(q), S)
  BY <1>1 DEF Injection, IsInjective
<1>3. Cardinality(1..Len(q)) <= Cardinality(S) /\ Cardinality(1..Len(q)) = Len(q)
  BY <1>1, <1>2, FS_Injection, FS_Interval
<1>4. Cardinality(S) \in Nat
  BY FS_CardinalityType
<1>5. Len(q) \in 0..Cardinality(S)
  BY <1>1, <1>3, <1>4
<1>6. IsInjective(q)
  BY <1>1 DEF IsInjective
<1>7. QED
  BY <1>1, <1>5, <1>6 DEF Rankings

\* New sources may follow those of a ranking.
LEMMA RankingAppend ==
  ASSUME NEW S, IsFiniteSet(S), NEW q \in Rankings(S), NEW T, T \subseteq S,
         NEW r \in Rankings(T \ Range(q))
  PROVE  /\ q \o r \in Rankings(S)
         /\ Ranked(q) \subseteq Ranked(q \o r)
         /\ Range(q) \subseteq Range(q \o r)
<1>1. /\ q \in Seq(S) /\ Len(q) \in Nat /\ DOMAIN q = 1..Len(q)
      /\ \A m, n \in 1..Len(q) : q[m] = q[n] => m = n
  BY RankingFacts
<1>2. /\ r \in Seq(T \ Range(q)) /\ Len(r) \in Nat
      /\ \A n \in 1..Len(r) : r[n] \in T \ Range(q)
      /\ \A m, n \in 1..Len(r) : r[m] = r[n] => m = n
  BY RankingFacts
<1>3. r \in Seq(S)
  BY <1>2
<1>4. /\ q \o r \in Seq(S) /\ Len(q \o r) = Len(q) + Len(r)
      /\ \A n \in 1..(Len(q) + Len(r)) :
           (q \o r)[n] = IF n <= Len(q) THEN q[n] ELSE r[n - Len(q)]
  BY <1>1, <1>2, <1>3
<1>5. \A n \in 1..Len(q) : q[n] \in Range(q)
  BY <1>1 DEF Range
<1>6. ASSUME NEW m \in 1..Len(q \o r), NEW n \in 1..Len(q \o r),
             (q \o r)[m] = (q \o r)[n]
      PROVE  m = n
  <2>1. CASE m <= Len(q) /\ n <= Len(q)
    BY <1>1, <1>2, <1>4, <1>6, <2>1
  <2>2. CASE m > Len(q) /\ n > Len(q)
    <3>1. m - Len(q) \in 1..Len(r) /\ n - Len(q) \in 1..Len(r)
      BY <1>1, <1>2, <1>4, <2>2
    <3>2. r[m - Len(q)] = r[n - Len(q)]
      BY <1>1, <1>2, <1>4, <1>6, <2>2
    <3>3. m - Len(q) = n - Len(q)
      BY <1>2, <3>1, <3>2
    <3>4. QED
      BY <1>1, <1>2, <1>4, <3>3
  <2>3. CASE m <= Len(q) /\ n > Len(q)
    BY <1>1, <1>2, <1>4, <1>5, <1>6, <2>3
  <2>4. CASE m > Len(q) /\ n <= Len(q)
    BY <1>1, <1>2, <1>4, <1>5, <1>6, <2>4
  <2>5. QED
    BY <1>1, <1>2, <1>4, <2>1, <2>2, <2>3, <2>4
<1>7. q \o r \in Rankings(S)
  BY <1>4, <1>6, RankingIntro
<1>8. \A n \in 1..Len(q) : n \in DOMAIN (q \o r) /\ (q \o r)[n] = q[n]
  BY <1>1, <1>2, <1>4
<1>9. QED
  BY <1>1, <1>7, <1>8 DEF Ranked, Range

\* When every source was found again, each keeps its number.
LEMMA ApprovedAll ==
  ASSUME NEW a \in Ask, evidence[a] \in Rankings(Source), AllApproved(a)
  PROVE  Approved(a) = Ranked(evidence[a])
<1> DEFINE q == evidence[a]
           kept == matched[a]
<1>1. Len(q) \in Nat /\ DOMAIN q = 1..Len(q)
  BY RankingFacts
<1>2. kept = 1..Len(q)
  BY <1>1 DEF AllApproved
<1>3. ASSUME NEW n \in kept
      PROVE  Cardinality(kept \cap 1..n) = n
  <2>1. kept \cap 1..n = 1..n /\ n \in Nat /\ n >= 1
    BY <1>1, <1>2
  <2>2. Cardinality(1..n) = IF 1 > n THEN 0 ELSE n - 1 + 1
    BY <2>1, FS_Interval
  <2>3. Cardinality(1..n) = n
    BY <2>1, <2>2
  <2>4. QED
    BY <2>1, <2>3
<1>4. {<<Cardinality(kept \cap 1..n), q[n]>> : n \in kept} = {<<n, q[n]>> : n \in kept}
  <2> HIDE DEF kept, q
  <2>1. QED
    BY <1>3
<1>5. {<<n, q[n]>> : n \in kept} = Ranked(q)
  BY <1>1, <1>2 DEF Ranked
<1>6. QED
  BY <1>4, <1>5 DEF Approved

\* The sources of a numbered list are those of the list.
LEMMA RankedSources ==
  ASSUME NEW q
  PROVE  Sources(Ranked(q)) = Range(q)
<1>1. ASSUME NEW s \in Sources(Ranked(q))
      PROVE  s \in Range(q)
  <2>1. PICK n \in DOMAIN q : s = <<n, q[n]>>[2]
    BY <1>1 DEF Sources, Ranked
  <2>2. QED
    BY <2>1 DEF Range
<1>2. ASSUME NEW n \in DOMAIN q
      PROVE  q[n] \in Sources(Ranked(q))
  <2>1. <<n, q[n]>> \in Ranked(q) /\ <<n, q[n]>>[2] = q[n]
    BY DEF Ranked
  <2>2. QED
    BY <2>1, Zenon DEF Sources
<1>3. QED
  BY <1>1, <1>2 DEF Range

\* The numbers of a ranking are no more than there are sources.
LEMMA RankedTyped ==
  ASSUME NEW q \in Rankings(Source)
  PROVE  Ranked(q) \in SUBSET ((1..Cardinality(Source)) \X Source)
<1>1. PICK n \in 0..Cardinality(Source) : q \in [1..n -> Source]
  BY DEF Rankings
<1>2. Cardinality(Source) \in Nat
  BY SourceAssumption, FS_CardinalityType
<1>3. \A m \in DOMAIN q : <<m, q[m]>> \in (1..Cardinality(Source)) \X Source
  BY <1>1, <1>2
<1>4. QED
  BY <1>3 DEF Ranked

\* One question's part of a state.
Same(b) ==
  /\ todo'[b] = todo[b] /\ at'[b] = at[b] /\ mode'[b] = mode[b]
  /\ evidence'[b] = evidence[b] /\ checked'[b] = checked[b]
  /\ persisted'[b] = persisted[b] /\ message'[b] = message[b]
  /\ rows'[b] = rows[b] /\ told'[b] = told[b] /\ withdrawn'[b] = withdrawn[b]
  /\ matched'[b] = matched[b]

\* A question that a step leaves alone stays sound.
LEMMA SameSound ==
  ASSUME NEW b \in Ask, Sound(b), Same(b), UNCHANGED <<access, hidden, deleted>>
  PROVE  Sound(b)'
<1>1. /\ Visible' = Visible /\ Present' = Present
      /\ Used(b)' = Used(b) /\ Ranked(evidence'[b]) = Ranked(evidence[b])
  BY DEF Same, Visible, Present, Used
<1>2. NothingYet(b)' /\ RanksKept(b)' /\ AllChecked(b)' /\ AllStored(b)'
  BY <1>1 DEF Sound, Same, NothingYet, RanksKept, AllChecked, AllStored
<1>3. StillHidden(b)' /\ SeenShown(b)' /\ FoundAgain(b)' /\ CompletedAtEnd(b)'
  BY <1>1 DEF Sound, Same, StillHidden, SeenShown, FoundAgain, CompletedAtEnd
<1>4. QED
  BY <1>2, <1>3 DEF Sound

\* Whoever goes on forgets what an authorization of it has found.
LEMMA GotoFacts ==
  ASSUME AskTypeOK, NEW a \in Ask, NEW next \in Step, Goto(a, next)
  PROVE  /\ todo' \in [Ask -> Step] /\ todo'[a] = next
         /\ looked' \in [Ask -> Nat]
         /\ matched' \in [Ask -> SUBSET (1..Cardinality(Source))]
         /\ \A b \in Ask \ {a} : todo'[b] = todo[b] /\ matched'[b] = matched[b]
<1>1. /\ looked \in [Ask -> Nat] /\ todo \in [Ask -> Step]
      /\ matched \in [Ask -> SUBSET (1..Cardinality(Source))]
  BY DEF AskTypeOK
<1>2. {} \in SUBSET (1..Cardinality(Source)) /\ 0 \in Nat
  OBVIOUS
<1>3. QED
  BY <1>1, <1>2 DEF Goto

\* Where a question may go without anything being collected or stored.
MayGo(a, next) ==
  /\ next # "select"
  /\ next \in {"idle", "opened", "retrieve", "recheck"} =>
       todo[a] \in {"idle", "opened", "retrieve", "recheck"}
  /\ next \in {"persist", "proceed", "mark", "chat"} =>
       checked[a] = Ranked(evidence[a])
  /\ next \in {"proceed", "mark", "chat"} => Used(a) \subseteq persisted[a]
  /\ next \in {"persist", "proceed"} => at[a] # "answered" \/ withdrawn[a] = {}

\* A step that only goes on, and may write a status.
LEMMA QuietSound ==
  ASSUME AskInv, NEW a \in Ask, NEW next \in Step, Goto(a, next), MayGo(a, next),
         UNCHANGED <<local, rows, world, history>>,
         message' \in [Ask -> Status],
         \A b \in Ask \ {a} : message'[b] = message[b],
         message'[a] = "completed" =>
           /\ next \in {"ending", "ended", "closed"} \cup Handling
           /\ mode[a] # "plain" => withdrawn[a] = {}
  PROVE  AskInv'
<1>1. /\ todo' \in [Ask -> Step] /\ todo'[a] = next
      /\ looked' \in [Ask -> Nat] /\ matched' \in [Ask -> SUBSET (1..Cardinality(Source))]
      /\ \A b \in Ask \ {a} : todo'[b] = todo[b] /\ matched'[b] = matched[b]
  BY GotoFacts DEF AskInv
<1>2. AskTypeOK'
  BY <1>1 DEF AskInv, AskTypeOK, local, world, history
<1>3. ASSUME NEW b \in Ask, b # a
      PROVE  Sound(b)'
  BY <1>1, <1>3, SameSound DEF AskInv, Same, local, world, history
<1>4. Visible' = Visible /\ Used(a)' = Used(a)
  BY DEF Visible, Present, Used, local, world
<1>5. NothingYet(a)' /\ RanksKept(a)' /\ AllChecked(a)' /\ AllStored(a)'
  BY <1>1, <1>4
  DEF AskInv, Sound, MayGo, NothingYet, RanksKept, AllChecked, AllStored, local,
      history
<1>6. StillHidden(a)' /\ SeenShown(a)' /\ FoundAgain(a)' /\ CompletedAtEnd(a)'
  BY <1>1, <1>4
  DEF AskInv, Sound, MayGo, StillHidden, SeenShown, FoundAgain, CompletedAtEnd, local,
      history
<1>7. QED
  BY <1>2, <1>3, <1>5, <1>6 DEF AskInv, Sound

\* A question that ends: the status is written unless there is no message.
LEMMA EndSound ==
  ASSUME AskInv, NEW a \in Ask, NEW next \in {"ending", "ended", "closed"} \cup Handling,
         Goto(a, next), UNCHANGED <<local, rows, world, history>>,
         \/ UNCHANGED message
         \/ \E s \in {"failed", "cancelled", "knowledge_gap"} : Complete(a, s)
         \/ Complete(a, "completed") /\ (mode[a] # "plain" => withdrawn[a] = {})
  PROVE  AskInv'
<1>1. message \in [Ask -> Status]
  BY DEF AskInv, AskTypeOK
<1>2. /\ message' \in [Ask -> Status]
      /\ \A b \in Ask \ {a} : message'[b] = message[b]
  BY <1>1 DEF Complete, Status, Final
<1>3. message'[a] = "completed" => (mode[a] # "plain" => withdrawn[a] = {})
  BY <1>1 DEF AskInv, Sound, CompletedAtEnd, Complete
<1>4. next \in Step /\ MayGo(a, next)
  BY DEF Step, MayGo, Handling
<1>5. QED
  BY <1>2, <1>3, <1>4, QuietSound

\* A question that begins, is prompted, or asks a tool.
LEMMA GoSound ==
  ASSUME AskInv, NEW a \in Ask,
         \/ Open(a) \/ OpenBounded(a) \/ Store(a) \/ StoreBounded(a)
         \/ Mark(a) \/ Call(a) \/ Prompt(a)
  PROVE  AskInv'
<1>1. message \in [Ask -> Status]
  BY DEF AskInv, AskTypeOK
<1>2. ASSUME NEW s \in {"pending", "streaming"}, NEW next \in Step, Goto(a, next),
             MayGo(a, next), UNCHANGED <<local, rows, world, history>>,
             \/ message' = [message EXCEPT ![a] = s]
             \/ message' = [message EXCEPT ![a] = IF @ = "none" THEN @ ELSE s]
      PROVE  AskInv'
  <2>1. /\ message' \in [Ask -> Status]
        /\ \A b \in Ask \ {a} : message'[b] = message[b]
        /\ message'[a] # "completed"
    BY <1>1, <1>2 DEF Status, Final
  <2>2. QED
    BY <1>2, <2>1, QuietSound
<1>3. ASSUME NEW next \in Step, Goto(a, next), MayGo(a, next),
             UNCHANGED <<local, rows, world, history, message>>,
             todo[a] \notin {"ending", "ended", "closed"} \cup Handling
      PROVE  AskInv'
  <2>1. message[a] # "completed"
    BY <1>3 DEF AskInv, Sound, CompletedAtEnd
  <2>2. QED
    BY <1>1, <1>3, <2>1, QuietSound
<1>4. CASE Opened(a)
  <2>1. "opened" \in Step /\ MayGo(a, "opened") /\ todo[a] = "idle"
    BY <1>4 DEF Opened, Step, MayGo
  <2>2. QED
    BY <1>3, <1>4, <2>1 DEF Opened, Handling
<1>5. ASSUME NEW next \in {"chat", "retrieve"}, Inserted(a, next)
      PROVE  AskInv'
  <2>1. /\ evidence[a] = <<>> /\ checked[a] = {} /\ todo[a] = "opened"
    BY <1>5 DEF Inserted, AskInv, Sound, NothingYet
  <2>2. Ranked(<<>>) = {} /\ Range(<<>>) = {}
    BY DEF Ranked, Range
  <2>3. MayGo(a, next) /\ MayGo(a, "ended")
    BY <2>1, <2>2 DEF MayGo, Used
  <2>4. next \in Step /\ "ended" \in Step
    BY DEF Step
  <2>5. CASE message' = [message EXCEPT ![a] = "pending"] /\ Goto(a, next)
    BY <1>2, <1>5, <2>3, <2>4, <2>5 DEF Inserted
  <2>6. CASE UNCHANGED message /\ Goto(a, "ended")
    BY <1>3, <1>5, <2>1, <2>3, <2>4, <2>6 DEF Inserted, Handling
  <2>7. QED
    BY <1>5, <2>5, <2>6 DEF Inserted
<1>6. CASE Store(a) \/ StoreBounded(a)
  BY <1>5, <1>6 DEF Store, StoreBounded
<1>7. CASE Mark(a)
  <2>1. "chat" \in Step /\ MayGo(a, "chat")
    BY <1>7 DEF Mark, Step, MayGo, AskInv, Sound, AllChecked, AllStored
  <2>2. QED
    BY <1>2, <1>7, <2>1 DEF Mark
<1>8. CASE Call(a)
  <2>1. "tools" \in Step /\ MayGo(a, "tools") /\ todo[a] = "chat"
    BY <1>8 DEF Call, Step, MayGo
  <2>2. QED
    BY <1>3, <1>8, <2>1 DEF Call, Handling
<1>9. CASE Prompt(a)
  <2>1. "mark" \in Step /\ MayGo(a, "mark") /\ todo[a] = "proceed"
    BY <1>9 DEF Prompt, Step, MayGo, AskInv, Sound, AllChecked, AllStored
  <2>2. QED
    BY <1>3, <1>9, <2>1 DEF Prompt, Handling
<1>10. QED
  BY <1>4, <1>6, <1>7, <1>8, <1>9 DEF Open, OpenBounded

\* A step of one question that touches nothing of the others.
LEMMA OneQuestion ==
  ASSUME AskInv, NEW a \in Ask, AskTypeOK', Sound(a)',
         UNCHANGED <<access, hidden, deleted>>,
         \A b \in Ask \ {a} : Same(b)
  PROVE  AskInv'
BY SameSound DEF AskInv

\* A persisted source keeps the number it had in the prompt.
LEMMA PersistSound ==
  ASSUME AskInv, NEW a \in Ask, Persist(a)
  PROVE  AskInv'
<1> DEFINE new == {pair \in checked[a] : pair[2] \notin persisted[a]}
<1>1. /\ rows' = [rows EXCEPT ![a] = rows[a] \cup new]
      /\ persisted' = [persisted EXCEPT ![a] = persisted[a] \cup Sources(checked[a])]
      /\ Goto(a, "proceed")
      /\ UNCHANGED <<at, mode, round, evidence, checked, message, world, history>>
      /\ todo[a] = "persist"
  BY DEF Persist
<1>2. checked[a] = Ranked(evidence[a]) /\ Sources(checked[a]) = Used(a)
  BY <1>1, RankedSources DEF AskInv, Sound, AllChecked, Used
<1>3. Used(a) \subseteq Source
  <2>1. evidence[a] \in Rankings(Source)
    BY DEF AskInv, AskTypeOK
  <2>2. QED
    BY <2>1, RankingFacts DEF Used, Range
<1>4. new \subseteq checked[a]
  OBVIOUS
<1> HIDE DEF new
<1> "proceed" \in Step
  BY DEF Step
<1>5. AskTypeOK'
  BY <1>1, <1>2, <1>3, <1>4, GotoFacts DEF AskInv, AskTypeOK, world, history
<1>6. \A b \in Ask \ {a} : Same(b)
  BY <1>1, GotoFacts DEF AskInv, AskTypeOK, Same, history
<1>7. /\ todo'[a] = "proceed" /\ rows'[a] = rows[a] \cup new
      /\ persisted'[a] = persisted[a] \cup Used(a)
  BY <1>1, <1>2, GotoFacts DEF AskInv, AskTypeOK
<1>8. Visible' = Visible /\ Used(a)' = Used(a)
  BY <1>1 DEF Visible, Present, Used, world
<1>9. NothingYet(a)' /\ RanksKept(a)' /\ AllChecked(a)' /\ AllStored(a)'
  BY <1>1, <1>2, <1>4, <1>7, <1>8
  DEF AskInv, Sound, NothingYet, RanksKept, AllChecked, AllStored, history
<1>10. StillHidden(a)' /\ SeenShown(a)' /\ FoundAgain(a)' /\ CompletedAtEnd(a)'
  BY <1>1, <1>7, <1>8
  DEF AskInv, Sound, StillHidden, SeenShown, FoundAgain, CompletedAtEnd, Handling, history
<1>11. QED
  BY <1>1, <1>5, <1>6, <1>9, <1>10, OneQuestion DEF Sound, world

\* A question that is searched for, and given its sources.
LEMMA SourcesSound ==
  ASSUME AskInv, NEW a \in Ask,
         Retrieve(a) \/ Recheck(a) \/ RetrieveBounded(a) \/ RecheckBounded(a)
  PROVE  AskInv'
<1>1. ASSUME \/ \E s \in {"knowledge_gap", "cancelled"} : Settle(a, s)
             \/ Handle(a, "cancelling")
      PROVE  AskInv'
  BY <1>1, EndSound DEF Settle, Handle, Handling
<1>2. ASSUME todo[a] = "retrieve", Searched(a)
      PROVE  AskInv'
  <2>1. "recheck" \in Step /\ MayGo(a, "recheck") /\ message[a] # "completed"
    BY <1>2 DEF Step, MayGo, AskInv, Sound, CompletedAtEnd, Handling
  <2>2. message \in [Ask -> Status]
    BY DEF AskInv, AskTypeOK
  <2>3. QED
    BY <1>2, <2>1, <2>2, QuietSound DEF Searched
<1>3. ASSUME todo[a] = "recheck", NEW found \in Rankings(Visible), Supplied(a, found)
      PROVE  AskInv'
  <2>1. /\ evidence' = [evidence EXCEPT ![a] = found]
        /\ checked' = [checked EXCEPT ![a] = Ranked(found)]
        /\ Goto(a, "persist") /\ "persist" \in Step
        /\ UNCHANGED <<at, mode, round, persisted, message, rows, world, history>>
    BY <1>3 DEF Supplied, Step
  <2>2. /\ persisted[a] = {} /\ rows[a] = {} /\ told[a] = {} /\ withdrawn[a] = {}
        /\ message[a] # "completed"
    BY <1>3 DEF AskInv, Sound, NothingYet, CompletedAtEnd, Handling
  <2>3. /\ found \in Rankings(Source)
        /\ Ranked(found) \in SUBSET ((1..Cardinality(Source)) \X Source)
    <3>1. /\ found \in Seq(Visible) /\ Len(found) \in Nat /\ DOMAIN found = 1..Len(found)
          /\ \A n \in 1..Len(found) : found[n] \in Visible
          /\ \A m, n \in 1..Len(found) : found[m] = found[n] => m = n
      BY RankingFacts
    <3>2. Visible \subseteq Source
      BY DEF Visible, Present
    <3>3. found \in Seq(Source)
      BY <3>1, <3>2
    <3>4. found \in Rankings(Source)
      BY <3>1, <3>3, RankingIntro, SourceAssumption
    <3>5. QED
      BY <3>4, RankedTyped
  <2>4. AskTypeOK'
    BY <2>1, <2>3, GotoFacts DEF AskInv, AskTypeOK, world, history
  <2>5. \A b \in Ask \ {a} : Same(b)
    BY <2>1, GotoFacts DEF AskInv, AskTypeOK, Same, history
  <2>6. /\ todo'[a] = "persist" /\ evidence'[a] = found /\ checked'[a] = Ranked(found)
        /\ persisted'[a] = {} /\ rows'[a] = {} /\ told'[a] = {} /\ withdrawn'[a] = {}
        /\ message'[a] # "completed"
    BY <2>1, <2>2, GotoFacts DEF AskInv, AskTypeOK, history
  <2>7. Sound(a)'
    BY <2>6
    DEF Sound, NothingYet, RanksKept, AllChecked, AllStored, StillHidden, SeenShown, FoundAgain,
        CompletedAtEnd
  <2>8. QED
    BY <2>1, <2>4, <2>5, <2>7, OneQuestion DEF world
<1>4. CASE Retrieve(a)
  BY <1>1, <1>2, <1>4 DEF Retrieve
<1>5. CASE RetrieveBounded(a)
  BY <1>1, <1>2, <1>5 DEF RetrieveBounded
<1>6. CASE Recheck(a)
  BY <1>1, <1>3, <1>6 DEF Recheck
<1>7. CASE RecheckBounded(a)
  BY <1>1, <1>3, <1>7 DEF RecheckBounded
<1>8. QED
  BY <1>4, <1>5, <1>6, <1>7

\* The membership is looked up: what is hidden then is what is to be found.
LEMMA RequireSound ==
  ASSUME AskInv, NEW a \in Ask, RequireKb(a)
  PROVE  AskInv'
<1>1. /\ todo[a] = "authorize" /\ access /\ Goto(a, "select") /\ "select" \in Step
      /\ withdrawn' = [withdrawn EXCEPT ![a] =
                         IF at[a] = "answered" THEN Used(a) \ Present ELSE @]
      /\ UNCHANGED <<at, mode, round, evidence, checked, persisted,
                     message, rows, world, told>>
  BY DEF RequireKb, Step
<1>2. Used(a) \subseteq Source
  <2>1. evidence[a] \in Rankings(Source)
    BY DEF AskInv, AskTypeOK
  <2>2. QED
    BY <2>1, RankingFacts DEF Used, Range
<1>3. withdrawn' \in [Ask -> SUBSET Source]
  BY <1>1, <1>2 DEF AskInv, AskTypeOK
<1>4. AskTypeOK'
  BY <1>1, <1>3, GotoFacts DEF AskInv, AskTypeOK, world
<1>5. \A b \in Ask \ {a} : Same(b)
  BY <1>1, GotoFacts DEF AskInv, AskTypeOK, Same
<1>6. /\ todo'[a] = "select" /\ matched'[a] = {}
      /\ withdrawn'[a] = IF at[a] = "answered" THEN Used(a) \ Present ELSE withdrawn[a]
  BY <1>1, GotoFacts DEF AskInv, AskTypeOK, Goto
<1>7. Visible' = Visible /\ Visible = Present /\ Present' = Present /\ Used(a)' = Used(a)
  BY <1>1 DEF Visible, Present, Used, world
<1>8. message[a] # "completed"
  BY <1>1 DEF AskInv, Sound, CompletedAtEnd, Handling
<1>9. NothingYet(a)' /\ RanksKept(a)' /\ AllChecked(a)' /\ AllStored(a)'
  BY <1>1, <1>6, <1>7
  DEF AskInv, Sound, NothingYet, RanksKept, AllChecked, AllStored
<1>10. StillHidden(a)' /\ SeenShown(a)' /\ FoundAgain(a)' /\ CompletedAtEnd(a)'
  BY <1>1, <1>6, <1>7, <1>8
  DEF AskInv, Sound, StillHidden, SeenShown, FoundAgain, CompletedAtEnd
<1>11. QED
  BY <1>1, <1>4, <1>5, <1>9, <1>10, OneQuestion DEF Sound, world

\* A statement looks for sources: what it finds is there, and is not hidden since
\* the membership was looked up.
LEMMA SelectSound ==
  ASSUME AskInv, NEW a \in Ask, SelectSource(a) \/ SelectAgain(a)
  PROVE  AskInv'
<1>1. PICK found : Select(a, found) /\ found \subseteq DOMAIN evidence[a]
  <2>1. /\ Len(evidence[a]) \in Nat /\ DOMAIN evidence[a] = 1..Len(evidence[a])
        /\ looked[a] \in Nat
    BY RankingFacts DEF AskInv, AskTypeOK
  <2>2. SelectSource(a) => {looked[a] + 1} \subseteq DOMAIN evidence[a]
    BY <2>1 DEF SelectSource
  <2>3. QED
    BY <2>2 DEF SelectSource, SelectAgain
<1> DEFINE new == {n \in found : evidence[a][n] \in Present}
<1>2. /\ todo[a] = "select"
      /\ looked' = [looked EXCEPT ![a] = looked[a] + 1]
      /\ matched' = [matched EXCEPT ![a] = matched[a] \cup new]
      /\ UNCHANGED <<todo, at, mode, round, evidence, checked, persisted,
                     message, rows, world, history>>
  BY <1>1 DEF Select
<1>3. DOMAIN evidence[a] \subseteq 1..Cardinality(Source)
  <2>1. evidence[a] \in Rankings(Source)
    BY DEF AskInv, AskTypeOK
  <2>2. PICK n \in 0..Cardinality(Source) : evidence[a] \in [1..n -> Source]
    BY <2>1 DEF Rankings
  <2>3. Cardinality(Source) \in Nat
    BY SourceAssumption, FS_CardinalityType
  <2>4. QED
    BY <2>2, <2>3
<1>4. /\ new \subseteq DOMAIN evidence[a]
      /\ \A n \in new : evidence[a][n] \in Present
  BY <1>1
<1> HIDE DEF new
<1>5. looked' \in [Ask -> Nat] /\ matched' \in [Ask -> SUBSET (1..Cardinality(Source))]
  BY <1>2, <1>3, <1>4 DEF AskInv, AskTypeOK
<1>6. AskTypeOK'
  BY <1>2, <1>5 DEF AskInv, AskTypeOK, world, history
<1>7. matched'[a] = matched[a] \cup new /\ \A b \in Ask \ {a} : Same(b)
  BY <1>2 DEF AskInv, AskTypeOK, Same, history
<1>8. Visible' = Visible /\ Present' = Present /\ Used(a)' = Used(a)
  BY <1>2 DEF Visible, Present, Used, world
<1>9. NothingYet(a)' /\ RanksKept(a)' /\ AllChecked(a)' /\ AllStored(a)'
  BY <1>2, <1>8
  DEF AskInv, Sound, NothingYet, RanksKept, AllChecked, AllStored, history
<1>10. StillHidden(a)' /\ SeenShown(a)' /\ FoundAgain(a)' /\ CompletedAtEnd(a)'
  BY <1>2, <1>4, <1>7, <1>8
  DEF AskInv, Sound, StillHidden, SeenShown, FoundAgain, CompletedAtEnd, history
<1>11. QED
  BY <1>2, <1>6, <1>7, <1>9, <1>10, OneQuestion DEF Sound, world

\* Where every source was found since the membership was looked up, none of them
\* is withdrawn.
LEMMA NoneWithdrawn ==
  ASSUME AskInv, NEW a \in Ask, todo[a] = "select", matched[a] = DOMAIN evidence[a]
  PROVE  withdrawn[a] = {}
<1>1. withdrawn[a] \subseteq Used(a)
  BY DEF AskInv, Sound, StillHidden
<1>2. \A s \in Used(a) : s \notin withdrawn[a]
  BY DEF AskInv, Sound, SeenShown, Used, Range
<1>3. QED
  BY <1>1, <1>2

\* An agent's sources are authorized: all of them, with the numbers they have.
LEMMA AuthorizeSound ==
  ASSUME AskInv, NEW a \in Ask, Authorize(a)
  PROVE  AskInv'
<1> DEFINE next == IF Stored(a) THEN "proceed" ELSE "persist"
<1>1. evidence[a] \in Rankings(Source) /\ AllApproved(a) /\ todo[a] = "select"
  BY DEF Authorize, AskInv, AskTypeOK
<1>2. Approved(a) = Ranked(evidence[a])
  BY <1>1, ApprovedAll
<1>3. next = "proceed" => Used(a) \subseteq persisted[a]
  BY <1>2, RankedSources DEF Stored, Used
<1>4. next \in {"persist", "proceed"} /\ next \in Step
  BY DEF Step
<1>5. /\ checked' = [checked EXCEPT ![a] = Ranked(evidence[a])]
      /\ Goto(a, next)
      /\ UNCHANGED <<at, mode, round, evidence, persisted, message, rows, world, history>>
  BY <1>2 DEF Authorize
<1> HIDE DEF next
<1>6. withdrawn[a] = {}
  BY <1>1, NoneWithdrawn DEF AllApproved
<1>7. Ranked(evidence[a]) \in SUBSET ((1..Cardinality(Source)) \X Source)
  BY <1>1, RankedTyped
<1>8. AskTypeOK'
  BY <1>4, <1>5, <1>7, GotoFacts DEF AskInv, AskTypeOK, world, history
<1>9. \A b \in Ask \ {a} : Same(b)
  BY <1>4, <1>5, GotoFacts DEF AskInv, AskTypeOK, Same, history
<1>10. todo'[a] = next /\ checked'[a] = Ranked(evidence[a]) /\ withdrawn'[a] = {}
  BY <1>4, <1>5, <1>6, GotoFacts DEF AskInv, AskTypeOK, history
<1>11. Visible' = Visible /\ Used(a)' = Used(a)
  BY <1>5 DEF Visible, Present, Used, world
<1>12. message[a] # "completed"
  BY <1>1 DEF AskInv, Sound, CompletedAtEnd, Handling
<1>13. NothingYet(a)' /\ RanksKept(a)' /\ AllChecked(a)' /\ AllStored(a)'
  BY <1>3, <1>4, <1>5, <1>10, <1>11
  DEF AskInv, Sound, NothingYet, RanksKept, AllChecked, AllStored, history
<1>14. StillHidden(a)' /\ SeenShown(a)' /\ FoundAgain(a)' /\ CompletedAtEnd(a)'
  BY <1>4, <1>5, <1>10, <1>12 DEF StillHidden, SeenShown, FoundAgain, CompletedAtEnd
<1>15. QED
  BY <1>5, <1>8, <1>9, <1>13, <1>14, OneQuestion DEF Sound, world

\* A bounded answer is verified.
LEMMA VerifySound ==
  ASSUME AskInv, NEW a \in Ask, Verify(a)
  PROVE  AskInv'
<1>1. CASE StillFound(a) /\ Settle(a, "completed")
  <2>1. withdrawn[a] = {}
    BY <1>1, NoneWithdrawn DEF Verify, StillFound
  <2>2. QED
    BY <1>1, <2>1, EndSound DEF Settle
<1>2. CASE Handle(a, "cancelling")
  BY <1>2, EndSound DEF Handle, Handling
<1>3. QED
  BY <1>1, <1>2 DEF Verify

\* The client is told of what is stored.
LEMMA DeltaSound ==
  ASSUME AskInv, NEW a \in Ask, Delta(a)
  PROVE  AskInv'
<1>1. /\ told' = [told EXCEPT ![a] = told[a] \cup Used(a)] /\ todo[a] = "chat"
      /\ UNCHANGED <<todo, local, lookup, message, rows, world, withdrawn>>
  BY DEF Delta
<1>2. Used(a) \subseteq persisted[a] /\ persisted[a] \subseteq Source
  BY <1>1 DEF AskInv, AskTypeOK, Sound, AllStored
<1>3. told'[a] = told[a] \cup Used(a) /\ \A b \in Ask \ {a} : told'[b] = told[b]
  BY <1>1 DEF AskInv, AskTypeOK
<1>4. AskTypeOK'
  BY <1>1, <1>2 DEF AskInv, AskTypeOK, local, lookup, world
<1>5. \A b \in Ask \ {a} : Same(b)
  BY <1>1, <1>3 DEF Same, local, lookup
<1>6. Visible' = Visible /\ Used(a)' = Used(a)
  BY <1>1 DEF Visible, Present, Used, local, world
<1>7. NothingYet(a)' /\ RanksKept(a)' /\ AllChecked(a)' /\ AllStored(a)'
  BY <1>1, <1>2, <1>3, <1>6
  DEF AskInv, Sound, NothingYet, RanksKept, AllChecked, AllStored, local
<1>8. StillHidden(a)' /\ SeenShown(a)' /\ FoundAgain(a)' /\ CompletedAtEnd(a)'
  BY <1>1, <1>6 DEF AskInv, Sound, StillHidden, SeenShown, FoundAgain, CompletedAtEnd, local
<1>9. QED
  BY <1>1, <1>4, <1>5, <1>7, <1>8, OneQuestion DEF Sound, world

\* The model has answered.
LEMMA AnswerSound ==
  ASSUME AskInv, NEW a \in Ask, Answer(a) \/ AnswerBounded(a) \/ AnswerAgent(a)
  PROVE  AskInv'
<1>1. PICK next \in {"ending", "authorize"} :
        /\ Answered(a, next)
        /\ \/ next = "ending" /\ mode[a] = "plain" /\ Complete(a, "completed")
           \/ next # "ending" /\ UNCHANGED message
  BY DEF Answer, AnswerBounded, AnswerAgent
<1>2. /\ todo[a] = "chat" /\ Goto(a, next) /\ next \in Step
      /\ at' = [at EXCEPT ![a] = "answered"]
      /\ withdrawn' = [withdrawn EXCEPT ![a] = Used(a) \ Visible]
      /\ UNCHANGED <<mode, round, evidence, checked, persisted, rows, world, told>>
  BY <1>1 DEF Answered, Step
<1>3. message[a] # "completed" /\ Used(a) \subseteq Source
  <2>1. evidence[a] \in Rankings(Source)
    BY DEF AskInv, AskTypeOK
  <2>2. Used(a) \subseteq Source
    BY <2>1, RankingFacts DEF Used, Range
  <2>3. QED
    BY <1>2, <2>2 DEF AskInv, Sound, CompletedAtEnd, Handling
<1>4. /\ message' \in [Ask -> Status] /\ \A b \in Ask \ {a} : message'[b] = message[b]
      /\ message'[a] = "completed" => next = "ending" /\ mode[a] = "plain"
  <2>1. message \in [Ask -> Status]
    BY DEF AskInv, AskTypeOK
  <2>2. QED
    BY <1>1, <1>3, <2>1 DEF Complete, Status, Final
<1>5. AskTypeOK'
  <2>1. todo' \in [Ask -> Step] /\ at' \in [Ask -> Point]
        /\ withdrawn' \in [Ask -> SUBSET Source]
    BY <1>2, <1>3, GotoFacts DEF AskInv, AskTypeOK, Point
  <2>2. QED
    BY <1>2, <1>4, <2>1, GotoFacts DEF AskInv, AskTypeOK, world
<1>6. \A b \in Ask \ {a} : Same(b)
  BY <1>2, <1>4, GotoFacts DEF AskInv, AskTypeOK, Same
<1>7. todo'[a] = next /\ withdrawn'[a] = Used(a) \ Visible
  BY <1>2, GotoFacts DEF AskInv, AskTypeOK
<1>8. Visible' = Visible /\ Used(a)' = Used(a)
  BY <1>2 DEF Visible, Present, Used, world
<1>9. NothingYet(a)' /\ RanksKept(a)' /\ AllChecked(a)' /\ AllStored(a)'
  BY <1>2, <1>7, <1>8
  DEF AskInv, Sound, NothingYet, RanksKept, AllChecked, AllStored
<1>10. StillHidden(a)' /\ SeenShown(a)' /\ FoundAgain(a)' /\ CompletedAtEnd(a)'
  BY <1>1, <1>2, <1>4, <1>7, <1>8 DEF StillHidden, SeenShown, FoundAgain, CompletedAtEnd
<1>11. QED
  BY <1>2, <1>5, <1>6, <1>9, <1>10, OneQuestion DEF Sound, world

\* A tool returns more sources.
LEMMA ToolSound ==
  ASSUME AskInv, NEW a \in Ask, Tool(a)
  PROVE  AskInv'
<1>1. PICK found \in Rankings(Visible \ Used(a)) :
        evidence' = [evidence EXCEPT ![a] = evidence[a] \o found]
  BY DEF Tool
<1>2. /\ todo[a] = "tools"
      /\ UNCHANGED <<todo, at, mode, round, checked, persisted, lookup, message, rows,
                     world, history>>
  BY DEF Tool
<1> DEFINE q == evidence[a]
           r == q \o found
<1>3. /\ r \in Rankings(Source) /\ Ranked(q) \subseteq Ranked(r)
      /\ Range(q) \subseteq Range(r)
  <2>1. q \in Rankings(Source) /\ Visible \subseteq Source
    BY DEF AskInv, AskTypeOK, Visible, Present
  <2>2. found \in Rankings(Visible \ Range(q))
    BY DEF Used
  <2>3. QED
    BY <2>1, <2>2, RankingAppend, SourceAssumption
<1>4. evidence'[a] = r /\ \A b \in Ask \ {a} : evidence'[b] = evidence[b]
  BY <1>1 DEF AskInv, AskTypeOK
<1>5. AskTypeOK'
  BY <1>1, <1>2, <1>3 DEF AskInv, AskTypeOK, lookup, world, history
<1>6. \A b \in Ask \ {a} : Same(b)
  BY <1>2, <1>4 DEF Same, lookup, history
<1>7. /\ Visible' = Visible /\ Used(a) \subseteq Used(a)'
      /\ Ranked(evidence[a]) \subseteq Ranked(evidence[a])'
  BY <1>2, <1>3, <1>4 DEF Visible, Present, Used, world
<1>8. NothingYet(a)' /\ RanksKept(a)' /\ AllChecked(a)' /\ AllStored(a)'
  BY <1>2, <1>7
  DEF AskInv, Sound, NothingYet, RanksKept, AllChecked, AllStored, history
<1>9. StillHidden(a)' /\ SeenShown(a)' /\ FoundAgain(a)' /\ CompletedAtEnd(a)'
  BY <1>2, <1>7
  DEF AskInv, Sound, StillHidden, SeenShown, FoundAgain, CompletedAtEnd, history
<1>10. QED
  BY <1>2, <1>5, <1>6, <1>8, <1>9, OneQuestion DEF Sound, world

\* A round's tools are done, or a further round begins.
LEMMA RoundSound ==
  ASSUME AskInv, NEW a \in Ask, ToolsDone(a) \/ NextRound(a)
  PROVE  AskInv'
<1>1. PICK next \in {"authorize", "chat"}, point \in {"used", "round"} :
        /\ Goto(a, next) /\ next \in Step /\ at' = [at EXCEPT ![a] = point]
        /\ next = "chat" => evidence[a] = <<>>
        /\ todo[a] \in {"tools", "proceed"}
        /\ next = "chat" => todo[a] = "proceed"
        /\ UNCHANGED <<mode, evidence, checked, persisted, message, rows, world, history>>
  BY DEF ToolsDone, NextRound, Step
<1>2. round' \in [Ask -> 1..MaxRounds]
  <2>1. round \in [Ask -> 1..MaxRounds] /\ MaxRounds \in Nat
    BY RoundsAssumption DEF AskInv, AskTypeOK
  <2>2. CASE round' = round
    BY <2>1, <2>2
  <2>3. CASE NextRound(a)
    <3>1. round' = [round EXCEPT ![a] = round[a] + 1] /\ round[a] # MaxRounds
      BY <2>3 DEF NextRound, Exhausted
    <3>2. round[a] + 1 \in 1..MaxRounds
      BY <2>1, <3>1
    <3>3. QED
      BY <2>1, <3>1, <3>2
  <2>4. QED
    BY <2>2, <2>3 DEF ToolsDone
<1>3. AskTypeOK'
  <2>1. todo' \in [Ask -> Step] /\ at' \in [Ask -> Point]
    BY <1>1, GotoFacts DEF AskInv, AskTypeOK, Point
  <2>2. QED
    BY <1>1, <1>2, <2>1, GotoFacts DEF AskInv, AskTypeOK, world, history
<1>4. \A b \in Ask \ {a} : Same(b)
  BY <1>1, GotoFacts DEF AskInv, AskTypeOK, Same, history
<1>5. todo'[a] = next /\ at'[a] = point
  BY <1>1, GotoFacts DEF AskInv, AskTypeOK
<1>6. Visible' = Visible /\ Used(a)' = Used(a)
  BY <1>1 DEF Visible, Present, Used, world
<1>7. message[a] # "completed"
  BY <1>1 DEF AskInv, Sound, CompletedAtEnd, Handling
<1>8. NothingYet(a)' /\ RanksKept(a)' /\ AllChecked(a)' /\ AllStored(a)'
  BY <1>1, <1>5, <1>6
  DEF AskInv, Sound, NothingYet, RanksKept, AllChecked, AllStored, history
<1>9. StillHidden(a)' /\ SeenShown(a)' /\ FoundAgain(a)' /\ CompletedAtEnd(a)'
  BY <1>1, <1>5, <1>6, <1>7
  DEF AskInv, Sound, StillHidden, SeenShown, FoundAgain, CompletedAtEnd, history
<1>10. QED
  BY <1>1, <1>3, <1>4, <1>8, <1>9, OneQuestion DEF Sound, world

\* A question that is over.
LEMMA OverSound ==
  ASSUME AskInv, NEW a \in Ask,
         \/ Conclude(a) \/ Fail(a) \/ Handled(a) \/ Unwritten(a)
         \/ Finish(a) \/ Cancel(a) \/ Close(a)
  PROVE  AskInv'
<1>1. ASSUME NEW handling \in Handling, Handle(a, handling)
      PROVE  AskInv'
  BY <1>1, EndSound DEF Handle
<1>2. CASE Conclude(a)
  <2>1. CASE checked[a] = {} /\ Settle(a, "knowledge_gap")
    BY <2>1, EndSound DEF Settle
  <2>2. CASE at[a] = "answered" /\ Settle(a, "completed")
    <3>1. withdrawn[a] = {}
      BY <1>2, <2>2 DEF Conclude, AskInv, Sound, FoundAgain
    <3>2. QED
      BY <2>2, <3>1, EndSound DEF Settle
  <2>3. CASE Handle(a, "failing")
    BY <1>1, <2>3 DEF Handling
  <2>4. QED
    BY <1>2, <2>1, <2>2, <2>3 DEF Conclude
<1>3. CASE Fail(a) \/ Cancel(a)
  BY <1>1, <1>3 DEF Fail, Cancel, Handling
<1>4. CASE Finish(a)
  BY <1>4, EndSound DEF Finish
<1>5. CASE Handled(a)
  BY <1>5, EndSound DEF Handled
<1>6. CASE Close(a) \/ Unwritten(a)
  BY <1>6, EndSound DEF Close, Unwritten
<1>7. QED
  BY <1>2, <1>3, <1>4, <1>5, <1>6

\* The process dies with every question in it.
LEMMA DieSound == AskInv /\ Die => AskInv'
<1> SUFFICES ASSUME AskInv, Die
             PROVE  AskInv'
  OBVIOUS
<1>1. /\ todo \in [Ask -> Step]
      /\ todo' = [a \in Ask |-> IF Running(a) \/ todo[a] = "opened"
                                THEN "closed" ELSE todo[a]]
      /\ looked' = [a \in Ask |-> 0] /\ matched' = [a \in Ask |-> {}]
      /\ UNCHANGED <<local, message, rows, world, history>>
  BY DEF AskInv, AskTypeOK, Die
<1>2. \A a \in Ask : todo'[a] = "closed" \/ (todo'[a] = todo[a] /\ todo[a] # "select")
  BY <1>1 DEF Running
<1>3. todo' \in [Ask -> Step]
  <2>1. todo' = [a \in Ask |-> todo'[a]]
    BY <1>1
  <2>2. \A a \in Ask : todo'[a] \in Step
    BY <1>1, <1>2 DEF Step
  <2>3. QED
    BY <2>1, <2>2
<1>4. AskTypeOK'
  <2>1. looked' \in [Ask -> Nat] /\ matched' \in [Ask -> SUBSET (1..Cardinality(Source))]
    BY <1>1
  <2>2. QED
    BY <1>1, <1>3, <2>1 DEF AskInv, AskTypeOK, local, world, history
<1>5. ASSUME NEW b \in Ask
      PROVE  Sound(b)'
  <2>1. Visible' = Visible /\ Used(b)' = Used(b) /\ Sound(b)
    BY <1>1 DEF Visible, Present, Used, local, world, AskInv
  <2>2. todo'[b] = "closed" \/ (todo'[b] = todo[b] /\ todo[b] # "select")
    BY <1>2
  <2>3. NothingYet(b)' /\ RanksKept(b)' /\ AllChecked(b)' /\ AllStored(b)'
    BY <1>1, <2>1, <2>2
    DEF Sound, NothingYet, RanksKept, AllChecked, AllStored, local, history
  <2>4. StillHidden(b)' /\ SeenShown(b)' /\ FoundAgain(b)' /\ CompletedAtEnd(b)'
    BY <1>1, <2>1, <2>2
    DEF Sound, StillHidden, SeenShown, FoundAgain, CompletedAtEnd, local, history
  <2>5. QED
    BY <2>3, <2>4 DEF Sound
<1>6. QED
  BY <1>4, <1>5 DEF AskInv

\* What happens in the world only hides more, or forgets what is shown again,
\* and takes messages and citations away.
LEMMA WorldKeeps ==
  ASSUME AskInv, UNCHANGED <<todo, local, lookup, told>>, AskTypeOK',
         \A b \in Ask : message'[b] \in {message[b], "none"},
         \A b \in Ask : rows'[b] \subseteq rows[b],
         \A b \in Ask : withdrawn'[b] \subseteq withdrawn[b] \ Visible',
         \A b \in Ask : todo[b] = "select" => withdrawn'[b] \cap Present' = {}
  PROVE  AskInv'
<1>1. ASSUME NEW b \in Ask
      PROVE  Sound(b)'
  <2>1. Used(b)' = Used(b) /\ Sound(b)
    BY DEF Used, local, AskInv
  <2>2. NothingYet(b)' /\ RanksKept(b)' /\ AllChecked(b)' /\ AllStored(b)'
    BY <2>1 DEF Sound, NothingYet, RanksKept, AllChecked, AllStored, local
  <2>3. StillHidden(b)' /\ SeenShown(b)' /\ FoundAgain(b)' /\ CompletedAtEnd(b)'
    <3>1. withdrawn'[b] \subseteq withdrawn[b] /\ withdrawn'[b] \cap Visible' = {}
      OBVIOUS
    <3>2. CompletedAtEnd(b)'
      BY <2>1, <3>1 DEF Sound, CompletedAtEnd, local
    <3>3. QED
      BY <2>1, <3>1, <3>2 DEF Sound, StillHidden, SeenShown, FoundAgain, local, lookup
  <2>4. QED
    BY <2>2, <2>3 DEF Sound
<1>2. QED
  BY <1>1 DEF AskInv

LEMMA WorldSound == AskInv /\ World => AskInv'
<1> SUFFICES ASSUME AskInv, World
             PROVE  AskInv'
  OBVIOUS
<1>1. changes' \in 0..ChangeCap
  <2>1. changes < ChangeCap /\ changes' = changes + 1 /\ changes \in 0..ChangeCap
    BY DEF World, Hide, Show, DeleteDocument, SwitchAccess, SwitchConversation,
           DeleteConversation, Change, AskInv, AskTypeOK
  <2>2. QED
    BY <2>1, CapAssumption
<1>2. /\ message \in [Ask -> Status] /\ withdrawn \in [Ask -> SUBSET Source]
      /\ rows \in [Ask -> SUBSET ((1..Cardinality(Source)) \X Source)]
      /\ access \in BOOLEAN
      /\ \A b \in Ask : withdrawn[b] \cap Visible = {}
      /\ \A b \in Ask : todo[b] = "select" => withdrawn[b] \cap Present = {}
  BY DEF AskInv, AskTypeOK, Sound, StillHidden
<1>3. CASE \E s \in Source : Hide(s)
  <2>1. PICK s \in Source : Hide(s)
    BY <1>3
  <2>2. /\ hidden' = hidden \cup {s}
        /\ UNCHANGED <<todo, local, lookup, message, rows, conversation, access, deleted, history>>
    BY <2>1 DEF Hide
  <2>3. AskTypeOK'
    BY <1>1, <2>2 DEF AskInv, AskTypeOK, local, lookup, history
  <2>4. Visible' \subseteq Visible /\ Present' \subseteq Present
    BY <2>2 DEF Visible, Present
  <2>5. QED
    BY <1>2, <2>2, <2>3, <2>4, WorldKeeps DEF history
<1>4. CASE \E s \in Source : Show(s)
  <2>1. PICK s \in Source : Show(s)
    BY <1>4
  <2>2. /\ hidden' = hidden \ {s}
        /\ withdrawn' = [a \in Ask |-> IF access \/ todo[a] = "select"
                                       THEN withdrawn[a] \ {s} ELSE withdrawn[a]]
        /\ UNCHANGED <<todo, local, lookup, message, rows, conversation, access, deleted, told>>
    BY <2>1 DEF Show
  <2>3. /\ Visible' \subseteq Visible \cup (IF access THEN {s} ELSE {})
        /\ Present' \subseteq Present \cup {s}
    BY <2>2 DEF Visible, Present
  <2>4. \A b \in Ask : /\ withdrawn'[b] \subseteq withdrawn[b] \ Visible'
                       /\ todo[b] = "select" => withdrawn'[b] \cap Present' = {}
    BY <1>2, <2>2, <2>3
  <2>5. withdrawn' \in [Ask -> SUBSET Source]
    BY <1>2, <2>2
  <2>6. AskTypeOK'
    BY <1>1, <2>2, <2>5 DEF AskInv, AskTypeOK, local, lookup
  <2>7. QED
    BY <2>2, <2>4, <2>6, WorldKeeps
<1>5. CASE \E s \in Source : DeleteDocument(s)
  <2>1. PICK s \in Source : DeleteDocument(s)
    BY <1>5
  <2>2. /\ deleted' = deleted \cup {s}
        /\ rows' = [a \in Ask |-> {row \in rows[a] : row[2] # s}]
        /\ UNCHANGED <<todo, local, lookup, message, conversation, access, hidden, history>>
    BY <2>1 DEF DeleteDocument
  <2>3. Visible' \subseteq Visible /\ Present' \subseteq Present
    BY <2>2 DEF Visible, Present
  <2>4. rows' \in [Ask -> SUBSET ((1..Cardinality(Source)) \X Source)]
        /\ \A b \in Ask : rows'[b] \subseteq rows[b]
    BY <1>2, <2>2
  <2>5. AskTypeOK'
    BY <1>1, <2>2, <2>4 DEF AskInv, AskTypeOK, local, lookup, history
  <2>6. QED
    BY <1>2, <2>2, <2>3, <2>4, <2>5, WorldKeeps DEF history
<1>6. CASE SwitchAccess
  <2>1. /\ access' = ~access
        /\ withdrawn' = [a \in Ask |-> IF access THEN withdrawn[a]
                                       ELSE withdrawn[a] \cap (hidden \cup deleted)]
        /\ UNCHANGED <<todo, local, lookup, message, rows, conversation, hidden, deleted, told>>
    BY <1>6 DEF SwitchAccess
  <2>2. \A b \in Ask : /\ withdrawn'[b] \subseteq withdrawn[b] \ Visible'
                       /\ todo[b] = "select" => withdrawn'[b] \cap Present' = {}
    BY <1>2, <2>1 DEF Visible, Present
  <2>3. withdrawn' \in [Ask -> SUBSET Source] /\ access' \in BOOLEAN
    BY <1>2, <2>1
  <2>4. AskTypeOK'
    BY <1>1, <2>1, <2>3 DEF AskInv, AskTypeOK, local, lookup
  <2>5. QED
    BY <2>1, <2>2, <2>4, WorldKeeps
<1>7. CASE SwitchConversation
  <2>1. /\ conversation' \in {"active", "archived"}
        /\ UNCHANGED <<todo, local, lookup, message, rows, access, hidden, deleted, history>>
    BY <1>7 DEF SwitchConversation
  <2>2. AskTypeOK'
    BY <1>1, <2>1 DEF AskInv, AskTypeOK, local, lookup, history
  <2>3. Visible' = Visible /\ Present' = Present
    BY <2>1 DEF Visible, Present
  <2>4. QED
    BY <1>2, <2>1, <2>2, <2>3, WorldKeeps DEF history
<1>8. CASE DeleteConversation
  <2>1. /\ conversation' = "deleted"
        /\ message' = [a \in Ask |-> "none"] /\ rows' = [a \in Ask |-> {}]
        /\ UNCHANGED <<todo, local, lookup, access, hidden, deleted, history>>
    BY <1>8 DEF DeleteConversation
  <2>2. message' \in [Ask -> Status]
    BY <2>1 DEF Status
  <2>3. rows' \in [Ask -> SUBSET ((1..Cardinality(Source)) \X Source)]
    BY <2>1
  <2>4. AskTypeOK'
    BY <1>1, <2>1, <2>2, <2>3 DEF AskInv, AskTypeOK, local, lookup, history
  <2>5. Visible' = Visible /\ Present' = Present
    BY <2>1 DEF Visible, Present
  <2>6. QED
    BY <1>2, <2>1, <2>4, <2>5, WorldKeeps DEF history
<1>9. QED
  BY <1>3, <1>4, <1>5, <1>6, <1>7, <1>8 DEF World

LEMMA AskInitial == AskInit => AskInv
<1> SUFFICES ASSUME AskInit
             PROVE  AskInv
  OBVIOUS
<1>1. 1 \in 1..MaxRounds /\ 0 \in 0..ChangeCap
  BY RoundsAssumption, CapAssumption
<1>2. <<>> \in Rankings(Source)
  <2>1. <<>> \in Seq(Source) /\ Len(<<>>) = 0
    OBVIOUS
  <2>2. \A m, n \in 1..Len(<<>>) : <<>>[m] = <<>>[n] => m = n
    BY <2>1
  <2>3. QED
    BY <2>1, <2>2, RankingIntro, SourceAssumption
<1>3. /\ todo \in [Ask -> Step] /\ at \in [Ask -> Point] /\ mode \in [Ask -> Mode]
      /\ round \in [Ask -> 1..MaxRounds] /\ evidence \in [Ask -> Rankings(Source)]
      /\ message \in [Ask -> Status]
  <2>1. todo \in [Ask -> Step]
    BY DEF AskInit, Step
  <2>2. at \in [Ask -> Point] /\ mode \in [Ask -> Mode]
    BY DEF AskInit, Point
  <2>3. message \in [Ask -> Status]
    BY DEF AskInit, Status
  <2>4. round \in [Ask -> 1..MaxRounds] /\ evidence \in [Ask -> Rankings(Source)]
    <3> HIDE DEF Rankings
    <3>1. QED
      BY <1>1, <1>2 DEF AskInit
  <2>5. QED
    BY <2>1, <2>2, <2>3, <2>4
<1>4. AskTypeOK
  <2>1. looked \in [Ask -> Nat] /\ matched \in [Ask -> SUBSET (1..Cardinality(Source))]
    BY DEF AskInit
  <2>2. QED
    BY <1>1, <1>3, <2>1 DEF AskInit, AskTypeOK
<1>5. ASSUME NEW a \in Ask
      PROVE  Sound(a)
  <2>1. /\ todo[a] = "idle" /\ evidence[a] = <<>> /\ checked[a] = {} /\ persisted[a] = {}
        /\ rows[a] = {} /\ told[a] = {} /\ withdrawn[a] = {} /\ message[a] = "none"
    BY <1>5 DEF AskInit
  <2>2. QED
    BY <2>1
    DEF Sound, NothingYet, RanksKept, AllChecked, AllStored, StillHidden, SeenShown,
        FoundAgain,
        CompletedAtEnd
<1>6. QED
  BY <1>4, <1>5 DEF AskInv

LEMMA AskStutter == AskInv /\ UNCHANGED askVars => AskInv'
BY DEF askVars, local, lookup, world, history, AskInv, AskTypeOK, Sound, NothingYet,
       RanksKept, AllChecked, AllStored, StillHidden, SeenShown, FoundAgain,
       CompletedAtEnd, Visible, Present, Used

LEMMA AskStep == AskInv /\ [AskNext]_askVars => AskInv'
<1> SUFFICES ASSUME AskInv, [AskNext]_askVars
             PROVE  AskInv'
  OBVIOUS
<1>1. ASSUME NEW a \in Ask, \/ Open(a) \/ OpenBounded(a) \/ Advance(a)
                             \/ Cancel(a) \/ Close(a) \/ Unwritten(a)
      PROVE  AskInv'
  BY <1>1, GoSound, SourcesSound, RequireSound, SelectSound, AuthorizeSound,
     PersistSound, DeltaSound, AnswerSound, ToolSound, RoundSound, OverSound, VerifySound
  DEF Advance
<1>2. CASE Die
  BY <1>2, DieSound
<1>3. CASE World
  BY <1>3, WorldSound
<1>4. CASE UNCHANGED askVars
  BY <1>4, AskStutter
<1>5. QED
  BY <1>1, <1>2, <1>3, <1>4 DEF AskNext

LEMMA AskInvariant == AskSpec => []AskInv
<1>1. QED
  BY AskInitial, AskStep, PTL DEF AskSpec

\* The type of the variables.
THEOREM AskTypeCorrect == AskSpec => []AskTypeOK
<1>1. AskInv => AskTypeOK
  BY DEF AskInv
<1>2. QED
  BY <1>1, AskInvariant, PTL

\* A number in an answer means the source the model was shown under it, however
\* often the ranks are given out again.
LEMMA NumbersMeanWhatWasShown == AskSpec => []NumbersAgree
<1>1. AskInv => NumbersAgree
  <2> SUFFICES ASSUME AskInv, NEW a \in Ask, NEW n \in 1..Cardinality(Source),
                      NEW s \in Resolved(a, n)
               PROVE  n \in DOMAIN evidence[a] /\ evidence[a][n] = s
    BY DEF NumbersAgree
  <2>1. <<n, s>> \in rows[a]
    BY DEF Resolved
  <2>2. <<n, s>> \in Ranked(evidence[a])
    BY <2>1 DEF AskInv, Sound, RanksKept
  <2>3. PICK m \in DOMAIN evidence[a] : <<n, s>> = <<m, evidence[a][m]>>
    BY <2>2 DEF Ranked
  <2>4. QED
    BY <2>3
<1>2. QED
  BY <1>1, AskInvariant, PTL

\* Sources are stored before the client reads a word that rests on them.
LEMMA StoredBeforeTold == AskSpec => []ToldIsStored
<1>1. AskInv => ToldIsStored
  BY DEF AskInv, Sound, AllStored, ToldIsStored
<1>2. QED
  BY <1>1, AskInvariant, PTL

\* Citations are there before the words that cite, and mean what they meant.
THEOREM CitationsAreSound == AskSpec => []CitationsSound
BY NumbersMeanWhatWasShown, StoredBeforeTold, PTL DEF CitationsSound

\* An agent's and a bounded answer are completed only when, after the model had
\* answered, the asker was found to be a member, and each source was found in a
\* state no older than that, whichever statement looked for it when.
THEOREM WithdrawnIsNotAnswered == AskSpec => []NotFromWithdrawn
<1>1. AskInv => NotFromWithdrawn
  BY DEF AskInv, Sound, CompletedAtEnd, NotFromWithdrawn
<1>2. QED
  BY <1>1, AskInvariant, PTL

(***************************************************************************)
(* Tools.  From the moment a call begins, what is in the scope is noted as *)
(* long as the call has not returned; what the call may return is in the   *)
(* scope when it is read, but for the headings of a document in a pinned   *)
(* folder, which was found there before.                                   *)
(***************************************************************************)
UnderWay ==
  step \in {"authorize", "find", "inside", "read"} =>
    /\ shown = {}
    /\ Tools!InScope \subseteq seen
    /\ member => allowed
    /\ step # "authorize" => allowed

Named ==
  step \in {"authorize", "find", "inside", "read"} =>
    /\ tool \in {"search", "list", "outline"}
    /\ named \subseteq {Root} \cup Folder \cup Document
    /\ tool = "search" /\ scope # {} => named = scope
    /\ tool = "list" => named \cap Document = {}
    /\ tool = "list" /\ scope # {} => named = scope
    /\ tool = "outline" =>
         /\ \E d \in Document : named = {d}
         /\ scope \cap Document \subseteq named

FoundInside ==
  step = "read" /\ tool = "outline" /\ scope \ Document # {} => named \subseteq seen

ToolInv == Tools!TypeOK /\ UnderWay /\ Named /\ FoundInside /\ ToolsInScope

\* The tree, the membership and the scope: what InScope depends on.
LEMMA SameScope ==
  ASSUME UNCHANGED <<parent, place, scope>>
  PROVE  Tools!InScope' = Tools!InScope
BY DEF Tools!InScope, Tools!Within, Tools!Here, Tools!Live, Tools!Below

LEMMA OneIsPinned ==
  ASSUME ToolInv, NEW x \in scope
  PROVE  scope = {x} /\ x \in {Root} \cup Folder \cup Document
BY DEF ToolInv, Tools!TypeOK, Tools!Pins

\* A folder lies below itself, and what lies in it lies below it.
LEMMA BelowFolder ==
  ASSUME NEW f \in {Root} \cup Folder
  PROVE  /\ f \in Tools!Below(f)
         /\ \A g \in Folder : parent[g] = f => g \in Tools!Below(f)
BY DEF Tools!Below

\* Without a scope everything in the knowledge base is in it; with a folder
\* what lies below, with a document that document.
LEMMA ScopeFacts ==
  ASSUME ToolInv
  PROVE  /\ scope = {} => Tools!Here \cup (Tools!Live \ {Root}) \subseteq Tools!InScope
         /\ Tools!Within(scope \ Document, scope \cap Document) \subseteq Tools!InScope
         /\ \A f \in Folder : scope = {f} \/ scope = {Root} =>
              \A g \in Tools!Live \ {Root} :
                (\A top \in scope : g \in Tools!Below(top)) => g \in Tools!InScope
<1>1. Tools!Within({}, {}) = Tools!Here
  BY DEF Tools!Within
<1>2. scope = {} => scope \cap Document = {} /\ scope \ Document = {}
  OBVIOUS
<1>3. \A f \in Folder : scope = {f} \/ scope = {Root} => scope \cap Document = {}
  BY NamesAssumption
<1>4. QED
  BY <1>1, <1>2, <1>3 DEF Tools!InScope

\* A call begins: with the scope, if there is one, or with what it names.
LEMMA BeginSound ==
  ASSUME ToolInv, NEW to \in SUBSET ({Root} \cup Folder \cup Document),
         NEW name \in {"search", "list", "outline"},
         name = "search" /\ scope # {} => to = scope,
         name = "list" => to \cap Document = {},
         name = "list" /\ scope # {} => to = scope,
         name = "outline" =>
           /\ \E d \in Document : to = {d}
           /\ scope \cap Document \subseteq to,
         Tools!Begin(name, to)
  PROVE  ToolInv'
<1>1. /\ tool' = name /\ named' = to /\ step' = "authorize" /\ shown' = {}
      /\ seen' = Tools!InScope /\ allowed' = member
      /\ UNCHANGED <<parent, place, member, moved, scope>>
  BY DEF Tools!Begin, Tools!tree
<1>2. Tools!InScope' = Tools!InScope
  BY <1>1, SameScope
<1>3. Tools!TypeOK'
  BY <1>1 DEF ToolInv, Tools!TypeOK, Tools!Pins
<1>4. UnderWay'
  BY <1>1, <1>2 DEF UnderWay
<1>5. Named'
  BY <1>1 DEF Named
<1>6. FoundInside' /\ ToolsInScope'
  BY <1>1 DEF FoundInside, ToolsInScope, Tools!ToolsInScope
<1>7. QED
  BY <1>3, <1>4, <1>5, <1>6 DEF ToolInv

LEMMA CallSound ==
  ASSUME ToolInv,
         \/ \E folder \in Tools!Folders, document \in Tools!Documents :
              Tools!CallSearch(folder \cup document)
         \/ \E folder \in Tools!Folders : Tools!CallList(folder)
         \/ \E d \in Document : Tools!CallOutline(d)
  PROVE  ToolInv'
<1>1. scope \subseteq {Root} \cup Folder \cup Document
  BY OneIsPinned
<1>2. CASE \E folder \in Tools!Folders, document \in Tools!Documents :
             Tools!CallSearch(folder \cup document)
  <2>1. PICK folder \in Tools!Folders, document \in Tools!Documents :
          Tools!CallSearch(folder \cup document)
    BY <1>2
  <2>2. folder \cup document \subseteq {Root} \cup Folder \cup Document
    BY DEF Tools!Folders, Tools!Documents
  <2>3. PICK to \in Tools!Targets(folder \cup document) : Tools!Begin("search", to)
    BY <2>1 DEF Tools!CallSearch
  <2>4. /\ to \subseteq {Root} \cup Folder \cup Document
        /\ scope # {} => to = scope
    BY <1>1, <2>2, <2>3 DEF Tools!Targets
  <2>5. QED
    BY <2>3, <2>4, BeginSound
<1>3. CASE \E folder \in Tools!Folders : Tools!CallList(folder)
  <2>1. PICK folder \in Tools!Folders : Tools!CallList(folder)
    BY <1>3
  <2>2. folder \subseteq {Root} \cup Folder \cup Document
    BY DEF Tools!Folders
  <2>3. PICK to \in Tools!Targets(folder) :
          /\ to \cap Document = {}
          /\ Tools!Begin("list", IF to = {} THEN {Root} ELSE to)
    BY <2>1 DEF Tools!CallList
  <2>4. /\ to \subseteq {Root} \cup Folder \cup Document
        /\ scope # {} => to = scope
    BY <1>1, <2>2, <2>3 DEF Tools!Targets
  <2>5. {Root} \cap Document = {}
    BY NamesAssumption
  <2>6. PICK list : list = IF to = {} THEN {Root} ELSE to
    OBVIOUS
  <2>7. /\ list \subseteq {Root} \cup Folder \cup Document
        /\ list \cap Document = {} /\ (scope # {} => list = scope)
        /\ Tools!Begin("list", list)
    BY <2>3, <2>4, <2>5, <2>6
  <2>8. QED
    BY <2>7, BeginSound
<1>4. CASE \E d \in Document : Tools!CallOutline(d)
  <2>1. PICK d \in Document : Tools!CallOutline(d)
    BY <1>4
  <2>2. scope \cap Document \subseteq {d} /\ Tools!Begin("outline", {d})
    BY <2>1 DEF Tools!CallOutline
  <2>3. QED
    BY <2>2, BeginSound
<1>5. QED
  BY <1>2, <1>3, <1>4

\* A check of a call.
LEMMA CheckSound ==
  ASSUME ToolInv, Tools!Authorize \/ Tools!Find \/ Tools!Inside \/ Tools!Deny
  PROVE  ToolInv'
<1>1. PICK to \in {"find", "inside", "read", "asking"} : Tools!Go(to)
  BY DEF Tools!Authorize, Tools!Find, Tools!Inside, Tools!Deny
<1>2. /\ step' = to
      /\ UNCHANGED <<parent, place, member, moved, scope, tool, named, shown, seen, allowed>>
  BY <1>1 DEF Tools!Go, Tools!tree, Tools!call, Tools!history
<1>3. Tools!InScope' = Tools!InScope
  BY <1>2, SameScope
<1>4. Tools!TypeOK' /\ ToolsInScope'
  BY <1>2 DEF ToolInv, Tools!TypeOK, Tools!Pins, ToolsInScope, Tools!ToolsInScope
<1>5. step \in {"authorize", "find", "inside", "read"} /\ (to # "asking" => allowed)
  <2>1. step \in {"authorize", "find", "inside", "read"}
    BY DEF Tools!Authorize, Tools!Find, Tools!Inside, Tools!Deny
  <2>2. CASE Tools!Deny
    BY <1>2, <2>2 DEF Tools!Deny, Tools!Go
  <2>3. CASE Tools!Authorize \/ Tools!Find \/ Tools!Inside
    BY <2>3 DEF Tools!Authorize, Tools!Find, Tools!Inside, ToolInv, UnderWay
  <2>4. QED
    BY <2>1, <2>2, <2>3
<1>6. UnderWay' /\ Named'
  BY <1>2, <1>3, <1>5 DEF ToolInv, UnderWay, Named
<1>7. FoundInside'
  <2> SUFFICES ASSUME step' = "read", tool = "outline", scope \ Document # {}
               PROVE  named \subseteq seen
    BY <1>2 DEF FoundInside
  <2>1. Tools!Inside
    BY <1>2 DEF Tools!Authorize, Tools!Find, Tools!Inside, Tools!Deny, Tools!Go
  <2>2. named \subseteq Tools!Within(scope, {})
    BY <2>1 DEF Tools!Inside
  <2>3. scope \ Document = scope /\ scope \cap Document = {}
    BY OneIsPinned
  <2>4. Tools!Within(scope, {}) \subseteq Tools!InScope
    BY <2>3, ScopeFacts
  <2>5. QED
    BY <1>5, <2>2, <2>4 DEF ToolInv, UnderWay
<1>8. QED
  BY <1>4, <1>6, <1>7 DEF ToolInv

\* What a call returns.
LEMMA ShowSound ==
  ASSUME ToolInv, NEW items, items \subseteq seen, items \subseteq Folder \cup Document,
         Tools!Show(items)
  PROVE  ToolInv'
<1>1. /\ step = "read" /\ step' = "asking" /\ shown' = items
      /\ UNCHANGED <<parent, place, member, moved, scope, tool, named, seen, allowed>>
  BY DEF Tools!Show, Tools!tree, Tools!call, Tools!history
<1>2. allowed
  BY <1>1 DEF ToolInv, UnderWay
<1>3. Tools!TypeOK'
  BY <1>1 DEF ToolInv, Tools!TypeOK, Tools!Pins
<1>4. UnderWay' /\ Named' /\ FoundInside'
  BY <1>1 DEF UnderWay, Named, FoundInside
<1>5. ToolsInScope'
  BY <1>1, <1>2 DEF ToolsInScope, Tools!ToolsInScope
<1>6. QED
  BY <1>3, <1>4, <1>5 DEF ToolInv

LEMMA ReadSound ==
  ASSUME ToolInv, Tools!ReadSearch \/ Tools!ReadList \/ Tools!ReadOutline
  PROVE  ToolInv'
<1>1. step = "read"
  BY DEF Tools!ReadSearch, Tools!ReadList, Tools!ReadOutline, Tools!Show
<1>2. Tools!InScope \subseteq seen
  BY <1>1 DEF ToolInv, UnderWay
<1>3. \A A, B : Tools!Within(A, B) \subseteq Tools!Here /\ Tools!Here \subseteq Document
  BY DEF Tools!Within, Tools!Here
<1>4. CASE Tools!ReadSearch
  <2>1. tool = "search" /\ Tools!Show(Tools!Within(named \ Document, named \cap Document))
    BY <1>4 DEF Tools!ReadSearch
  <2>2. Tools!Within(named \ Document, named \cap Document) \subseteq Tools!InScope
    <3>1. CASE scope = {}
      BY <1>3, <3>1, ScopeFacts
    <3>2. CASE scope # {}
      <4>1. named = scope
        BY <1>1, <2>1, <3>2 DEF ToolInv, Named
      <4>2. QED
        BY <4>1, ScopeFacts
    <3>3. QED
      BY <3>1, <3>2
  <2>3. QED
    BY <1>2, <1>3, <2>1, <2>2, ShowSound
<1>5. CASE Tools!ReadList
  <2>1. PICK f \in named \cap Tools!Live :
          Tools!Show({g \in Folder : parent[g] = f} \cup {d \in Document : place[d] = f})
    BY <1>5 DEF Tools!ReadList
  <2>2. tool = "list" /\ named \cap Document = {} /\ (scope # {} => named = scope)
    BY <1>1, <1>5 DEF Tools!ReadList, ToolInv, Named
  <2>3. f \in {Root} \cup Folder /\ f # "gone"
    BY NamesAssumption DEF Tools!Live
  <2>4. ASSUME NEW g \in Folder, parent[g] = f
        PROVE  g \in Tools!InScope
    <3>1. g \in Tools!Live \ {Root}
      BY <2>3, <2>4, NamesAssumption DEF Tools!Live
    <3>2. CASE scope = {}
      BY <3>1, <3>2, ScopeFacts
    <3>3. CASE scope # {}
      <4>1. scope = {f}
        BY <2>2, <3>3, OneIsPinned
      <4>2. g \in Tools!Below(f)
        BY <2>3, <2>4, BelowFolder
      <4>3. QED
        BY <2>3, <3>1, <4>1, <4>2, ScopeFacts
    <3>4. QED
      BY <3>2, <3>3
  <2>5. ASSUME NEW d \in Document, place[d] = f
        PROVE  d \in Tools!InScope
    <3>1. d \in Tools!Here
      BY <2>5 DEF Tools!Here
    <3>2. CASE scope = {}
      BY <3>1, <3>2, ScopeFacts
    <3>3. CASE scope # {}
      <4>1. scope = {f} /\ f \notin Document
        BY <2>2, <3>3, OneIsPinned
      <4>2. f \in Tools!Below(f)
        BY <2>3, BelowFolder
      <4>3. scope \ Document = {f} /\ scope \cap Document = {}
        BY <4>1
      <4>4. d \in Tools!Within(scope \ Document, scope \cap Document)
        BY <2>5, <3>1, <4>2, <4>3 DEF Tools!Within
      <4>5. QED
        BY <4>4, ScopeFacts
    <3>4. QED
      BY <3>2, <3>3
  <2>6. {g \in Folder : parent[g] = f} \cup {d \in Document : place[d] = f}
          \subseteq Tools!InScope
    BY <2>4, <2>5
  <2>7. {g \in Folder : parent[g] = f} \cup {d \in Document : place[d] = f}
          \subseteq Folder \cup Document
    OBVIOUS
  <2>8. QED
    BY <1>2, <2>1, <2>6, <2>7, ShowSound
<1>6. CASE Tools!ReadOutline
  <2>1. tool = "outline" /\ named \subseteq Tools!Here /\ Tools!Show(named)
    BY <1>6 DEF Tools!ReadOutline
  <2>2. PICK d \in Document : named = {d}
    BY <1>1, <2>1 DEF ToolInv, Named
  <2>3. scope \cap Document \subseteq {d}
    BY <1>1, <2>1, <2>2 DEF ToolInv, Named
  <2>4. named \subseteq seen
    <3>1. CASE scope = {}
      BY <1>2, <2>1, <3>1, ScopeFacts
    <3>2. CASE scope \ Document # {}
      BY <1>1, <2>1, <3>2 DEF ToolInv, FoundInside
    <3>3. CASE scope # {} /\ scope \ Document = {}
      <4>1. scope \cap Document = {d}
        BY <2>3, <3>3
      <4>2. d \in Tools!Within(scope \ Document, scope \cap Document)
        BY <2>1, <2>2, <3>3, <4>1 DEF Tools!Within
      <4>3. QED
        BY <1>2, <2>2, <4>2, ScopeFacts
    <3>4. QED
      BY <3>1, <3>2, <3>3
  <2>5. QED
    BY <2>1, <2>2, <2>4, ShowSound
<1>7. QED
  BY <1>4, <1>5, <1>6

\* What happens meanwhile.
LEMMA MeanwhileSound ==
  ASSUME ToolInv, Tools!Changed,
         parent' \in [Folder -> {Root, "gone"} \cup Folder],
         place' \in [Document -> {Root, "gone", "elsewhere"} \cup Folder]
  PROVE  ToolInv'
<1>1. /\ seen' = seen \cup Tools!InScope' /\ allowed' = (allowed \/ member')
      /\ UNCHANGED <<scope, tool, named, step, shown>>
  BY DEF Tools!Changed, Tools!call
<1>2. Tools!TypeOK'
  BY <1>1 DEF ToolInv, Tools!TypeOK, Tools!Pins
<1>3. UnderWay'
  BY <1>1 DEF ToolInv, UnderWay
<1>4. Named' /\ FoundInside'
  BY <1>1 DEF ToolInv, Named, FoundInside
<1>5. ToolsInScope'
  BY <1>1 DEF ToolInv, ToolsInScope, Tools!ToolsInScope
<1>6. QED
  BY <1>2, <1>3, <1>4, <1>5 DEF ToolInv

LEMMA ToolStep == ToolInv /\ Tools!Next => ToolInv'
<1> SUFFICES ASSUME ToolInv, Tools!Next
             PROVE  ToolInv'
  OBVIOUS
<1>1. /\ parent \in [Folder -> {Root, "gone"} \cup Folder]
      /\ place \in [Document -> {Root, "gone", "elsewhere"} \cup Folder]
      /\ Tools!Live \subseteq {Root} \cup Folder
  BY DEF ToolInv, Tools!TypeOK, Tools!Live
<1>2. ASSUME NEW pinned \in Tools!Pins, Tools!Pin(pinned)
      PROVE  ToolInv'
  <2>1. /\ step = "waiting" /\ step' = "asking" /\ scope' = pinned
        /\ UNCHANGED <<parent, place, member, moved, tool, named, shown, seen, allowed>>
    BY <1>2 DEF Tools!Pin, Tools!tree, Tools!call, Tools!history
  <2>2. Tools!TypeOK' /\ ToolsInScope'
    BY <1>2, <2>1 DEF ToolInv, Tools!TypeOK, Tools!Pins, ToolsInScope, Tools!ToolsInScope
  <2>3. UnderWay' /\ Named' /\ FoundInside'
    BY <2>1 DEF UnderWay, Named, FoundInside
  <2>4. QED
    BY <2>2, <2>3 DEF ToolInv
<1>3. ASSUME NEW d \in Document, Tools!DeleteDocument(d)
      PROVE  ToolInv'
  <2>1. place' = [place EXCEPT ![d] = "gone"] /\ parent' = parent /\ Tools!Changed
    BY <1>3 DEF Tools!DeleteDocument
  <2>2. QED
    BY <1>1, <2>1, MeanwhileSound
<1>4. ASSUME NEW to \in {Root} \cup Folder, NEW f \in Folder, Tools!MoveFolder(f, to)
      PROVE  ToolInv'
  <2>1. parent' = [parent EXCEPT ![f] = to] /\ place' = place /\ Tools!Changed
    BY <1>4 DEF Tools!MoveFolder
  <2>2. QED
    BY <1>1, <2>1, MeanwhileSound
<1>5. ASSUME NEW to \in {Root} \cup Folder, NEW d \in Document, Tools!MoveDocument(d, to)
      PROVE  ToolInv'
  <2>1. place' = [place EXCEPT ![d] = to] /\ parent' = parent /\ Tools!Changed
    BY <1>5 DEF Tools!MoveDocument
  <2>2. QED
    BY <1>1, <2>1, MeanwhileSound
<1>6. ASSUME NEW f \in Folder, Tools!DeleteFolder(f)
      PROVE  ToolInv'
  <2>1. parent' = [parent EXCEPT ![f] = "gone"] /\ place' = place /\ Tools!Changed
    BY <1>6 DEF Tools!DeleteFolder
  <2>2. QED
    BY <1>1, <2>1, MeanwhileSound
<1>7. CASE Tools!SwitchMember
  <2>1. UNCHANGED <<parent, place>> /\ Tools!Changed
    BY <1>7 DEF Tools!SwitchMember
  <2>2. QED
    BY <1>1, <2>1, MeanwhileSound
<1>8. QED
  BY <1>2, <1>3, <1>4, <1>5, <1>6, <1>7, CallSound, CheckSound, ReadSound DEF Tools!Next

LEMMA ToolInitial == Tools!Init => ToolInv
<1> SUFFICES ASSUME Tools!Init
             PROVE  ToolInv
  OBVIOUS
<1>1. /\ parent = [f \in Folder |-> Root] /\ place \in [Document -> {Root, "elsewhere"}]
      /\ scope = {} /\ step = "waiting" /\ shown = {}
  BY DEF Tools!Init
<1>2. Tools!TypeOK
  BY <1>1 DEF Tools!TypeOK, Tools!Pins
<1>3. UnderWay /\ Named /\ FoundInside /\ ToolsInScope
  BY <1>1 DEF UnderWay, Named, FoundInside, ToolsInScope, Tools!ToolsInScope
<1>4. QED
  BY <1>2, <1>3 DEF ToolInv

LEMMA ToolStutter == ToolInv /\ UNCHANGED tools => ToolInv'
<1> SUFFICES ASSUME ToolInv, UNCHANGED tools
             PROVE  ToolInv'
  OBVIOUS
<1>1. UNCHANGED <<parent, place, member, scope, tool, named, step, shown, seen, allowed>>
  BY DEF tools
<1>2. Tools!InScope' = Tools!InScope
  BY <1>1, SameScope
<1>3. Tools!TypeOK'
  BY <1>1 DEF ToolInv, Tools!TypeOK, Tools!Pins
<1>4. QED
  BY <1>1, <1>2, <1>3
  DEF ToolInv, UnderWay, Named, FoundInside, ToolsInScope, Tools!ToolsInScope

\* Whatever a tool tells the model was in the pinned scope, and the asker a
\* member, at some moment of the call.
THEOREM ToolsStayInScope == AskingSpec => []ToolsInScope
<1>1. AskingInit => ToolInv
  BY ToolInitial DEF AskingInit
<1>2. ToolInv /\ [AskingNext]_<<askVars, tools>> => ToolInv'
  BY ToolStep, ToolStutter DEF AskingNext
<1>3. ToolInv => ToolsInScope
  BY DEF ToolInv
<1>4. QED
  BY <1>1, <1>2, <1>3, PTL DEF AskingSpec

\* Asking with tools is asking: what holds of the questions alone holds of it.
THEOREM AskingAsks == AskingSpec => AskSpec
<1>1. AskingInit => AskInit
  BY DEF AskingInit
<1>2. [AskingNext]_<<askVars, tools>> => [AskNext]_askVars
  BY DEF AskingNext
<1>3. QED
  BY <1>1, <1>2, PTL DEF AskingSpec, AskSpec

(***************************************************************************)
(* The vector index.  A builder between its two transactions owns the only *)
(* building row of its model, and a building row is newer than the active  *)
(* one; the second transaction can therefore only put a newer row in its   *)
(* place.                                                                  *)
(***************************************************************************)
\* A builder's row is the only one of its model, and of no other builder.
Alone ==
  \A b \in Builder : pc[b] = "building" =>
    /\ building[want[b]] = {mine[b]}
    /\ \A d \in Builder : pc[d] = "building" /\ want[d] = want[b] => d = b

\* A model has one active row; generations only grow, and a building row is
\* newer than the active one.
Ordered ==
  \A m \in Model :
    /\ \A r, s \in active[m] : r = s
    /\ \A r \in active[m] \cup building[m] : r.generation <= last[m]
    /\ \A old \in active[m], new \in building[m] :
         old.generation < new.generation

IndexInv == TypeOK /\ Alone /\ Ordered

\* One step of NeverOlder.
Newer ==
  \A m \in Model : \A old \in active[m], new \in active'[m] :
    old = new \/ old.generation < new.generation

LEMMA RowTyped ==
  ASSUME NEW g \in Nat \ {0}, NEW S \in SUBSET Chunk, S # {}
  PROVE  [generation |-> g, source |-> S] \in Row
<1>1. S \in (SUBSET Chunk) \ {{}}
  BY Zenon
<1>2. QED
  BY <1>1 DEF Row

LEMMA IndexInitial == Init => IndexInv
<1> SUFFICES ASSUME Init
             PROVE  IndexInv
  OBVIOUS
<1>1. TypeOK
  <2>1. 1 \in Model
    BY ConstantsAssumption DEF Model
  <2>2. NoRow \in Row \cup {NoRow}
    OBVIOUS
  <2> HIDE DEF NoRow
  <2>3. /\ model \in Model /\ gone \subseteq Chunk
        /\ last \in [Model -> Nat] /\ queued \in BOOLEAN
        /\ pc \in [Builder -> {"idle", "read", "building"}]
        /\ want \in [Builder -> Model]
        /\ mine \in [Builder -> Row \cup {NoRow}]
    BY <2>1, <2>2 DEF Init
  <2>4. target \in [Chunk -> 0..MaxModel] /\ label = target /\ maker = target
    BY ConstantsAssumption DEF Init
  <2>5. active \in [Model -> SUBSET Row] /\ building = active
    BY DEF Init
  <2>6. QED
    BY <2>3, <2>4, <2>5 DEF TypeOK
<1>2. Alone /\ Ordered
  BY DEF Init, Alone, Ordered
<1>3. QED
  BY <1>1, <1>2 DEF IndexInv

LEMMA TypeStep == IndexInv /\ [Next]_vars => TypeOK'
<1> SUFFICES ASSUME IndexInv, [Next]_vars
             PROVE  TypeOK'
  OBVIOUS
<1> USE ConstantsAssumption
    DEF IndexInv, TypeOK, Model, chunks, indexes, builder, bounds, Leave
<1>1. CASE UNCHANGED vars
  BY <1>1 DEF vars
<1>2. CASE Switch
  BY <1>2 DEF Switch
<1>3. CASE Reconcile
  BY <1>3 DEF Reconcile
<1>4. ASSUME NEW c \in Chunk, ResolveTarget(c)
      PROVE  TypeOK'
  BY <1>4 DEF ResolveTarget
<1>5. ASSUME NEW c \in Chunk, Embed(c)
      PROVE  TypeOK'
  BY <1>5 DEF Embed
<1>6. ASSUME NEW c \in Chunk, DeleteChunk(c)
      PROVE  TypeOK'
  BY <1>6 DEF DeleteChunk
<1>7. ASSUME NEW b \in Builder, Maintain(b) \/ OwnerBuild(b)
      PROVE  TypeOK'
  BY <1>7 DEF Maintain, OwnerBuild
<1>8. ASSUME NEW b \in Builder, Insert(b)
      PROVE  TypeOK'
  <2> DEFINE m == want[b]
             row == [generation |-> last[m] + 1, source |-> ReadyChunks(m)]
  <2>1. CASE Buildable(m)
    <3>1. last[m] + 1 \in Nat \ {0}
      OBVIOUS
    <3>2. ReadyChunks(m) \in SUBSET Chunk /\ ReadyChunks(m) # {}
      BY <2>1 DEF Buildable, ReadyChunks
    <3>3. row \in Row
      BY <3>1, <3>2, RowTyped
    <3> HIDE DEF row
    <3>4. /\ last' = [last EXCEPT ![m] = @ + 1]
          /\ building' = [building EXCEPT ![m] = @ \cup {row}]
          /\ mine' = [mine EXCEPT ![b] = row]
          /\ pc' = [pc EXCEPT ![b] = "building"]
          /\ UNCHANGED <<model, chunks, active, queued, want, bounds>>
      BY <1>8, <2>1 DEF Insert, row
    <3>5. QED
      BY <3>3, <3>4
  <2>2. CASE ~Buildable(m)
    BY <1>8, <2>2 DEF Insert
  <2>3. QED
    BY <2>1, <2>2
<1>9. ASSUME NEW b \in Builder, Activate(b)
      PROVE  TypeOK'
  <2>1. mine[b] \in Row
    BY <1>9 DEF Activate, Alone
  <2>2. QED
    BY <1>9, <2>1 DEF Activate
<1>10. ASSUME NEW b \in Builder, BuildFails(b)
       PROVE  TypeOK'
  BY <1>10 DEF BuildFails
<1>11. ASSUME NEW b \in Builder, Crash(b)
       PROVE  TypeOK'
  BY <1>11 DEF Crash
<1>12. QED
  BY <1>1, <1>2, <1>3, <1>4, <1>5, <1>6, <1>7, <1>8, <1>9, <1>10, <1>11 DEF Next

\* What a step that leaves the indexes and the builders' rows alone keeps.
LEMMA IndexesKept ==
  ASSUME IndexInv, UNCHANGED indexes,
         \A b \in Builder : pc'[b] = "building" =>
           pc[b] = "building" /\ mine'[b] = mine[b] /\ want'[b] = want[b]
  PROVE  Alone' /\ Ordered' /\ Newer
<1>1. Alone'
  BY DEF IndexInv, Alone, indexes
<1>2. Ordered' /\ Newer
  BY DEF IndexInv, Ordered, Newer, indexes
<1>3. QED
  BY <1>1, <1>2

\* What a step keeps that drops a builder's row of model m, of its own.
LEMMA RowDropped ==
  ASSUME IndexInv, NEW b \in Builder, pc[b] = "building", Leave(b),
         building' = [building EXCEPT ![want[b]] = @ \ {mine[b]}]
  PROVE  /\ building'[want[b]] = {}
         /\ \A m \in Model : m # want[b] => building'[m] = building[m]
         /\ Alone'
<1>1. want[b] \in Model /\ building[want[b]] = {mine[b]}
  BY DEF IndexInv, TypeOK, Alone
<1>2. /\ building'[want[b]] = {}
      /\ \A m \in Model : m # want[b] => building'[m] = building[m]
  BY <1>1 DEF IndexInv, TypeOK
<1>3. ASSUME NEW d \in Builder, pc'[d] = "building"
      PROVE  /\ pc[d] = "building" /\ mine'[d] = mine[d] /\ d # b
             /\ want[d] \in Model /\ want[d] # want[b]
  BY <1>3 DEF IndexInv, TypeOK, Alone, Leave
<1>4. Alone'
  BY <1>2, <1>3 DEF IndexInv, Alone, Leave
<1>5. QED
  BY <1>2, <1>4

LEMMA IndexStep == IndexInv /\ [Next]_vars => IndexInv' /\ Newer
<1> SUFFICES ASSUME IndexInv, [Next]_vars
             PROVE  Alone' /\ Ordered' /\ Newer
  BY TypeStep DEF IndexInv
<1>0. /\ \A m \in Model : /\ last[m] \in Nat
                          /\ \A r \in active[m] \cup building[m] :
                               r.generation \in Nat
      /\ \A b \in Builder : want[b] \in Model
  BY DEF IndexInv, TypeOK, Row
<1>1. CASE UNCHANGED vars
  BY <1>1, IndexesKept DEF vars, indexes
<1>2. CASE Switch \/ Reconcile
  BY <1>2, IndexesKept DEF Switch, Reconcile, builder
<1>3. ASSUME NEW c \in Chunk, ResolveTarget(c) \/ Embed(c) \/ DeleteChunk(c)
      PROVE  Alone' /\ Ordered' /\ Newer
  BY <1>3, IndexesKept DEF ResolveTarget, Embed, DeleteChunk, builder
<1>4. ASSUME NEW b \in Builder, Maintain(b) \/ OwnerBuild(b)
      PROVE  Alone' /\ Ordered' /\ Newer
  BY <1>4, IndexesKept
  DEF Maintain, OwnerBuild, builder, IndexInv, TypeOK
<1>5. ASSUME NEW b \in Builder, Insert(b)
      PROVE  Alone' /\ Ordered' /\ Newer
  <2> DEFINE m == want[b]
             row == [generation |-> last[m] + 1, source |-> ReadyChunks(m)]
  <2>1. CASE Buildable(m)
    <3>1. /\ last' = [last EXCEPT ![m] = @ + 1]
          /\ building' = [building EXCEPT ![m] = @ \cup {row}]
          /\ mine' = [mine EXCEPT ![b] = row]
          /\ pc' = [pc EXCEPT ![b] = "building"]
          /\ UNCHANGED <<active, want>>
          /\ building[m] = {}
      BY <1>5, <2>1 DEF Insert, Buildable
    <3>2. row.generation = last[m] + 1 /\ m \in Model
      BY <1>0
    <3> HIDE DEF row, m
    <3>3. /\ last'[m] = last[m] + 1
          /\ building'[m] = {row}
          /\ \A n \in Model : n # m =>
               last'[n] = last[n] /\ building'[n] = building[n]
      BY <3>1, <3>2 DEF IndexInv, TypeOK
    <3>4. Alone'
      <4>1. ASSUME NEW d \in Builder, pc[d] = "building"
            PROVE  want[d] # m
        BY <4>1, <3>1 DEF IndexInv, Alone
      <4>2. mine'[b] = row /\ want'[b] = m
        BY <3>1 DEF IndexInv, TypeOK, m
      <4>3. ASSUME NEW d \in Builder, pc'[d] = "building", d # b
            PROVE  /\ pc[d] = "building" /\ mine'[d] = mine[d]
                   /\ want'[d] = want[d] /\ want[d] # m /\ want[d] \in Model
        BY <4>1, <4>3, <3>1, <1>0 DEF IndexInv, TypeOK
      <4>4. QED
        BY <4>2, <4>3, <3>3 DEF IndexInv, Alone
    <3>5. Ordered'
      <4> SUFFICES ASSUME NEW n \in Model
                   PROVE  /\ \A r, s \in active'[n] : r = s
                          /\ \A r \in active'[n] \cup building'[n] :
                               r.generation <= last'[n]
                          /\ \A old \in active'[n], new \in building'[n] :
                               old.generation < new.generation
        BY DEF Ordered, Model
      <4>1. CASE n = m
        BY <4>1, <3>1, <3>2, <3>3, <1>0 DEF IndexInv, Ordered
      <4>2. CASE n # m
        BY <4>2, <3>1, <3>3 DEF IndexInv, Ordered
      <4>3. QED
        BY <4>1, <4>2
    <3>6. Newer
      BY <3>1 DEF Newer, IndexInv, Ordered
    <3>7. QED
      BY <3>4, <3>5, <3>6
  <2>2. CASE ~Buildable(m)
    BY <1>5, <2>2, IndexesKept DEF Insert, indexes, IndexInv, TypeOK
  <2>3. QED
    BY <2>1, <2>2
<1>6. ASSUME NEW b \in Builder, Activate(b)
      PROVE  Alone' /\ Ordered' /\ Newer
  <2>1. /\ Alone'
        /\ building'[want[b]] = {}
        /\ \A m \in Model : m # want[b] => building'[m] = building[m]
    BY <1>6, RowDropped DEF Activate
  <2>2. /\ want[b] \in Model /\ mine[b] \in building[want[b]]
        /\ active'[want[b]] = {mine[b]}
        /\ \A m \in Model : m # want[b] => active'[m] = active[m]
        /\ last' = last
    BY <1>0, <1>6 DEF Activate, IndexInv, TypeOK, Alone
  <2>3. Ordered'
    BY <2>1, <2>2 DEF IndexInv, Ordered, Model
  <2>4. Newer
    BY <2>2 DEF Newer, IndexInv, Ordered
  <2>5. QED
    BY <2>1, <2>3, <2>4
<1>7. ASSUME NEW b \in Builder, BuildFails(b)
      PROVE  Alone' /\ Ordered' /\ Newer
  <2>1. /\ Alone'
        /\ building'[want[b]] = {}
        /\ \A m \in Model : m # want[b] => building'[m] = building[m]
        /\ UNCHANGED <<active, last>>
    BY <1>7, RowDropped DEF BuildFails
  <2>2. Ordered'
    BY <2>1 DEF IndexInv, Ordered, Model
  <2>3. Newer
    BY <2>1 DEF Newer, IndexInv, Ordered
  <2>4. QED
    BY <2>1, <2>2, <2>3
<1>8. ASSUME NEW b \in Builder, Crash(b)
      PROVE  Alone' /\ Ordered' /\ Newer
  BY <1>8, IndexesKept DEF Crash, Leave, IndexInv, TypeOK
<1>9. QED
  BY <1>1, <1>2, <1>3, <1>4, <1>5, <1>6, <1>7, <1>8 DEF Next

\* Every variable of VectorIndex keeps its type.
THEOREM TypeCorrect == Spec => []TypeOK
  BY IndexInitial, IndexStep, PTL DEF Spec, IndexInv

\* No build puts an older index in the place of a newer one
\* (_build_index_core), however many run at once or die.
THEOREM NewerOnly == Spec => NeverOlder
<1>1. IndexInv /\ [Next]_vars => [Newer]_vars
  BY IndexStep
<1>2. Spec => [][Newer]_vars
  BY IndexInitial, IndexStep, <1>1, PTL DEF Spec
<1>3. QED
  BY <1>2, PTL DEF NeverOlder, Newer

-----------------------------------------------------------------------------
(***************************************************************************)
(* Searches.  A list is sorted by counting what comes before each element:  *)
(* where an order arranges a finite set in a line, this gives every place   *)
(* to one element, because a map from the set one-to-one into as many       *)
(* places reaches them all.  Scores of chunks, ties by keys, and what a     *)
(* model makes of them, are such orders.                                   *)
(***************************************************************************)

\* R arranges S in a line; what comes before c in it.
Line(S, R) ==
  /\ \A a \in S : <<a, a>> \notin R
  /\ \A a, b \in S : a # b => <<a, b>> \in R \/ <<b, a>> \in R
  /\ \A a, b, c \in S : <<a, b>> \in R /\ <<b, c>> \in R => <<a, c>> \in R

Before(S, R, c) == {b \in S : <<b, c>> \in R}

\* In a finite set that an order R arranges in a line, the number of elements
\* before an element tells its place.
LEMMA Places ==
  ASSUME NEW S, IsFiniteSet(S), NEW R, Line(S, R)
  PROVE  /\ Cardinality(S) \in Nat
         /\ \A c \in S : Cardinality(Before(S, R, c)) \in 0..(Cardinality(S) - 1)
         /\ \A b, c \in S :
              /\ <<b, c>> \in R <=>
                   Cardinality(Before(S, R, b)) < Cardinality(Before(S, R, c))
              /\ Cardinality(Before(S, R, b)) = Cardinality(Before(S, R, c)) => b = c
         /\ \A n \in 1..Cardinality(S) :
              \E c \in S : Cardinality(Before(S, R, c)) = n - 1
<1> DEFINE N == Cardinality(S)
           before(c) == Cardinality(Before(S, R, c))
           position == [c \in S |-> before(c) + 1]
<1>1. N \in Nat
  BY FS_CardinalityType
<1>2. ASSUME NEW c \in S PROVE IsFiniteSet(Before(S, R, c)) /\ before(c) \in 0..(N - 1)
  <2>1. Before(S, R, c) \in SUBSET S /\ c \notin Before(S, R, c)
    BY DEF Before, Line
  <2>2. IsFiniteSet(Before(S, R, c)) /\ before(c) <= N /\ before(c) # N
    BY <2>1, FS_Subset
  <2>3. before(c) \in Nat
    BY <2>2, FS_CardinalityType
  <2>4. QED
    BY <1>1, <2>2, <2>3
<1>3. ASSUME NEW b \in S, NEW c \in S, <<b, c>> \in R PROVE before(b) < before(c)
  <2>1. Before(S, R, b) \in SUBSET Before(S, R, c)
    BY <1>3 DEF Before, Line
  <2>2. b \in Before(S, R, c) /\ b \notin Before(S, R, b)
    BY <1>3 DEF Before, Line
  <2>3. before(b) <= before(c) /\ before(b) # before(c)
    BY <1>2, <2>1, <2>2, FS_Subset
  <2>4. before(b) \in Nat /\ before(c) \in Nat
    BY <1>2
  <2>5. QED
    BY <2>3, <2>4
<1>4. \A c \in S : before(c) \in Int
  BY <1>1, <1>2
<1>5. ASSUME NEW b \in S, NEW c \in S
      PROVE  /\ <<b, c>> \in R <=> before(b) < before(c)
             /\ before(b) = before(c) => b = c
  <2>1. /\ b = c \/ <<b, c>> \in R \/ <<c, b>> \in R
        /\ b = c => <<b, c>> \notin R
    BY DEF Line
  <2> HIDE DEF before
  <2>2. before(b) \in Int /\ before(c) \in Int
    BY <1>4
  <2>3. QED
    BY <1>3, <2>1, <2>2
<1> HIDE DEF before
<1>6. position \in Injection(S, 1..N)
  <2>1. position \in [S -> 1..N]
    BY <1>1, <1>2
  <2>2. ASSUME NEW b \in S, NEW c \in S, position[b] = position[c] PROVE b = c
    <3>1. before(b) + 1 = before(c) + 1 /\ before(b) \in Int /\ before(c) \in Int
      BY <1>4, <2>2
    <3>2. before(b) = before(c)
      BY <3>1
    <3>3. QED
      BY <1>5, <3>2
  <2>3. QED
    BY <2>1, <2>2 DEF Injection, IsInjective
<1>7. IsFiniteSet(1..N) /\ Cardinality(1..N) = N
  BY <1>1, FS_Interval
<1>8. position \in Surjection(S, 1..N)
  BY <1>6, <1>7, FS_Injection
<1>9. ASSUME NEW n \in 1..N PROVE \E c \in S : before(c) = n - 1
  <2>1. PICK c \in S : position[c] = n
    BY <1>8 DEF Surjection
  <2>2. before(c) + 1 = n /\ before(c) \in Int
    BY <1>4, <2>1
  <2>3. QED
    BY <2>2
<1>10. QED
  BY <1>1, <1>2, <1>5, <1>9 DEF before

\* The element at n is one with n - 1 before it, if there is one.
Placed(q, S, R) ==
  /\ q \in [1..Cardinality(S) -> {q[n] : n \in 1..Cardinality(S)}]
  /\ \A n \in 1..Cardinality(S) :
       (\E c \in S : Cardinality(Before(S, R, c)) = n - 1)
         => q[n] \in S /\ Cardinality(Before(S, R, q[n])) = n - 1

\* Then the elements are in their order, each once.
LEMMA InLine ==
  ASSUME NEW S, IsFiniteSet(S), NEW R, Line(S, R), NEW q, Placed(q, S, R)
  PROVE  /\ q \in Seq(S) /\ Len(q) = Cardinality(S) /\ Cardinality(S) \in Nat
         /\ \A c \in S : \E n \in 1..Len(q) : q[n] = c
         /\ \A m, n \in 1..Len(q) : m < n => <<q[m], q[n]>> \in R
<1> DEFINE N == Cardinality(S)
           before(c) == Cardinality(Before(S, R, c))
<1>1. /\ N \in Nat
      /\ \A c \in S : before(c) \in 0..(N - 1)
      /\ \A b, c \in S : /\ <<b, c>> \in R <=> before(b) < before(c)
                         /\ before(b) = before(c) => b = c
      /\ \A n \in 1..N : \E c \in S : before(c) = n - 1
  BY Places
<1> HIDE DEF before
<1>2. ASSUME NEW n \in 1..N PROVE q[n] \in S /\ before(q[n]) = n - 1
  <2>1. \E c \in S : before(c) = n - 1
    BY <1>1
  <2>2. QED
    BY <2>1 DEF before, Placed
<1>3. ASSUME NEW c \in S PROVE \E n \in 1..N : q[n] = c
  <2>1. before(c) + 1 \in 1..N /\ before(c) \in Int
    BY <1>1
  <2>2. PICK n \in 1..N : n = before(c) + 1 /\ n - 1 = before(c)
    BY <2>1
  <2>3. q[n] \in S /\ before(q[n]) = before(c)
    BY <1>2, <2>2
  <2>4. QED
    BY <1>1, <2>3
<1>4. ASSUME NEW m \in 1..N, NEW n \in 1..N, m < n PROVE <<q[m], q[n]>> \in R
  <2>1. before(q[m]) < before(q[n])
    BY <1>2, <1>4
  <2>2. QED
    BY <1>1, <1>2, <2>1
<1>5. q \in [1..N -> S]
  BY <1>2 DEF Placed
<1>6. q \in Seq(S) /\ Len(q) = N
  BY <1>1, <1>5
<1>7. QED
  BY <1>1, <1>3, <1>4, <1>6

\* The greatest of finitely many numbers.
LEMMA Greatest ==
  ASSUME NEW S \in SUBSET Int, IsFiniteSet(S), S # {}
  PROVE  Searching!Max(S) \in S /\ \A n \in S : n <= Searching!Max(S)
<1> DEFINE R == {p \in S \X S : p[1] < p[2]}
           q == [n \in 1..Cardinality(S) |->
                   CHOOSE c \in S : Cardinality(Before(S, R, c)) = n - 1]
<1>1. Line(S, R)
  BY DEF Line
<1> HIDE DEF R
<1> HIDE DEF q
<1>8. Placed(q, S, R)
  BY DEF q, Placed
<1>2. /\ q \in Seq(S) /\ Len(q) = Cardinality(S) /\ Cardinality(S) \in Nat
      /\ \A c \in S : \E n \in 1..Len(q) : q[n] = c
      /\ \A m, n \in 1..Len(q) : m < n => <<q[m], q[n]>> \in R
  BY <1>1, <1>8, InLine
<1> DEFINE N == Cardinality(S)
<1>3. N \in 1..N /\ q[N] \in S
  <2>1. PICK c \in S : TRUE
    OBVIOUS
  <2>2. PICK n \in 1..N : q[n] = c
    BY <1>2
  <2>3. N \in 1..N
    BY <1>2
  <2>4. QED
    BY <1>2, <2>3
<1>4. ASSUME NEW n \in S PROVE n <= q[N]
  <2>1. PICK i \in 1..N : q[i] = n
    BY <1>2
  <2>2. i < N \/ i = N
    BY <1>2
  <2>3. i < N => <<n, q[N]>> \in R
    BY <1>2, <1>3, <2>1
  <2>4. <<n, q[N]>> \in R => n < q[N]
    BY DEF R
  <2>5. q[N] \in Int /\ n \in Int
    BY <1>3
  <2>6. QED
    BY <2>1, <2>2, <2>3, <2>4, <2>5
<1>5. \E x \in S : \A y \in S : x >= y
  BY <1>2, <1>3, <1>4
<1>6. Searching!Max(S) \in S /\ \A y \in S : Searching!Max(S) >= y
  BY <1>5 DEF Searching!Max
<1>7. QED
  BY <1>6

\* Chunks of one score come in the order of their keys.
LEMMA KeysInLine ==
  \A a, b, c \in Nat \X Nat \X Nat :
    /\ ~ Searching!KeyLess(a, a)
    /\ a = b \/ Searching!KeyLess(a, b) \/ Searching!KeyLess(b, a)
    /\ Searching!KeyLess(a, b) /\ Searching!KeyLess(b, c) => Searching!KeyLess(a, c)
<1>1. ASSUME NEW a \in Nat \X Nat \X Nat, NEW b \in Nat \X Nat \X Nat
      PROVE  /\ Searching!KeyLess(a, b) <=>
                  \/ a[1] < b[1]
                  \/ a[1] = b[1] /\ a[2] < b[2]
                  \/ a[1] = b[1] /\ a[2] = b[2] /\ a[3] < b[3]
             /\ a[1] \in Nat /\ a[2] \in Nat /\ a[3] \in Nat
             /\ a[1] = b[1] /\ a[2] = b[2] /\ a[3] = b[3] => a = b
  <2>1. /\ 1..3 = {1, 2, 3} /\ 1..(1 - 1) = {} /\ 1..(2 - 1) = {1} /\ 1..(3 - 1) = {1, 2}
    OBVIOUS
  <2>2. Searching!KeyLess(a, b) <=>
          \E n \in {1, 2, 3} : a[n] < b[n] /\ \A m \in 1..(n - 1) : a[m] = b[m]
    BY <2>1 DEF Searching!KeyLess
  <2>3. QED
    BY <2>1, <2>2
<1>2. QED
  BY <1>1

\* How many there are of something does not depend on who counts.
LEMMA SameCount == \A S : Searching!Cardinality(S) = Cardinality(S)
BY Zenon DEF Searching!Cardinality, Cardinality, Searching!IsFiniteSet, IsFiniteSet

\* The order of scores.
ScoreOrder(f, S) == {p \in S \X S : Searching!Ahead(f, p[1], p[2])}

\* Chunks are in a line by their scores, ties by their keys.
LEMMA ScoresInLine ==
  ASSUME NEW S \in SUBSET Chunks, NEW f, \A c \in S : f[c] \in Int
  PROVE  IsFiniteSet(S) /\ Line(S, ScoreOrder(f, S))
<1> DEFINE R == ScoreOrder(f, S)
<1>1. IsFiniteSet(S) /\ S \subseteq Nat \X Nat \X Nat
  BY ChunksAssumption, FS_Subset
<1>2. ASSUME NEW a \in S, NEW b \in S
      PROVE  /\ f[a] \in Int
             /\ ~ Searching!KeyLess(a, a)
             /\ a = b \/ Searching!KeyLess(a, b) \/ Searching!KeyLess(b, a)
             /\ <<a, b>> \in R <=>
                  f[a] > f[b] \/ (f[a] = f[b] /\ Searching!KeyLess(a, b))
  BY <1>1, KeysInLine DEF Searching!Ahead, ScoreOrder
<1>3. \A a, b, c \in S :
        Searching!KeyLess(a, b) /\ Searching!KeyLess(b, c) => Searching!KeyLess(a, c)
  BY <1>1, KeysInLine
<1> HIDE DEF R
<1>4. \A a \in S : <<a, a>> \notin R
  BY <1>2
<1>5. \A a, b \in S : a # b => <<a, b>> \in R \/ <<b, a>> \in R
  BY <1>2
<1>6. \A a, b, c \in S : <<a, b>> \in R /\ <<b, c>> \in R => <<a, c>> \in R
  BY <1>2, <1>3
<1>7. QED
  BY <1>1, <1>4, <1>5, <1>6 DEF Line, R

\* A list sorted by score has every element once, in the order of the scores.
LEMMA SortedByScore ==
  ASSUME NEW S \in SUBSET Chunks, NEW f, \A c \in S : f[c] \in Int
  PROVE  LET q == Searching!ByScore(f, S)
         IN  /\ q \in Seq(S)
             /\ \A c \in S : \E n \in 1..Len(q) : q[n] = c
             /\ \A m, n \in 1..Len(q) : m < n => <<q[m], q[n]>> \in ScoreOrder(f, S)
<1> DEFINE q == Searching!ByScore(f, S)
           R == ScoreOrder(f, S)
<1>1. ASSUME NEW c \in S
      PROVE  {b \in S : Searching!Ahead(f, b, c)} = Before(S, R, c)
  BY DEF Before, ScoreOrder
<1>2. q = [n \in 1..Searching!Cardinality(S) |->
             CHOOSE c \in S :
               Searching!Cardinality({b \in S : Searching!Ahead(f, b, c)}) = n - 1]
  BY DEF Searching!ByScore, Searching!Sorted
<1> HIDE DEF q
<1>3. ASSUME NEW n \in 1..Cardinality(S),
             \E c \in S : Cardinality(Before(S, R, c)) = n - 1
      PROVE  q[n] \in S /\ Cardinality(Before(S, R, q[n])) = n - 1
  <2>1. PICK c \in S :
          Searching!Cardinality({b \in S : Searching!Ahead(f, b, c)}) = n - 1
    BY <1>1, <1>3, SameCount
  <2>2. q[n] = CHOOSE d \in S :
                 Searching!Cardinality({b \in S : Searching!Ahead(f, b, d)}) = n - 1
    BY <1>2, SameCount
  <2>3. /\ q[n] \in S
        /\ Searching!Cardinality({b \in S : Searching!Ahead(f, b, q[n])}) = n - 1
    BY <2>1, <2>2
  <2>4. QED
    BY <1>1, <2>3, SameCount
<1>4. q \in [1..Cardinality(S) -> {q[n] : n \in 1..Cardinality(S)}]
  BY <1>2, SameCount
<1>5. Placed(q, S, R)
  BY <1>3, <1>4 DEF Placed
<1> HIDE DEF R
<1>6. /\ q \in Seq(S) /\ Len(q) = Cardinality(S) /\ Cardinality(S) \in Nat
      /\ \A c \in S : \E n \in 1..Len(q) : q[n] = c
      /\ \A m, n \in 1..Len(q) : m < n => <<q[m], q[n]>> \in R
  BY <1>5, ScoresInLine, InLine DEF R
<1>7. QED
  BY <1>6 DEF q, R

\* The first of a list.
LEMMA Firsts ==
  ASSUME NEW T, NEW s \in Seq(T), NEW n \in Nat
  PROVE  /\ Searching!Prefix(s, n) \in Seq(T)
         /\ Len(Searching!Prefix(s, n)) \in 0..Len(s)
         /\ \A i \in 1..Len(Searching!Prefix(s, n)) : Searching!Prefix(s, n)[i] = s[i]
<1> DEFINE l == Searching!Min({n, Len(s)})
<1>1. Len(s) \in Nat
  OBVIOUS
<1>2. \E x \in {n, Len(s)} : \A y \in {n, Len(s)} : x <= y
  BY <1>1
<1>3. l \in {n, Len(s)} /\ \A y \in {n, Len(s)} : l <= y
  BY <1>2 DEF Searching!Min
<1> HIDE DEF l
<1>4. l \in 0..Len(s)
  BY <1>1, <1>3
<1>5. Searching!Prefix(s, n) = SubSeq(s, 1, l)
  BY DEF Searching!Prefix, l
<1>6. QED
  BY <1>4, <1>5

\* How many candidates a list keeps.
LEMMA PoolIsNumber == ASSUME asked \in Calls PROVE Searching!Pool \in Nat
<1> DEFINE a == asked.limit * Factor
           S == {a, Least}
<1>1. a \in Nat /\ Least \in Nat
  BY CallsAssumption
<1> HIDE DEF a
<1>2. \E x \in S : \A y \in S : x >= y
  BY <1>1
<1>3. Searching!Max(S) \in S
  BY <1>2 DEF Searching!Max
<1>4. Searching!Pool = Searching!Max(S)
  BY DEF Searching!Pool, a
<1>5. QED
  BY <1>1, <1>3, <1>4

\* The best score of a list.
LEMMA BestIsBest ==
  ASSUME NEW f, DOMAIN f \subseteq Chunks, \A c \in DOMAIN f : f[c] \in Int
  PROVE  /\ Searching!Best(f) \in Int
         /\ \A c \in DOMAIN f : f[c] <= Searching!Best(f)
<1>1. CASE DOMAIN f = {}
  BY <1>1 DEF Searching!Best
<1>2. CASE DOMAIN f # {}
  <2> DEFINE S == {f[c] : c \in DOMAIN f}
             g == [c \in DOMAIN f |-> f[c]]
  <2>1. IsFiniteSet(DOMAIN f)
    BY ChunksAssumption, FS_Subset
  <2>2. g \in Surjection(DOMAIN f, S)
    BY DEF Surjection
  <2>3. IsFiniteSet(S)
    BY <2>1, <2>2, FS_Surjection
  <2>4. S \in SUBSET Int /\ S # {}
    BY <1>2
  <2> HIDE DEF S
  <2>5. Searching!Max(S) \in S /\ \A n \in S : n <= Searching!Max(S)
    BY <2>3, <2>4, Greatest
  <2>6. Searching!Best(f) = Searching!Max(S)
    BY <1>2 DEF Searching!Best, Searching!Range, S
  <2>7. QED
    BY <2>4, <2>5, <2>6 DEF S
<1>3. QED
  BY <1>1, <1>2

\* What the scores of a list are divided by.
LEMMA SizeIsPositive ==
  ASSUME NEW f, Searching!Best(f) \in Int
  PROVE  /\ Searching!Size(f) \in Nat \ {0}
         /\ Searching!Best(f) > 0 => Searching!Size(f) = Searching!Best(f)
<1> DEFINE b == Searching!Best(f)
           S == {b, -b}
<1>1. b \in Int
  OBVIOUS
<1> HIDE DEF b
<1>2. \E x \in S : \A y \in S : x >= y
  BY <1>1
<1>3. Searching!Max(S) \in S /\ \A y \in S : Searching!Max(S) >= y
  BY <1>2 DEF Searching!Max
<1>4. Searching!Size(f) = IF b = 0 THEN 1 ELSE Searching!Max(S)
  BY DEF Searching!Size, b
<1>5. QED
  BY <1>1, <1>3, <1>4 DEF b

\* A score in the unit of its list.
LEMMA ShareIsNumber ==
  ASSUME NEW f, Searching!Best(f) \in Int, \A c \in DOMAIN f : f[c] \in Int, NEW c
  PROVE  Searching!At(f, c) \in Int /\ Searching!Share(f, c) \in Int
BY DEF Searching!Share, Searching!At

\* Products of numbers, for the weights.
LEMMA Products ==
  /\ \A x, y \in Int : x * y \in Int
  /\ \A x, y \in Nat : x * y \in Nat
  /\ \A x, y \in Nat \ {0} : x * y \in Nat \ {0}
  /\ \A x, y, z \in Int : x * (y - z) = x * y - x * z
  /\ \A x, y, z \in Int : (y - z) * x = y * x - z * x
OBVIOUS

\* Fused scores are numbers.
LEMMA FusedInt ==
  ASSUME NEW k, NEW v, DOMAIN k \subseteq Chunks, DOMAIN v \subseteq Chunks,
         \A c \in DOMAIN k : k[c] \in Nat, \A c \in DOMAIN v : v[c] \in Int
  PROVE  /\ DOMAIN Searching!Fused(k, v) = DOMAIN k \cup DOMAIN v
         /\ \A c \in DOMAIN k \cup DOMAIN v : Searching!Fused(k, v)[c] \in Int
<1>1. /\ Searching!Best(k) \in Int /\ Searching!Best(v) \in Int
      /\ \A c \in DOMAIN k : k[c] \in Int
  BY BestIsBest
<1>2. Searching!Size(k) \in Nat \ {0} /\ Searching!Size(v) \in Nat \ {0}
  BY <1>1, SizeIsPositive
<1>3. \A c : Searching!Share(k, c) \in Int /\ Searching!Share(v, c) \in Int
  BY <1>1, ShareIsNumber
<1>4. Full - Weight \in Int /\ Weight \in Int
  BY ScoresAssumption
<1>5. ASSUME NEW c \in DOMAIN k \cup DOMAIN v
      PROVE  Searching!Fused(k, v)[c] \in Int
  <2>1. /\ (Full - Weight) * Searching!Share(k, c) \in Int
        /\ Weight * Searching!Share(v, c) \in Int
    BY <1>3, <1>4, Products
  <2>2. /\ (Full - Weight) * Searching!Share(k, c) * Searching!Size(v) \in Int
        /\ Weight * Searching!Share(v, c) * Searching!Size(k) \in Int
    BY <1>2, <2>1, Products
  <2>3. Searching!Fused(k, v)[c] =
          (Full - Weight) * Searching!Share(k, c) * Searching!Size(v)
            + Weight * Searching!Share(v, c) * Searching!Size(k)
    BY DEF Searching!Fused
  <2>4. QED
    BY <2>2, <2>3
<1>6. QED
  BY <1>5 DEF Searching!Fused

\* They are higher for what has the better keywords and no worse a vector.
LEMMA FusedOrder ==
  ASSUME NEW k, NEW v, DOMAIN k \subseteq Chunks, DOMAIN v \subseteq Chunks,
         \A c \in DOMAIN k : k[c] \in Nat, \A c \in DOMAIN v : v[c] \in Int,
         DOMAIN v = {} \/ Searching!Best(v) >= 0, Weight < Full,
         NEW a \in DOMAIN k \cup DOMAIN v, NEW b \in DOMAIN k \cup DOMAIN v,
         Searching!At(k, a) > Searching!At(k, b), Searching!At(v, a) >= Searching!At(v, b)
  PROVE  Searching!Fused(k, v)[a] > Searching!Fused(k, v)[b]
<1> DEFINE ka == Searching!Share(k, a)
           kb == Searching!Share(k, b)
           va == Searching!Share(v, a)
           vb == Searching!Share(v, b)
           sk == Searching!Size(k)
           sv == Searching!Size(v)
           w == Full - Weight
<1>1. /\ Searching!Best(k) \in Int /\ Searching!Best(v) \in Int
      /\ \A c \in DOMAIN k : k[c] \in Int /\ k[c] <= Searching!Best(k)
  BY BestIsBest
<1>2. Searching!Best(k) > 0
  <2>1. Searching!At(k, b) >= 0 /\ a \in DOMAIN k
    BY DEF Searching!At
  <2>2. QED
    BY <1>1, <2>1 DEF Searching!At
<1>3. Searching!Best(v) >= 0
  BY DEF Searching!Best
<1>4. sk \in Nat \ {0} /\ sv \in Nat \ {0}
  BY <1>1, SizeIsPositive
<1>5. w \in Nat \ {0} /\ Weight \in Nat
  BY ScoresAssumption
<1>6. ka \in Int /\ kb \in Int /\ va \in Int /\ vb \in Int
  BY <1>1, ShareIsNumber
<1>7. ka - kb \in Nat \ {0} /\ va - vb \in Nat
  <2>1. ka = Searching!At(k, a) /\ kb = Searching!At(k, b)
    BY <1>1, <1>2 DEF Searching!Share
  <2>2. va >= vb
    BY <1>1, <1>3, ShareIsNumber DEF Searching!Share
  <2>3. QED
    BY <1>6, <2>1, <2>2
<1>8. /\ Searching!Fused(k, v)[a] = w * ka * sv + Weight * va * sk
      /\ Searching!Fused(k, v)[b] = w * kb * sv + Weight * vb * sk
  BY DEF Searching!Fused
<1> HIDE DEF ka, kb, va, vb, sk, sv, w
<1>9. PICK x \in Int, y \in Int, p \in Int, q \in Int :
        /\ x = w * ka /\ y = w * kb /\ p = Weight * va /\ q = Weight * vb
        /\ x - y \in Nat \ {0} /\ p - q \in Nat
  <2>1. /\ w * (ka - kb) \in Nat \ {0} /\ Weight * (va - vb) \in Nat
        /\ w * (ka - kb) = w * ka - w * kb
        /\ Weight * (va - vb) = Weight * va - Weight * vb
        /\ w * ka \in Int /\ w * kb \in Int /\ Weight * va \in Int /\ Weight * vb \in Int
    BY <1>5, <1>6, <1>7, Products
  <2>2. QED
    BY <2>1
<1>10. /\ (x - y) * sv \in Nat \ {0} /\ (p - q) * sk \in Nat
       /\ x * sv \in Int /\ y * sv \in Int /\ p * sk \in Int /\ q * sk \in Int
  <2>1. (x - y) * sv \in Nat \ {0}
    BY <1>4, <1>9, Products
  <2>2. sv \in Int /\ sk \in Int /\ sk \in Nat /\ p - q \in Nat
    BY <1>4, <1>9
  <2>3. (p - q) * sk \in Nat
    BY <2>2, Products
  <2>4. x * sv \in Int /\ y * sv \in Int /\ p * sk \in Int /\ q * sk \in Int
    BY <2>2, Products
  <2>5. QED
    BY <2>1, <2>3, <2>4
<1>11. (x - y) * sv = x * sv - y * sv /\ (p - q) * sk = p * sk - q * sk
  BY SMTT(60), <1>4, <1>9, Products
<1>12. x * sv + p * sk > y * sv + q * sk
  BY SMTT(60), <1>10, <1>11
<1>13. QED
  BY <1>8, <1>9, <1>12

(***************************************************************************)
(* What a statement may select has been visible since the search was        *)
(* authorized, because every change of it is noted (FoundVisible); and what *)
(* has a better score than an element of the list is in the list before it, *)
(* which cutting the list keeps (Listed).                                  *)
(***************************************************************************)
Statements == {"keyword", "target", "embed", "vector"}
RankedSteps == {"rerank", "found", "reranked", "degraded"}

\* What is searched for, and how: a search by vectors has no keywords.
Asked ==
  /\ asked \in Calls \cup {[mode |-> "none"]}
  /\ doing # "waiting" => asked \in Calls
  /\ asked.mode = "vector" => DOMAIN keyword = {} /\ doing # "keyword"

\* What a statement may select has been noted, and so has what they found.
FoundVisible ==
  /\ met \subseteq Chunks
  /\ doing \in Statements => Searching!Candidates \subseteq met
  /\ DOMAIN keyword \subseteq met /\ \A c \in DOMAIN keyword : keyword[c] \in KeywordScores
  /\ DOMAIN vector \subseteq met /\ \A c \in DOMAIN vector : vector[c] \in VectorScores
  /\ doing \in {"waiting", "require"} => DOMAIN keyword = {} /\ DOMAIN vector = {}

\* Whatever has a better score than one that is listed is listed before it.
InOrder(list, f) ==
  \A m \in 1..Len(list) : \A a \in DOMAIN f :
    f[a] > f[list[m]] => \E n \in 1..(m - 1) : list[n] = a

Listed ==
  doing \in RankedSteps =>
    /\ score = Searching!Scores
    /\ ordered \in Seq(DOMAIN score)
    /\ doing # "reranked" => InOrder(ordered, score)

FindInv == Asked /\ FoundVisible /\ Listed

LEMMA CandidatesAreChunks == Searching!Candidates \subseteq Chunks
BY DEF Searching!Candidates, Searching!Visible, Searching!Live

LEMMA FindInitial == Searching!Init => FindInv
BY DEF Searching!Init, FindInv, Asked, FoundVisible, Listed, Statements, RankedSteps

\* Scores, merged or not, are numbers of chunks that were found.
LEMMA ScoresAreNumbers ==
  ASSUME FindInv, asked \in Calls
  PROVE  /\ DOMAIN Searching!Scores \subseteq Chunks
         /\ DOMAIN Searching!Scores \subseteq DOMAIN keyword \cup DOMAIN vector
         /\ \A c \in DOMAIN Searching!Scores : Searching!Scores[c] \in Int
<1>1. /\ DOMAIN keyword \subseteq Chunks /\ DOMAIN vector \subseteq Chunks
      /\ \A c \in DOMAIN keyword : keyword[c] \in Nat
      /\ \A c \in DOMAIN vector : vector[c] \in Int
  BY ScoresAssumption DEF FindInv, FoundVisible
<1>2. asked.mode \in {"keyword", "vector", "hybrid"}
  BY CallsAssumption
<1>3. CASE asked.mode = "keyword"
  BY <1>1, <1>3 DEF Searching!Scores
<1>4. CASE asked.mode = "vector"
  BY <1>1, <1>4 DEF Searching!Scores
<1>5. CASE asked.mode = "hybrid"
  <2>1. Searching!Scores = Searching!Fused(keyword, vector)
    BY <1>5 DEF Searching!Scores
  <2>2. QED
    BY <1>1, <2>1, FusedInt
<1>6. QED
  BY <1>2, <1>3, <1>4, <1>5

\* A search begins.
LEMMA BeginFinds ==
  ASSUME FindInv, NEW c \in Calls, NEW g, Searching!Begin(c, g)
  PROVE  FindInv'
<1>1. c.mode = "vector" => DOMAIN keyword = {}
  BY DEF FindInv, FoundVisible, Searching!Begin
<1>2. QED
  BY <1>1 DEF FindInv, Asked, FoundVisible, Listed, Statements, RankedSteps,
     Searching!Begin, Searching!Goto, Searching!knowledge, Searching!found

LEMMA RequireFinds ==
  ASSUME FindInv, Searching!Require
  PROVE  FindInv'
<1>1. /\ doing = "require" /\ asked \in Calls
      /\ doing' \in {"KB_NOT_FOUND", "SCOPE_NOT_FOUND", "target", "keyword"}
      /\ doing' = "keyword" => asked.mode # "vector"
      /\ met' = Searching!Candidates
      /\ UNCHANGED <<current, removed, inside, standing, asked, keyword, vector>>
  BY DEF FindInv, Asked, Searching!Require, Searching!Goto, Searching!knowledge,
     Searching!found, Searching!Candidates
<1>2. Searching!Candidates' = Searching!Candidates
  BY <1>1 DEF Searching!Candidates, Searching!Visible, Searching!Live, Searching!InScope,
     Searching!Documents
<1>3. Asked'
  BY <1>1 DEF FindInv, Asked
<1>4. FoundVisible'
  BY <1>1, <1>2, CandidatesAreChunks DEF FindInv, FoundVisible
<1>5. Listed'
  BY <1>1 DEF Listed, RankedSteps
<1>6. QED
  BY <1>3, <1>4, <1>5 DEF FindInv

\* Scores of every kind are numbers.
LEMMA ScoreKinds ==
  /\ \A n \in KeywordScores : n \in Nat /\ n \in Int
  /\ \A n \in VectorScores \cup RerankScores : n \in Int
BY ScoresAssumption

LEMMA KeywordFinds ==
  ASSUME FindInv, Searching!Keyword
  PROVE  FindInv'
<1>1. PICK M \in SUBSET Searching!Candidates : \E rank \in [M -> KeywordScores] :
        keyword' = [c \in Searching!ToSet(Searching!Prefix(Searching!ByScore(rank, M),
                                                           Searching!Pool)) |-> rank[c]]
  BY DEF Searching!Keyword
<1>2. PICK rank \in [M -> KeywordScores] :
        keyword' = [c \in Searching!ToSet(Searching!Prefix(Searching!ByScore(rank, M),
                                                           Searching!Pool)) |-> rank[c]]
  BY <1>1
<1>3. /\ doing = "keyword" /\ doing' \in {"target", "merge"} /\ asked \in Calls
      /\ UNCHANGED <<current, removed, inside, standing, asked, vector, met>>
  BY DEF FindInv, Asked, Searching!Keyword, Searching!Goto, Searching!knowledge
<1>4. /\ M \in SUBSET Chunks /\ M \subseteq met
      /\ \A c \in M : rank[c] \in KeywordScores
      /\ \A c \in M : rank[c] \in Int
  <2>1. Searching!Candidates \subseteq met
    BY <1>3 DEF FindInv, FoundVisible, Statements
  <2>2. \A c \in M : rank[c] \in KeywordScores
    BY <1>2
  <2>3. \A c \in M : rank[c] \in Int
    BY <2>2, ScoreKinds
  <2>4. QED
    BY <2>1, <2>2, <2>3, CandidatesAreChunks
<1>5. Searching!ByScore(rank, M) \in Seq(M)
  BY <1>4, SortedByScore
<1>6. Searching!Prefix(Searching!ByScore(rank, M), Searching!Pool) \in Seq(M)
  BY <1>3, <1>5, PoolIsNumber, Firsts
<1>7. Searching!ToSet(Searching!Prefix(Searching!ByScore(rank, M), Searching!Pool))
        \subseteq M
  BY <1>6 DEF Searching!ToSet
<1>8. /\ DOMAIN keyword' \subseteq M
      /\ \A c \in DOMAIN keyword' : keyword'[c] = rank[c]
  BY <1>2, <1>7
<1>9. Searching!Candidates' = Searching!Candidates
  BY <1>3 DEF Searching!Candidates, Searching!Visible, Searching!Live, Searching!InScope,
     Searching!Documents
<1>10. Asked'
  BY <1>3 DEF FindInv, Asked
<1>11. FoundVisible'
  BY <1>3, <1>4, <1>8, <1>9 DEF FindInv, FoundVisible, Statements
<1>12. Listed'
  BY <1>3 DEF Listed, RankedSteps
<1>13. QED
  BY <1>10, <1>11, <1>12 DEF FindInv

LEMMA EmbedFinds ==
  ASSUME FindInv, Searching!VectorTarget \/ Searching!EmbedQuery
  PROVE  FindInv'
<1>1. /\ doing \in {"target", "embed"} /\ asked \in Calls
      /\ doing' \in {"embed", "REINDEX_REQUIRED", "NO_ASSIGNMENT",
                     "INVALID_EMBEDDING_RESPONSE", "vector"}
      /\ UNCHANGED <<current, removed, inside, standing, asked, keyword, vector, met>>
  BY DEF FindInv, Asked, Searching!VectorTarget, Searching!EmbedQuery, Searching!Goto,
     Searching!knowledge, Searching!found
<1>2. Searching!Candidates' = Searching!Candidates
  BY <1>1 DEF Searching!Candidates, Searching!Visible, Searching!Live, Searching!InScope,
     Searching!Documents
<1>3. Asked'
  BY <1>1 DEF FindInv, Asked
<1>4. FoundVisible'
  BY <1>1, <1>2 DEF FindInv, FoundVisible, Statements
<1>5. Listed'
  BY <1>1 DEF Listed, RankedSteps
<1>6. QED
  BY <1>3, <1>4, <1>5 DEF FindInv

LEMMA VectorFinds ==
  ASSUME FindInv, Searching!Vector
  PROVE  FindInv'
<1> DEFINE S == {c \in Searching!Candidates : Label[c] = chosen}
<1>1. PICK rank \in [S -> VectorScores] : \E near \in SUBSET DOMAIN rank :
        vector' = [c \in near |-> rank[c]]
  BY DEF Searching!Vector
<1>2. /\ doing = "vector" /\ doing' = "merge" /\ asked \in Calls
      /\ UNCHANGED <<current, removed, inside, standing, asked, keyword, met>>
  BY DEF FindInv, Asked, Searching!Vector, Searching!Goto, Searching!knowledge
<1>3. S \subseteq met
  BY <1>2 DEF FindInv, FoundVisible, Statements
<1>4. /\ DOMAIN vector' \subseteq met
      /\ \A c \in DOMAIN vector' : vector'[c] \in VectorScores
  BY <1>1, <1>3
<1>5. Asked'
  BY <1>2 DEF FindInv, Asked
<1>6. FoundVisible'
  BY <1>2, <1>4 DEF FindInv, FoundVisible, Statements
<1>7. Listed'
  BY <1>2 DEF Listed, RankedSteps
<1>8. QED
  BY <1>5, <1>6, <1>7 DEF FindInv

\* The first of a list that is in order are in order.
LEMMA FirstsInOrder ==
  ASSUME NEW T, NEW s \in Seq(T), NEW n \in Nat, NEW f, InOrder(s, f)
  PROVE  InOrder(Searching!Prefix(s, n), f)
<1> DEFINE p == Searching!Prefix(s, n)
<1>1. Len(p) \in 0..Len(s) /\ Len(s) \in Nat /\ \A i \in 1..Len(p) : p[i] = s[i]
  BY Firsts
<1> HIDE DEF p
<1>2. ASSUME NEW m \in 1..Len(p), NEW a \in DOMAIN f, f[a] > f[p[m]]
      PROVE  \E i \in 1..(m - 1) : p[i] = a
  <2>1. m \in 1..Len(s) /\ p[m] = s[m]
    BY <1>1
  <2>2. PICK i \in 1..(m - 1) : s[i] = a
    BY <1>2, <2>1 DEF InOrder
  <2>3. i \in 1..Len(p)
    BY <1>1
  <2>4. QED
    BY <1>1, <2>2, <2>3
<1>3. QED
  BY <1>2 DEF InOrder, p

LEMMA MergeFinds ==
  ASSUME FindInv, Searching!Merge
  PROVE  FindInv'
<1> DEFINE f == Searching!Scores
           S == {c \in DOMAIN f : f[c] >= Searching!Threshold}
           q == Searching!ByScore(f, S)
<1>1. /\ doing = "merge" /\ doing' = "rerank" /\ asked \in Calls
      /\ score' = f /\ ordered' = Searching!Prefix(q, Searching!Pool)
      /\ UNCHANGED <<asked, keyword, vector, met>>
  BY DEF FindInv, Asked, Searching!Merge, Searching!Goto, Searching!found
<1>2. f' = f
  BY <1>1 DEF Searching!Scores
<1>3. S \in SUBSET Chunks /\ S \subseteq DOMAIN f /\ \A c \in DOMAIN f : f[c] \in Int
  BY <1>1, ScoresAreNumbers
<1>4. Searching!Threshold \in Int
  <2>1. /\ asked.threshold \in Int
        /\ DOMAIN keyword \subseteq Chunks /\ DOMAIN vector \subseteq Chunks
        /\ \A c \in DOMAIN keyword : keyword[c] \in Int
        /\ \A c \in DOMAIN vector : vector[c] \in Int
    <3>1. asked.threshold \in Int
      BY <1>1, CallsAssumption
    <3>2. /\ DOMAIN keyword \subseteq Chunks /\ DOMAIN vector \subseteq Chunks
          /\ \A c \in DOMAIN keyword : keyword[c] \in KeywordScores
          /\ \A c \in DOMAIN vector : vector[c] \in VectorScores
      BY DEF FindInv, FoundVisible
    <3>3. QED
      BY <3>1, <3>2, ScoreKinds
  <2>2. Searching!Size(keyword) \in Int /\ Searching!Size(vector) \in Int
    BY <2>1, BestIsBest, SizeIsPositive
  <2>3. /\ asked.threshold * Searching!Size(keyword) \in Int
        /\ asked.threshold * Searching!Size(keyword) * Searching!Size(vector) \in Int
    BY <2>1, <2>2, Products
  <2>4. QED
    BY <2>1, <2>3 DEF Searching!Threshold
<1>5. /\ q \in Seq(S)
      /\ \A c \in S : \E n \in 1..Len(q) : q[n] = c
      /\ \A m, n \in 1..Len(q) : m < n => <<q[m], q[n]>> \in ScoreOrder(f, S)
  BY <1>3, SortedByScore
<1>6. \A a, b \in S : <<a, b>> \in ScoreOrder(f, S) => f[a] >= f[b]
  BY <1>3 DEF ScoreOrder, Searching!Ahead
<1>7. \A a \in DOMAIN f : \A b \in S : f[a] > f[b] => a \in S
  BY <1>3, <1>4
<1>8. \A c \in S : f[c] \in Int
  BY <1>3
<1> HIDE DEF f, S, q
<1>9. Len(q) \in Nat /\ \A n \in 1..Len(q) : q[n] \in S
  BY <1>5
<1>10. InOrder(q, f)
  <2>1. SUFFICES ASSUME NEW m \in 1..Len(q), NEW a \in DOMAIN f, f[a] > f[q[m]]
                 PROVE  \E n \in 1..(m - 1) : q[n] = a
    BY DEF InOrder
  <2>2. a \in S
    BY <1>7, <1>9, <2>1
  <2>3. PICK n \in 1..Len(q) : q[n] = a
    BY <1>5, <2>2
  <2>4. n # m
    BY <1>8, <1>9, <2>1, <2>2, <2>3
  <2>5. ~ m < n
    <3>1. SUFFICES ASSUME m < n PROVE FALSE
      OBVIOUS
    <3>2. <<q[m], q[n]>> \in ScoreOrder(f, S)
      BY <1>5, <3>1
    <3>3. f[q[m]] >= f[a]
      BY <1>6, <1>9, <2>2, <2>3, <3>2
    <3>4. f[q[m]] \in Int /\ f[a] \in Int
      BY <1>8, <1>9, <2>2
    <3>5. QED
      BY <2>1, <3>3, <3>4
  <2>6. n \in 1..(m - 1)
    BY <1>9, <2>4, <2>5
  <2>7. QED
    BY <2>3, <2>6
<1>11. Searching!Prefix(q, Searching!Pool) \in Seq(S)
  BY <1>1, <1>5, PoolIsNumber, Firsts
<1>12. InOrder(ordered', f)
  BY <1>1, <1>5, <1>10, PoolIsNumber, FirstsInOrder
<1>13. ordered' \in Seq(DOMAIN f)
  BY <1>1, <1>3, <1>11
<1>14. Listed'
  BY <1>1, <1>2, <1>12, <1>13 DEF Listed, f
<1>15. Asked'
  BY <1>1 DEF FindInv, Asked
<1>16. FoundVisible'
  BY <1>1 DEF FindInv, FoundVisible, Statements
<1>17. QED
  BY <1>14, <1>15, <1>16 DEF FindInv

\* The order of a model's answer.
RerankOrder(values, S) == {p \in S \X S : Searching!InFront(values, p[1], p[2])}

\* What a model makes of a list is in a line again.
LEMMA RerankInLine ==
  ASSUME NEW S \in SUBSET Chunks, S \subseteq DOMAIN score,
         \A c \in DOMAIN score : score[c] \in Int, NEW values,
         \A c \in Searching!Named(values) : Searching!ValueOf(values, c) \in Int
  PROVE  IsFiniteSet(S) /\ Line(S, RerankOrder(values, S))
<1> DEFINE N == Searching!Named(values)
           V(c) == Searching!ValueOf(values, c)
           A == ScoreOrder(score, S)
           R == RerankOrder(values, S)
<1>1. IsFiniteSet(S) /\ Line(S, A)
  BY ScoresInLine
<1>2. ASSUME NEW a \in S, NEW b \in S
      PROVE  /\ a \in N /\ b \in N =>
                  (<<a, b>> \in R <=> V(a) > V(b) \/ (V(a) = V(b) /\ <<a, b>> \in A))
             /\ a \in N /\ b \notin N => <<a, b>> \in R
             /\ a \notin N /\ b \in N => <<a, b>> \notin R
             /\ a \notin N /\ b \notin N => (<<a, b>> \in R <=> <<a, b>> \in A)
  BY DEF Searching!InFront, RerankOrder, ScoreOrder
<1>3. \A c \in N : V(c) \in Int
  OBVIOUS
<1>4. /\ \A a \in S : <<a, a>> \notin A
      /\ \A a, b \in S : a # b => <<a, b>> \in A \/ <<b, a>> \in A
      /\ \A a, b, c \in S : <<a, b>> \in A /\ <<b, c>> \in A => <<a, c>> \in A
  BY <1>1 DEF Line
<1> HIDE DEF N, V, A, R
<1>5. ASSUME NEW a \in S, NEW b \in S
      PROVE  /\ <<a, a>> \notin R
             /\ a # b => <<a, b>> \in R \/ <<b, a>> \in R
  <2>1. <<a, a>> \notin A /\ (a # b => <<a, b>> \in A \/ <<b, a>> \in A)
    BY <1>4
  <2>2. CASE a \in N /\ b \in N
    <3>1. V(a) \in Int /\ V(b) \in Int
      BY <1>3, <2>2
    <3>2. <<a, a>> \notin R
      BY <1>2, <2>1, <2>2, <3>1
    <3>3. V(a) > V(b) \/ V(b) > V(a) \/ V(a) = V(b)
      BY <3>1
    <3>4. QED
      BY <1>2, <2>1, <2>2, <3>2, <3>3
  <2>3. CASE a \in N /\ b \notin N
    <3>1. V(a) \in Int
      BY <1>3, <2>3
    <3>2. QED
      BY <1>2, <2>1, <2>3, <3>1
  <2>4. CASE a \notin N
    BY <1>2, <2>1, <2>4
  <2>5. QED
    BY <2>2, <2>3, <2>4
<1>7. ASSUME NEW a \in S, NEW b \in S, NEW c \in S, <<a, b>> \in R, <<b, c>> \in R
      PROVE  <<a, c>> \in R
  <2>1. CASE a \in N /\ b \in N /\ c \in N
    <3>1. V(a) \in Int /\ V(b) \in Int /\ V(c) \in Int
      BY <1>3, <2>1
    <3>2. /\ V(a) > V(b) \/ (V(a) = V(b) /\ <<a, b>> \in A)
          /\ V(b) > V(c) \/ (V(b) = V(c) /\ <<b, c>> \in A)
      BY <1>2, <1>7, <2>1
    <3>3. V(a) > V(c) \/ (V(a) = V(c) /\ <<a, c>> \in A)
      BY <1>4, <3>1, <3>2
    <3>4. QED
      BY <1>2, <2>1, <3>3
  <2>2. CASE a \in N /\ c \notin N
    BY <1>2, <2>2
  <2>3. CASE a \notin N
    BY <1>2, <1>4, <1>7, <2>3
  <2>4. CASE a \in N /\ b \notin N /\ c \in N
    BY <1>2, <1>7, <2>4
  <2>5. QED
    BY <2>1, <2>2, <2>3, <2>4
<1>8. QED
  BY <1>1, <1>5, <1>7 DEF Line, R

\* So the reranked list is one of chunks that were listed.
LEMMA RerankedLists ==
  ASSUME NEW S \in SUBSET Chunks, S = Searching!ToSet(ordered), NEW values,
         IsFiniteSet(S), Line(S, RerankOrder(values, S))
  PROVE  Searching!Reranked(values) \in Seq(S)
<1> DEFINE q == Searching!Reranked(values)
           R == RerankOrder(values, S)
<1>1. ASSUME NEW c \in S
      PROVE  {b \in S : Searching!InFront(values, b, c)} = Before(S, R, c)
  BY DEF Before, RerankOrder
<1>2. q = [n \in 1..Searching!Cardinality(S) |->
             CHOOSE c \in S :
               Searching!Cardinality({b \in S : Searching!InFront(values, b, c)}) = n - 1]
  BY DEF Searching!Reranked, Searching!Sorted
<1> HIDE DEF q
<1>3. ASSUME NEW n \in 1..Cardinality(S),
             \E c \in S : Cardinality(Before(S, R, c)) = n - 1
      PROVE  q[n] \in S /\ Cardinality(Before(S, R, q[n])) = n - 1
  <2>1. PICK c \in S :
          Searching!Cardinality({b \in S : Searching!InFront(values, b, c)}) = n - 1
    BY <1>1, <1>3, SameCount
  <2>2. q[n] = CHOOSE d \in S :
                 Searching!Cardinality({b \in S : Searching!InFront(values, b, d)}) = n - 1
    BY <1>2, SameCount
  <2>3. /\ q[n] \in S
        /\ Searching!Cardinality({b \in S : Searching!InFront(values, b, q[n])}) = n - 1
    BY <2>1, <2>2
  <2>4. QED
    BY <1>1, <2>3, SameCount
<1>4. q \in [1..Cardinality(S) -> {q[n] : n \in 1..Cardinality(S)}]
  BY <1>2, SameCount
<1>5. Placed(q, S, R)
  BY <1>3, <1>4 DEF Placed
<1> HIDE DEF R
<1>6. q \in Seq(S)
  BY <1>5, InLine DEF R
<1>7. QED
  BY <1>6 DEF q

\* The list is ranked by a model or not, and cut.
LEMMA RankFinds ==
  ASSUME FindInv, Searching!Rerank \/ Searching!NoRerank
  PROVE  FindInv'
<1>1. /\ doing = "rerank" /\ asked \in Calls
      /\ doing' \in {"found", "reranked", "degraded"}
      /\ UNCHANGED <<asked, keyword, vector, met, score>>
  BY DEF FindInv, Asked, Searching!Rerank, Searching!NoRerank, Searching!Goto,
     Searching!found
<1>2. asked.limit \in Nat
  BY <1>1, CallsAssumption
<1>3. /\ score = Searching!Scores /\ ordered \in Seq(DOMAIN score)
      /\ InOrder(ordered, score)
  BY <1>1 DEF FindInv, Listed, RankedSteps
<1>4. Searching!Scores' = Searching!Scores
  BY <1>1 DEF Searching!Scores
<1>5. CASE ordered' = Searching!Prefix(ordered, asked.limit)
  <2>1. ordered' \in Seq(DOMAIN score) /\ InOrder(ordered', score)
    BY <1>2, <1>3, <1>5, Firsts, FirstsInOrder
  <2>2. Listed'
    BY <1>1, <1>3, <1>4, <2>1 DEF Listed
  <2>3. QED
    BY <1>1, <2>2 DEF FindInv, Asked, FoundVisible, Statements
<1>6. ASSUME NEW values \in Searching!Replies, doing' = "reranked",
             ordered' = Searching!Prefix(Searching!Reranked(values), asked.limit)
      PROVE  FindInv'
  <2> DEFINE S == Searching!ToSet(ordered)
  <2>1. /\ DOMAIN score \subseteq Chunks
        /\ \A c \in DOMAIN score : score[c] \in Int
    BY <1>1, <1>3, ScoresAreNumbers
  <2>2. S \subseteq DOMAIN score
    BY <1>3 DEF Searching!ToSet
  <2>3. ASSUME NEW c \in Searching!Named(values)
        PROVE  Searching!ValueOf(values, c) \in Int
    <3>1. PICK k \in {0, 1, 2} : values \in [1..k -> (0..Len(ordered)) \X RerankScores]
      BY DEF Searching!Replies
    <3>2. PICK n \in 1..k : c = ordered[values[n][1]]
      BY <3>1 DEF Searching!Named
    <3>3. \E p \in Searching!ToSet(values) : ordered[p[1]] = c
      BY <3>1, <3>2 DEF Searching!ToSet
    <3>4. PICK p \in Searching!ToSet(values) : Searching!ValueOf(values, c) = p[2]
      BY <3>3 DEF Searching!ValueOf
    <3>5. p \in (0..Len(ordered)) \X RerankScores
      BY <3>1 DEF Searching!ToSet
    <3>6. QED
      BY <3>4, <3>5, ScoreKinds
  <2>4. IsFiniteSet(S) /\ Line(S, RerankOrder(values, S))
    BY <2>1, <2>2, <2>3, RerankInLine
  <2>5. Searching!Reranked(values) \in Seq(S)
    BY <2>1, <2>2, <2>4, RerankedLists
  <2>6. ordered' \in Seq(S)
    BY <1>2, <1>6, <2>5, Firsts
  <2> HIDE DEF S
  <2>7. ordered' \in Seq(DOMAIN score)
    BY <2>2, <2>6
  <2>8. Listed'
    BY <1>1, <1>3, <1>4, <1>6, <2>7 DEF Listed
  <2>9. QED
    BY <1>1, <2>8 DEF FindInv, Asked, FoundVisible, Statements
<1>7. QED
  BY <1>5, <1>6 DEF Searching!Rerank, Searching!NoRerank, Searching!Goto

\* Whatever changes while a search is under way, what it shows then is noted.
LEMMA ChangeFinds ==
  ASSUME FindInv, Searching!Change
  PROVE  FindInv'
<1>1. /\ doing \in {"require"} \cup Statements /\ doing' = doing
      /\ UNCHANGED <<asked, keyword, vector, ordered, score>>
  BY DEF Searching!Change, Searching!Searching, Searching!found, Statements
<1>2. met' = met \cup Searching!Candidates'
  BY <1>1 DEF Searching!Change, Searching!Candidates, Searching!Visible,
     Searching!InScope
<1>3. Searching!Candidates' \subseteq Chunks
  BY DEF Searching!Candidates, Searching!Visible, Searching!Live
<1>4. Asked'
  BY <1>1 DEF FindInv, Asked
<1>5. FoundVisible'
  BY <1>1, <1>2, <1>3 DEF FindInv, FoundVisible
<1>6. Listed'
  BY <1>1 DEF Listed, RankedSteps, Statements
<1>7. QED
  BY <1>4, <1>5, <1>6 DEF FindInv

LEMMA FindStep == FindInv /\ [Searching!Next]_searching => FindInv'
<1> SUFFICES ASSUME FindInv, [Searching!Next]_searching PROVE FindInv'
  OBVIOUS
<1>1. ASSUME NEW c \in Calls, NEW g \in Models \cup {0}, Searching!Begin(c, g)
      PROVE  FindInv'
  BY <1>1, BeginFinds
<1>2. CASE Searching!Require
  BY <1>2, RequireFinds
<1>3. CASE Searching!Keyword
  BY <1>3, KeywordFinds
<1>4. CASE Searching!VectorTarget \/ Searching!EmbedQuery
  BY <1>4, EmbedFinds
<1>5. CASE Searching!Vector
  BY <1>5, VectorFinds
<1>6. CASE Searching!Merge
  BY <1>6, MergeFinds
<1>7. CASE Searching!Rerank \/ Searching!NoRerank
  BY <1>7, RankFinds
<1>8. CASE \/ \E d \in Searching!Documents :
                \/ Searching!Replace(d) \/ Searching!DeleteDocument(d) \/ Searching!Move(d)
           \/ Searching!Archive \/ Searching!Leave
           \/ \E m \in Models \cup {0} : Searching!SetScene(m)
  <2>1. Searching!Change
    BY <1>8 DEF Searching!Replace, Searching!DeleteDocument, Searching!Move,
       Searching!Archive, Searching!Leave, Searching!SetScene
  <2>2. QED
    BY <2>1, ChangeFinds
<1>9. CASE UNCHANGED searching
  <2>1. UNCHANGED <<current, removed, inside, standing, asked, keyword, vector, ordered,
                    score, doing, met>>
    BY <1>9 DEF searching
  <2>2. /\ Searching!Candidates' = Searching!Candidates
        /\ Searching!Scores' = Searching!Scores
    BY <2>1 DEF Searching!Candidates, Searching!Visible, Searching!Live,
       Searching!InScope, Searching!Scores
  <2>3. QED
    BY <2>1, <2>2 DEF FindInv, Asked, FoundVisible, Listed
<1>10. QED
  BY <1>1, <1>2, <1>3, <1>4, <1>5, <1>6, <1>7, <1>8, <1>9 DEF Searching!Next

LEMMA FindSound ==
  ASSUME FindInv
  PROVE  SearchSound
<1>1. SUFFICES ASSUME Searching!Answered
               PROVE  Searching!OnlyVisible /\ Searching!NoneOvertaken
  BY DEF SearchSound, Searching!SearchSound, Searching!OnlyVisible,
     Searching!NoneOvertaken
<1>2. /\ doing \in {"found", "reranked", "degraded"} /\ asked \in Calls
      /\ score = Searching!Scores /\ ordered \in Seq(DOMAIN score)
      /\ doing # "reranked" => InOrder(ordered, score)
  BY <1>1 DEF FindInv, Asked, Listed, RankedSteps, Searching!Answered
<1>3. /\ DOMAIN score \subseteq DOMAIN keyword \cup DOMAIN vector
      /\ DOMAIN keyword \cup DOMAIN vector \subseteq met
      /\ \A c \in DOMAIN score : score[c] \in Int
  BY <1>2, ScoresAreNumbers DEF FindInv, FoundVisible
<1>4. Searching!ToSet(ordered) \subseteq DOMAIN score
  BY <1>2 DEF Searching!ToSet
<1>5. Searching!OnlyVisible
  BY <1>3, <1>4 DEF Searching!OnlyVisible
<1>6. ASSUME doing # "reranked", Weight < Full,
             DOMAIN vector = {} \/ Searching!Best(vector) >= 0,
             NEW a \in DOMAIN score, NEW b \in DOMAIN score,
             Searching!At(keyword, a) > Searching!At(keyword, b),
             Searching!At(vector, a) >= Searching!At(vector, b)
      PROVE  score[a] > score[b]
  <2>1. asked.mode \in {"keyword", "vector", "hybrid"}
    BY <1>2, CallsAssumption
  <2>2. CASE asked.mode = "keyword"
    BY <1>2, <1>6, <2>2 DEF Searching!Scores, Searching!At
  <2>3. CASE asked.mode = "vector"
    BY <1>6, <2>3 DEF FindInv, Asked, Searching!At
  <2>4. CASE asked.mode = "hybrid"
    <3>1. score = Searching!Fused(keyword, vector)
      BY <1>2, <2>4 DEF Searching!Scores
    <3>2. /\ DOMAIN keyword \subseteq Chunks /\ DOMAIN vector \subseteq Chunks
          /\ \A c \in DOMAIN keyword : keyword[c] \in Nat
          /\ \A c \in DOMAIN vector : vector[c] \in Int
      BY ScoreKinds DEF FindInv, FoundVisible
    <3>3. a \in DOMAIN keyword \cup DOMAIN vector /\ b \in DOMAIN keyword \cup DOMAIN vector
      BY <1>3
    <3>4. Searching!Fused(keyword, vector)[a] > Searching!Fused(keyword, vector)[b]
      BY <1>6, <3>2, <3>3, FusedOrder
    <3>5. QED
      BY <3>1, <3>4
  <2>5. QED
    BY <2>1, <2>2, <2>3, <2>4
<1>7. ASSUME doing # "reranked", NEW a \in DOMAIN score, NEW b \in Searching!ToSet(ordered),
             score[a] > score[b]
      PROVE  \E n, m \in DOMAIN ordered : n < m /\ ordered[n] = a /\ ordered[m] = b
  <2>1. DOMAIN ordered = 1..Len(ordered) /\ Len(ordered) \in Nat
    BY <1>2
  <2>2. PICK m \in 1..Len(ordered) : ordered[m] = b
    BY <2>1 DEF Searching!ToSet
  <2>3. PICK n \in 1..(m - 1) : ordered[n] = a
    BY <1>2, <1>7, <2>2 DEF InOrder
  <2>4. n \in 1..Len(ordered) /\ n < m
    BY <2>1
  <2>5. QED
    BY <2>1, <2>2, <2>3, <2>4
<1>8. Searching!NoneOvertaken
  BY <1>6, <1>7 DEF Searching!NoneOvertaken
<1>9. QED
  BY <1>5, <1>8

\* Whatever changes between the statements of a search (SearchService.search), what
\* it returns was visible in its scope at some time since it was authorized, and a
\* candidate that both lists prefer is returned ahead: for any number of chunks and
\* changes, any scores, limits, thresholds and weights below one, and whatever the
\* models answer.
THEOREM FoundWasVisible == RetrievalSpec => []SearchSound
<1>1. RetrievalInit => FindInv
  BY FindInitial DEF RetrievalInit
<1>2. FindInv /\ [RetrievalNext]_<<vars, searching>> => FindInv'
  BY FindStep DEF RetrievalNext
<1>3. FindInv => SearchSound
  BY FindSound
<1>4. QED
  BY <1>1, <1>2, <1>3, PTL DEF RetrievalSpec
=============================================================================
