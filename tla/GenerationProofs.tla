-------------------------- MODULE GenerationProofs --------------------------
(***************************************************************************)
(* What wait_for_completion answers, for every set of texts, every number  *)
(* of samples, every time limit and any number of changes of the page and  *)
(* of queries that raise.                                                  *)
(***************************************************************************)
EXTENDS Generation, Integers, TLAPS

-----------------------------------------------------------------------------
(* The elements and the pages.                                             *)

Names == {"composer", "stop", "indicator", "retry", "error", "stopped", "network", "turns"}

\* The queries of inspect(), in their order.
LEMMA EightElements ==
    /\ Len(Elements) = 8
    /\ Elements[1] = "composer" /\ Elements[2] = "stop" /\ Elements[3] = "indicator"
    /\ Elements[4] = "retry" /\ Elements[5] = "error" /\ Elements[6] = "stopped"
    /\ Elements[7] = "network" /\ Elements[8] = "turns"
BY DEF Elements

\* The elements looked for by the first n queries.
Asked(n) == {Elements[i] : i \in 1..n}

\* One query more looks for one element more, and eight look for all.
LEMMA AskedGrows ==
    /\ \A n \in 0..7 : Asked(n + 1) = Asked(n) \cup {Elements[n + 1]}
    /\ Asked(8) = Names
    /\ Asked(0) = {}
<1>1. ASSUME NEW n \in 0..7 PROVE Asked(n + 1) = Asked(n) \cup {Elements[n + 1]}
  <2>1. 1..(n + 1) = (1..n) \cup {n + 1}
    OBVIOUS
  <2> QED BY <2>1 DEF Asked
<1>2. Asked(8) = Names
  <2>1. 1..8 = {1, 2, 3, 4, 5, 6, 7, 8}
    OBVIOUS
  <2>2. Asked(8) = {Elements[1], Elements[2], Elements[3], Elements[4],
                    Elements[5], Elements[6], Elements[7], Elements[8]}
    BY <2>1 DEF Asked
  <2> QED BY <2>2, EightElements DEF Names
<1>3. Asked(0) = {}
  BY DEF Asked
<1> QED BY <1>1, <1>2, <1>3

\* What each mode shows, one mode at a time.
LEMMA PagesShow ==
    /\ Modes = {"loading", "empty", "generating", "answered",
                "retryable", "stopped", "failed", "offline"}
    /\ Shown["loading"] = {}
    /\ Shown["empty"] = {"composer"}
    /\ Shown["generating"] = {"composer", "turns", "stop", "indicator"}
    /\ Shown["answered"] = {"composer", "turns"}
    /\ Shown["retryable"] = {"composer", "turns", "retry"}
    /\ Shown["stopped"] = {"composer", "stopped"}
    /\ Shown["failed"] = {"composer", "turns", "retry", "error"}
    /\ Shown["offline"] = {"turns", "stop", "network"}
BY DEF Modes, Shown

\* A page shows nothing inspect() does not look for, and a text only where it
\* shows turns.
LEMMA PageFacts ==
    ASSUME NEW m, NEW t, <<m, t>> \in Pages
    PROVE  /\ m \in Modes
           /\ t \in Texts \cup {NoText}
           /\ Shown[m] \subseteq Names
           /\ t # NoText => "turns" \in Shown[m]
<1>1. m \in Modes /\ t \in Texts \cup {NoText}
  BY DEF Pages
<1>2. Shown[m] \subseteq Names
  BY <1>1, PagesShow DEF Names
<1>3. "turns" \notin Shown[m] => t = NoText
  BY DEF Pages
<1> QED BY <1>1, <1>2, <1>3

-----------------------------------------------------------------------------
(* detect_state on what one page shows.                                    *)

\* A verdict is a state of the enumeration.
LEMMA VerdictIsState ==
    ASSUME NEW found, NEW t PROVE Verdict(found, t) \in GenerationState
BY DEF Verdict, GenerationState

\* The verdict is the first state of the ranking that is true of the page.
FirstMeant(state, m, t) ==
    \E i \in DOMAIN Ranking :
        /\ state = Ranking[i]
        /\ Means(Ranking[i], m, t)
        /\ \A j \in 1..(i - 1) : ~Means(Ranking[j], m, t)

\* The ranking of the comment, written out.
LEMMA RankingIs ==
    /\ DOMAIN Ranking = 1..8
    /\ Ranking[1] = "NETWORK_FAILURE" /\ Ranking[2] = "ERROR" /\ Ranking[3] = "GENERATING"
    /\ Ranking[4] = "COMPLETED" /\ Ranking[5] = "RETRY_AVAILABLE" /\ Ranking[6] = "STOPPED"
    /\ Ranking[7] = "UNAVAILABLE" /\ Ranking[8] = "UNCERTAIN"
BY DEF Ranking

\* What the states of the ranking mean, one state at a time.
LEMMA Meanings ==
    ASSUME NEW m, NEW t
    PROVE  /\ Means(Ranking[1], m, t) <=> m = "offline"
           /\ Means(Ranking[2], m, t) <=> m = "failed"
           /\ Means(Ranking[3], m, t) <=> m = "generating"
           /\ Means(Ranking[4], m, t) <=> t \notin Empty
           /\ Means(Ranking[5], m, t) <=> m = "retryable"
           /\ Means(Ranking[6], m, t) <=> m = "stopped"
           /\ Means(Ranking[7], m, t) <=> m = "loading"
           /\ Means(Ranking[8], m, t)
BY RankingIs DEF Means

\* The order of the branches of detect_state is the order of the ranking.
LEMMA VerdictIsFirstMeant ==
    ASSUME NEW m, NEW t, <<m, t>> \in Pages
    PROVE  FirstMeant(Verdict(Shown[m], t), m, t)
<1> DEFINE v == Verdict(Shown[m], t)
<1>1. /\ m \in Modes
      /\ t \notin Empty => "turns" \in Shown[m]
  BY PageFacts DEF Empty
<1>2. ASSUME NEW i \in 1..8, v = Ranking[i], Means(Ranking[i], m, t),
             \A j \in 1..8 : j < i => ~Means(Ranking[j], m, t)
      PROVE  FirstMeant(v, m, t)
  BY <1>2, RankingIs DEF FirstMeant
<1>3. CASE m = "offline"
  <2>1. v = Ranking[1]
    BY <1>3, PagesShow, RankingIs DEF Verdict
  <2> QED BY <1>2, <1>3, <2>1, Meanings
<1>4. CASE m = "failed"
  <2>1. v = Ranking[2]
    BY <1>4, PagesShow, RankingIs DEF Verdict
  <2> QED BY <1>2, <1>4, <2>1, Meanings
<1>5. CASE m = "generating"
  <2>1. v = Ranking[3]
    BY <1>5, PagesShow, RankingIs DEF Verdict
  <2> QED BY <1>2, <1>5, <2>1, Meanings
<1>6. CASE m \notin {"offline", "failed", "generating"} /\ t \notin Empty
  <2>1. v = Ranking[4]
    BY <1>1, <1>6, PagesShow, RankingIs DEF Verdict
  <2> QED BY <1>2, <1>6, <2>1, Meanings
<1>7. CASE m = "retryable" /\ t \in Empty
  <2>1. v = Ranking[5]
    BY <1>7, PagesShow, RankingIs DEF Verdict
  <2> QED BY <1>2, <1>7, <2>1, Meanings
<1>8. CASE m = "stopped" /\ t \in Empty
  <2>1. v = Ranking[6]
    BY <1>8, PagesShow, RankingIs DEF Verdict
  <2> QED BY <1>2, <1>8, <2>1, Meanings
<1>9. CASE m = "loading" /\ t \in Empty
  <2>1. v = Ranking[7]
    BY <1>9, PagesShow, RankingIs DEF Verdict
  <2> QED BY <1>2, <1>9, <2>1, Meanings
<1>10. CASE m \in {"empty", "answered"} /\ t \in Empty
  <2>1. v = Ranking[8]
    BY <1>10, PagesShow, RankingIs DEF Verdict
  <2> QED BY <1>2, <1>10, <2>1, Meanings
<1> QED BY <1>1, <1>3, <1>4, <1>5, <1>6, <1>7, <1>8, <1>9, <1>10, PagesShow

-----------------------------------------------------------------------------
(* The inductive invariants.                                               *)

\* Types, how many elements have been looked for at each label, and the timer:
\* past the limit no new round of queries begins.
RoundInv ==
    /\ TypeOK
    /\ pc = "look" => asked < 8
    /\ pc \in {"judge", "judged"} => asked = 8
    /\ pc \in {"look", "judge", "judged", "sleep"} => clock <= TimeLimit

\* What was found of a page that kept still is what it shows.
StillInv ==
    /\ pc \in {"look", "judge"} /\ quiet => present = Shown[mode] \cap Asked(asked)
    /\ pc = "judged" /\ quiet => verdict = Verdict(Shown[mode], text)

\* While the page has always shown a response since the check began, the
\* turns, which are looked for last, are only missed when their query raises.
ResponseInv ==
    /\ pc \in {"look", "judge"} /\ ~unheard /\ ~blank =>
          /\ text \notin Empty
          /\ asked = 8 => "turns" \in present
    /\ RetryOnlyWithoutResponse

\* The stop button has been looked for and was not found.
MissedStop == pc \in {"look", "judge", "judged"} /\ asked >= 2 /\ "stop" \notin present

\* The last n samples are the text t.
TailIs(n, t) == \A i \in (Len(samples) - n + 1)..Len(samples) : samples[i] = t

\* What goes wrong for the monitor: changes of the page and queries that raise.
Mishaps == changes + failures

\* How far the monitor is from another sample of a text that is only shown
\* while generating: of a page that generates, one of the two signs of it may be
\* missed so far, or both.
Extra ==
    IF mode # "generating" THEN 0
    ELSE IF ~MissedStop THEN -1
    ELSE IF asked = 2 THEN 0
    ELSE IF "indicator" \notin present THEN 1 ELSE -1

\* What n samples of such a text cost in mishaps: for each of them the page must
\* have stopped generating before the two signs were looked for, and begun again
\* before the text was read, or both queries must have raised.
Cost(n) == (2 * n) + Extra

Debts ==
    \A t \in Texts \ settled : \A n \in 0..Len(samples) :
        TailIs(n, t) => Mishaps >= Cost(n)

DeceptionInv ==
    /\ mode # "generating" => text \in settled
    /\ pc = "judged" /\ verdict = "COMPLETED" => {"stop", "indicator"} \cap present = {}
    /\ Debts
    /\ NoPartialText

-----------------------------------------------------------------------------
(* Types and rounds.                                                       *)

\* A query, answered or raising, keeps its counter within the bound.
LEMMA QueryTyped ==
    ASSUME TypeOK, QueryAnswers \/ QueryRaises
    PROVE  failures' \in 0..MaxFailures /\ quiet' \in BOOLEAN
<1>1. failures' \in 0..MaxFailures
  <2>1. failures \in 0..MaxFailures
    BY DEF TypeOK
  <2>2. failures' = failures \/ (failures < MaxFailures /\ failures' = failures + 1)
    BY DEF QueryAnswers, QueryRaises
  <2> QED BY <2>1, <2>2, GenerationAssumption
<1>2. quiet' \in BOOLEAN
  <2>1. quiet \in BOOLEAN
    BY DEF TypeOK
  <2>2. quiet' = quiet \/ quiet' = FALSE
    BY DEF QueryAnswers, QueryRaises
  <2> QED BY <2>1, <2>2
<1> QED BY <1>1, <1>2

LEMMA RoundInit == Init => RoundInv
<1> SUFFICES ASSUME Init PROVE RoundInv
  OBVIOUS
<1>1. PICK p \in Pages : mode = p[1] /\ text = p[2]
  BY DEF Init
<1>2. <<mode, text>> \in Pages /\ text \in Texts \cup {NoText}
  BY <1>1 DEF Pages
<1>3. settled \subseteq Texts \cup {NoText}
  BY <1>2 DEF Init, Settled
<1>4. /\ pc = "check" /\ present = {} /\ asked = 0 /\ verdict = "UNCERTAIN"
      /\ samples = <<>> /\ clock = 0 /\ result = NoResult /\ changes = 0 /\ failures = 0
  BY DEF Init
<1>5. quiet \in BOOLEAN /\ blank \in BOOLEAN /\ unheard \in BOOLEAN
  BY DEF Init
<1>6. samples \in Seq(Texts) /\ verdict \in GenerationState
  BY <1>4 DEF GenerationState
<1>7. asked \in 0..8 /\ clock \in 0..(TimeLimit + 1) /\ changes \in 0..MaxChanges
      /\ failures \in 0..MaxFailures
  BY <1>4, GenerationAssumption
<1>8. TypeOK
  BY <1>2, <1>3, <1>4, <1>5, <1>6, <1>7, EightElements DEF TypeOK
<1> QED BY <1>4, <1>8 DEF RoundInv

LEMMA RoundStep == RoundInv /\ [Next]_vars => RoundInv'
<1> SUFFICES ASSUME RoundInv, [Next]_vars PROVE RoundInv'
  OBVIOUS
<1> USE GenerationAssumption
<1>1. CASE Check
  <2>1. CASE clock > TimeLimit
    <3>1. /\ result' = [state |-> "UNCERTAIN", text |-> NoText] /\ pc' = "done"
          /\ UNCHANGED <<mode, text, present, asked, quiet, blank, unheard, verdict, samples,
                         clock, settled, changes, failures>>
      BY <1>1, <2>1 DEF Check, Return, page
    <3>2. result' \in [state : GenerationState, text : Texts \cup {NoText}]
      BY <3>1 DEF GenerationState
    <3> QED BY <3>1, <3>2 DEF RoundInv, TypeOK
  <2>2. CASE ~(clock > TimeLimit)
    <3>1. /\ pc' = "look" /\ present' = {} /\ asked' = 0
          /\ UNCHANGED <<mode, text, result, verdict, samples, clock, settled, changes, failures>>
      BY <1>1, <2>2 DEF Check, page
    <3>2. quiet' \in BOOLEAN /\ blank' \in BOOLEAN /\ unheard' \in BOOLEAN
      <4>1. quiet' = TRUE /\ unheard' = FALSE
        BY <1>1, <2>2 DEF Check
      <4>2. blank' \in BOOLEAN
        BY <1>1, <2>2 DEF Check
      <4> QED BY <4>1, <4>2
    <3>3. clock' <= TimeLimit
      BY <2>2, <3>1 DEF RoundInv, TypeOK
    <3> QED BY <3>1, <3>2, <3>3, EightElements DEF RoundInv, TypeOK
  <2> QED BY <2>1, <2>2
<1>2. CASE Look
  <2>1. asked \in 0..7 /\ asked' = asked + 1 /\ asked' \in 0..8
    BY <1>2, EightElements DEF Look, RoundInv, TypeOK
  <2>2. Asked(asked') = Asked(asked) \cup {Elements[asked + 1]}
    BY <2>1, AskedGrows
  <2>3. present' \subseteq Asked(asked')
    <3>1. present \subseteq Asked(asked)
      BY DEF RoundInv, TypeOK, Asked
    <3> QED BY <1>2, <2>2, <3>1 DEF Look
  <2>4. present' \subseteq {Elements[i] : i \in 1..asked'}
    BY <2>3 DEF Asked
  <2>5. pc = "look" /\ pc' = IF asked' = 8 THEN "judge" ELSE "look"
    BY <1>2, EightElements DEF Look
  <2>6. failures' \in 0..MaxFailures /\ quiet' \in BOOLEAN
    BY <1>2, QueryTyped DEF Look, RoundInv
  <2>7. UNCHANGED <<mode, text, verdict, samples, clock, result, blank, settled, changes>>
    BY <1>2 DEF Look, page
  <2>8. unheard' \in BOOLEAN
    BY <1>2 DEF Look, RoundInv, TypeOK
  <2> QED BY <2>1, <2>4, <2>5, <2>6, <2>7, <2>8, EightElements DEF RoundInv, TypeOK
<1>3. CASE Judge
  <2>1. verdict' \in GenerationState
    BY <1>3, VerdictIsState DEF Judge
  <2>2. failures' \in 0..MaxFailures /\ quiet' \in BOOLEAN
    BY <1>3, QueryTyped DEF Judge, RoundInv
  <2>3. unheard' \in BOOLEAN
    BY <1>3 DEF Judge, RoundInv, TypeOK
  <2> QED BY <1>3, <2>1, <2>2, <2>3 DEF Judge, RoundInv, TypeOK, page
<1>4. CASE SeeGeneration
  BY <1>4 DEF SeeGeneration, RoundInv, TypeOK, page
<1>5. CASE SeeResponse
  <2>1. PICK t \in Texts \cup {NoText} : Sample(t)
    BY <1>5 DEF SeeResponse, RoundInv, TypeOK, Pages
  <2>2. samples' \in Seq(Texts)
    BY <2>1 DEF Sample, RoundInv, TypeOK
  <2>3. /\ result' \in [state : GenerationState, text : Texts \cup {NoText}] \cup {NoResult}
        /\ pc' \in {"sleep", "done"}
    BY <2>1 DEF Sample, Return, RoundInv, TypeOK, GenerationState
  <2>4. failures' \in 0..MaxFailures /\ quiet' \in BOOLEAN
    BY <1>5, QueryTyped DEF SeeResponse, RoundInv
  <2> QED BY <1>5, <2>2, <2>3, <2>4 DEF SeeResponse, RoundInv, TypeOK, page
<1>6. CASE SeeFailure
  BY <1>6 DEF SeeFailure, Return, RoundInv, TypeOK, page
<1>7. CASE SeeNothing
  BY <1>7 DEF SeeNothing, RoundInv, TypeOK, page
<1>8. CASE Sleep
  BY <1>8 DEF Sleep, RoundInv, TypeOK, page
<1>9. CASE ChangePage
  <2>1. PICK p \in Pages : mode' = p[1] /\ text' = p[2] /\ blank' = (blank \/ p[2] \in Empty)
                           /\ settled' = settled \cup Settled(p[1], p[2])
    BY <1>9 DEF ChangePage
  <2>2. <<mode', text'>> \in Pages /\ text' \in Texts \cup {NoText}
    BY <2>1 DEF Pages
  <2>3. settled' \subseteq Texts \cup {NoText} /\ blank' \in BOOLEAN
    BY <2>1, <2>2 DEF Settled, RoundInv, TypeOK
  <2>4. changes' \in 0..MaxChanges
    BY <1>9 DEF ChangePage, RoundInv, TypeOK
  <2> QED BY <1>9, <2>2, <2>3, <2>4 DEF ChangePage, monitor, RoundInv, TypeOK
<1>10. CASE UNCHANGED vars
  BY <1>10 DEF vars, page, monitor, RoundInv, TypeOK
<1> QED BY <1>1, <1>2, <1>3, <1>4, <1>5, <1>6, <1>7, <1>8, <1>9, <1>10 DEF Next, Monitor

\* Every reachable state is well typed, whatever the page does: in particular
\* no round of queries begins past the time limit, so the timer never runs
\* beyond it by more than one poll (wait_for_completion, Timeout).
THEOREM RoundsAreTimed == Spec => []TypeOK
<1>1. Spec => []RoundInv
  BY RoundInit, RoundStep, PTL DEF Spec
<1>2. RoundInv => TypeOK
  BY DEF RoundInv
<1> QED BY <1>1, <1>2, PTL

-----------------------------------------------------------------------------
(* A page that keeps still.                                                *)

LEMMA StillInit == Init => StillInv
BY DEF Init, StillInv

LEMMA StillStep == RoundInv /\ StillInv /\ [Next]_vars => StillInv'
<1> SUFFICES ASSUME RoundInv, StillInv, [Next]_vars PROVE StillInv'
  OBVIOUS
<1>1. CASE Check
  <2>1. pc' \in {"look", "done"} /\ UNCHANGED <<mode, text>>
    BY <1>1 DEF Check, Return, page
  <2>2. pc' = "look" => present' = {} /\ Asked(asked') = {}
    BY <1>1, AskedGrows DEF Check, Return
  <2> QED BY <2>1, <2>2 DEF StillInv
<1>2. CASE Look
  <2>1. asked \in 0..7 /\ asked' = asked + 1 /\ pc = "look" /\ pc' \in {"look", "judge"}
    BY <1>2, EightElements DEF Look, RoundInv, TypeOK
  <2>2. Asked(asked') = Asked(asked) \cup {Elements[asked + 1]}
    BY <2>1, AskedGrows
  <2>3. ASSUME quiet' PROVE present' = Shown[mode'] \cap Asked(asked')
    <3>1. QueryAnswers /\ present' = present \cup ({Elements[asked + 1]} \cap Shown[mode])
      BY <1>2, <2>3 DEF Look, QueryRaises
    <3>2. quiet /\ mode' = mode
      BY <1>2, <2>3, <3>1 DEF QueryAnswers, Look, page
    <3>3. present = Shown[mode] \cap Asked(asked)
      BY <2>1, <3>2 DEF StillInv
    <3> QED BY <2>2, <3>1, <3>2, <3>3
  <2> QED BY <2>1, <2>3 DEF StillInv
<1>3. CASE Judge
  <2>1. ASSUME quiet' PROVE verdict' = Verdict(Shown[mode'], text')
    <3>1. QueryAnswers /\ verdict' = Verdict(present, text) /\ UNCHANGED <<mode, text>>
      BY <1>3, <2>1 DEF Judge, QueryRaises, page
    <3>2. present = Shown[mode] \cap Asked(8)
      BY <1>3, <2>1, <3>1 DEF Judge, QueryAnswers, StillInv, RoundInv
    <3>3. present = Shown[mode]
      BY <3>2, AskedGrows, PageFacts DEF RoundInv, TypeOK
    <3> QED BY <3>1, <3>3
  <2> QED BY <1>3, <2>1 DEF Judge, StillInv
<1>4. CASE SeeGeneration \/ SeeFailure \/ SeeNothing \/ Sleep
  BY <1>4 DEF SeeGeneration, SeeFailure, SeeNothing, Sleep, Return, StillInv
<1>5. CASE SeeResponse
  <2>1. pc' \in {"sleep", "done"}
    BY <1>5 DEF SeeResponse, Sample, Return
  <2> QED BY <2>1 DEF StillInv
<1>6. CASE ChangePage
  BY <1>6 DEF ChangePage, StillInv
<1>7. CASE UNCHANGED vars
  BY <1>7 DEF vars, page, monitor, StillInv
<1> QED BY <1>1, <1>2, <1>3, <1>4, <1>5, <1>6, <1>7 DEF Next, Monitor

\* If the page kept still and no query raised, the verdict of the eight
\* queries is the first state of the documented ranking that is true of the
\* page (GenerationMonitor, "Priority").
THEOREM StillPageIsRanked == Spec => []QuietVerdict
<1>1. Spec => [](RoundInv /\ StillInv)
  BY RoundInit, RoundStep, StillInit, StillStep, PTL DEF Spec
<1>2. RoundInv /\ StillInv => QuietVerdict
  <2> SUFFICES ASSUME RoundInv, StillInv, pc = "judged", quiet
               PROVE  FirstMeant(verdict, mode, text)
    BY DEF QuietVerdict, FirstMeant
  <2>1. verdict = Verdict(Shown[mode], text)
    BY DEF StillInv
  <2>2. <<mode, text>> \in Pages
    BY DEF RoundInv, TypeOK
  <2> QED BY <2>1, <2>2, VerdictIsFirstMeant
<1> QED BY <1>1, <1>2, PTL

-----------------------------------------------------------------------------
(* A response that was there all along.                                    *)

LEMMA ResponseInit == Init => ResponseInv
BY DEF Init, ResponseInv, RetryOnlyWithoutResponse

LEMMA ResponseStep == RoundInv /\ ResponseInv /\ [Next]_vars => ResponseInv'
<1> SUFFICES ASSUME RoundInv, ResponseInv, [Next]_vars PROVE ResponseInv'
  OBVIOUS
<1>1. CASE Check
  <2>1. pc' = "look" \/ pc' = "done"
    BY <1>1 DEF Check, Return
  <2>2. pc' = "look" /\ ~blank' => text' \notin Empty
    BY <1>1 DEF Check, Return, page
  <2>3. pc' = "look" => asked' # 8
    BY <1>1 DEF Check, Return
  <2> QED BY <2>1, <2>2, <2>3 DEF ResponseInv, RetryOnlyWithoutResponse
<1>2. CASE Look
  <2>1. /\ asked \in 0..7 /\ asked' = asked + 1 /\ pc = "look" /\ pc' \in {"look", "judge"}
        /\ UNCHANGED <<mode, text, blank>>
    BY <1>2, EightElements DEF Look, RoundInv, TypeOK, page
  <2>2. ASSUME ~unheard', ~blank'
        PROVE  text' \notin Empty /\ (asked' = 8 => "turns" \in present')
    <3>2. Elements[asked + 1] = "turns" =>
              present' = present \cup ({Elements[asked + 1]} \cap Shown[mode])
      BY <1>2, <2>2 DEF Look
    <3>3. ~unheard /\ ~blank
      <4>1. unheard' = unheard \/ unheard' = (unheard \/ Elements[asked + 1] = "turns")
        BY <1>2 DEF Look
      <4>2. ~unheard
        BY <2>2, <4>1, Zenon
      <4>3. blank' = blank
        BY <2>1
      <4> QED BY <2>2, <4>2, <4>3
    <3>4. text \notin Empty
      BY <2>1, <3>3 DEF ResponseInv
    <3>5. "turns" \in Shown[mode]
      BY <3>4, PageFacts DEF RoundInv, TypeOK, Empty
    <3>6. asked' = 8 => Elements[asked + 1] = "turns"
      BY <2>1, EightElements
    <3> QED BY <2>1, <3>2, <3>4, <3>5, <3>6
  <2> QED BY <2>1, <2>2 DEF ResponseInv, RetryOnlyWithoutResponse
<1>3. CASE Judge
  <2>1. ASSUME ~unheard', ~blank' PROVE verdict' # "RETRY_AVAILABLE"
    <3>2. UNCHANGED unheard /\ verdict' = Verdict(present, text)
      BY <1>3, <2>1 DEF Judge
    <3>3. ~unheard /\ ~blank /\ pc = "judge" /\ asked = 8
      BY <1>3, <2>1, <3>2 DEF Judge, RoundInv
    <3>4. text \notin Empty /\ "turns" \in present
      BY <3>3 DEF ResponseInv
    <3> QED BY <3>2, <3>4 DEF Verdict
  <2> QED BY <1>3, <2>1 DEF Judge, ResponseInv, RetryOnlyWithoutResponse
<1>4. CASE SeeGeneration \/ SeeFailure \/ SeeNothing \/ Sleep
  BY <1>4 DEF SeeGeneration, SeeFailure, SeeNothing, Sleep, Return, ResponseInv,
              RetryOnlyWithoutResponse
<1>5. CASE SeeResponse
  <2>1. pc' \in {"sleep", "done"}
    BY <1>5 DEF SeeResponse, Sample, Return
  <2> QED BY <2>1 DEF ResponseInv, RetryOnlyWithoutResponse
<1>6. CASE ChangePage
  <2>1. /\ UNCHANGED <<pc, present, asked, verdict, unheard>>
        /\ ~blank' => ~blank /\ text' \notin Empty
    BY <1>6 DEF ChangePage, monitor
  <2> QED BY <2>1 DEF ResponseInv, RetryOnlyWithoutResponse
<1>7. CASE UNCHANGED vars
  BY <1>7 DEF vars, page, monitor, ResponseInv, RetryOnlyWithoutResponse
<1> QED BY <1>1, <1>2, <1>3, <1>4, <1>5, <1>6, <1>7 DEF Next, Monitor

\* No retry is offered over a response that was there during the whole check,
\* however the page changed meanwhile and whatever other queries raised, unless
\* one raised that would have told of the response.
THEOREM ResponseForbidsRetry == Spec => []RetryOnlyWithoutResponse
<1>1. Spec => [](RoundInv /\ ResponseInv)
  BY RoundInit, RoundStep, ResponseInit, ResponseStep, PTL DEF Spec
<1>2. RoundInv /\ ResponseInv => RetryOnlyWithoutResponse
  BY DEF ResponseInv
<1> QED BY <1>1, <1>2, PTL

-----------------------------------------------------------------------------
(* What it takes to deceive the samples.                                   *)

\* A step that takes no sample raises the cost by no more than the mishaps.
LEMMA DebtsKept ==
    ASSUME RoundInv, Debts,
           samples' = samples, settled \subseteq settled',
           NEW c \in Nat, NEW d \in Nat, Mishaps = c, Mishaps' = d,
           NEW e \in {-1, 0, 1}, NEW f \in {-1, 0, 1}, Extra = e, Extra' = f,
           f - e <= d - c
    PROVE  Debts'
<1> SUFFICES ASSUME NEW t \in Texts \ settled', NEW n \in 0..Len(samples'), TailIs(n, t)'
             PROVE  Mishaps' >= Cost(n)'
  BY DEF Debts
<1>1. n \in Nat /\ n \in 0..Len(samples)
  BY DEF RoundInv, TypeOK
<1>2. TailIs(n, t)
  BY DEF TailIs
<1>3. c >= (2 * n) + e
  BY <1>1, <1>2 DEF Debts, Cost
<1>4. d >= (2 * n) + f
  BY <1>1, <1>3
<1>5. Cost(n)' = (2 * n) + f
  BY Zenon DEF Cost
<1> QED BY <1>4, <1>5

\* Without samples nothing is owed, once the check is over.
LEMMA NoDebts ==
    ASSUME samples' = <<>>, pc' \in {"check", "sleep", "done"}, Mishaps' \in Nat
    PROVE  Debts'
<1>1. PICK f \in {-1, 0} : Extra' = f
  BY DEF Extra, MissedStop
<1>2. PICK d \in Nat : Mishaps' = d
  OBVIOUS
<1> SUFFICES ASSUME NEW t \in Texts, NEW n \in 0..Len(samples') PROVE Mishaps' >= Cost(n)'
  BY DEF Debts
<1>3. n = 0
  OBVIOUS
<1>4. Cost(n)' = (2 * n) + f
  BY <1>1, Zenon DEF Cost
<1>5. d >= (2 * n) + f
  BY <1>3
<1> QED BY <1>2, <1>4, <1>5

\* An answer that was given stays right.
LEMMA AnswerKept ==
    ASSUME NoPartialText, Mishaps \in Nat, Mishaps' \in Nat, Mishaps <= Mishaps',
           result' = result \/ result'.state # "COMPLETED",
           settled \subseteq settled'
    PROVE  NoPartialText'
<1> SUFFICES ASSUME result'.state = "COMPLETED", Mishaps' < 2 * Samples - 1
             PROVE  result'.text \in settled'
  BY DEF NoPartialText, Mishaps
<1>1. Mishaps < 2 * Samples - 1
  BY GenerationAssumption DEF Mishaps
<1> QED BY <1>1 DEF NoPartialText, Mishaps

LEMMA DeceptionInit == Init => DeceptionInv
<1> SUFFICES ASSUME Init PROVE DeceptionInv
  OBVIOUS
<1>1. mode # "generating" => text \in settled
  BY DEF Init, Settled
<1>2. Debts
  <2>1. Extra \in {-1, 0} /\ Len(samples) = 0 /\ Mishaps = 0
    BY DEF Init, Extra, MissedStop, Mishaps
  <2> QED BY <2>1 DEF Debts, Cost
<1>3. NoPartialText
  BY DEF Init, NoResult, NoPartialText
<1> QED BY <1>1, <1>2, <1>3 DEF Init, DeceptionInv

\* A response is sampled: one sample more of a text only shown while
\* generating, after a check that missed both signs of it.
LEMMA SampleStep ==
    ASSUME RoundInv, RoundInv', DeceptionInv, SeeResponse PROVE DeceptionInv'
<1>1. /\ pc = "judged" /\ verdict = "COMPLETED" /\ asked = 8
      /\ pc' \in {"sleep", "done"}
      /\ UNCHANGED <<mode, text, settled, changes>>
      /\ samples \in Seq(Texts) /\ text \in Texts \cup {NoText}
  BY DEF SeeResponse, Sample, Return, page, RoundInv, TypeOK, Pages
<1>2. MissedStop /\ (Extra = IF mode # "generating" THEN 0 ELSE 1)
  BY <1>1 DEF MissedStop, Extra, DeceptionInv
<1>3. ~MissedStop' /\ (Extra' = IF mode # "generating" THEN 0 ELSE -1)
  BY <1>1 DEF MissedStop, Extra
<1>4. mode # "generating" => text \in settled
  BY DEF DeceptionInv
<1>5. \/ QueryAnswers /\ Sample(text)
      \/ QueryRaises /\ Sample(NoText)
  BY DEF SeeResponse
<1>6. Mishaps \in Nat /\ Mishaps' \in Nat /\ Mishaps <= Mishaps'
  <2>1. changes \in Nat /\ failures \in Nat /\ changes' = changes
    BY <1>1 DEF RoundInv, TypeOK
  <2>2. failures' = failures \/ failures' = failures + 1
    BY <1>5 DEF QueryAnswers, QueryRaises
  <2> QED BY <2>1, <2>2 DEF Mishaps
<1>7. Sample(text) => Mishaps' = Mishaps \/ text = NoText
  BY <1>1, <1>5 DEF Mishaps, QueryAnswers, Sample
<1> HIDE DEF Mishaps
<1>8. samples' # <<>> => Mishaps' = Mishaps /\ Sample(text) /\ text # NoText
  BY <1>5, <1>7 DEF Sample
<1>9. Debts'
  <2>1. CASE samples' = <<>>
    BY <1>1, <1>6, <2>1, NoDebts
  <2>2. CASE samples' # <<>>
    <3>1. samples' = Append(samples, text) /\ text \in Texts
      BY <1>1, <1>8, <2>2 DEF Sample
    <3> SUFFICES ASSUME NEW t \in Texts \ settled', NEW n \in 0..Len(samples'), TailIs(n, t)'
                 PROVE  Mishaps' >= Cost(n)'
      BY DEF Debts
    <3>2. Len(samples') = Len(samples) + 1 /\ Len(samples) \in Nat /\ n \in Nat
      BY <1>1, <3>1
    <3>3. CASE n = 0
      BY <1>3, <1>6, <3>3 DEF Cost
    <3>4. CASE n # 0
      <4>1. samples'[Len(samples) + 1] = text /\ t = text
        BY <1>1, <3>1, <3>2, <3>4 DEF TailIs
      <4>2. mode = "generating"
        BY <1>1, <1>4, <4>1
      <4>3. TailIs(n - 1, t)
        <5> SUFFICES ASSUME NEW i \in (Len(samples) - (n - 1) + 1)..Len(samples)
                     PROVE  samples[i] = t
          BY DEF TailIs
        <5>1. i \in 1..Len(samples) /\ i \in (Len(samples') - n + 1)..Len(samples')
          BY <3>2, <3>4
        <5>2. samples'[i] = t
          BY <5>1 DEF TailIs
        <5>3. samples'[i] = samples[i]
          BY <1>1, <3>1, <5>1
        <5> QED BY <5>2, <5>3
      <4>4. n - 1 \in 0..Len(samples) /\ t \in Texts \ settled
        BY <1>1, <3>2, <3>4
      <4>5. Mishaps >= Cost(n - 1)
        BY <4>3, <4>4 DEF DeceptionInv, Debts
      <4>6. Mishaps >= 2 * (n - 1) + 1
        BY <1>2, <4>2, <4>5 DEF Cost
      <4> QED BY <1>3, <1>6, <1>8, <2>2, <3>2, <4>2, <4>6 DEF Cost
    <3> QED BY <3>3, <3>4
  <2> QED BY <2>1, <2>2
<1>10. NoPartialText'
  <2>1. CASE samples' # <<>> /\ Stable(samples')
    <3>1. /\ samples' = Append(samples, text) /\ text \in Texts
          /\ result' = [state |-> "COMPLETED", text |-> text]
      BY <1>1, <1>8, <2>1 DEF Sample, Return
    <3>2. /\ Len(samples') = Len(samples) + 1 /\ samples'[Len(samples')] = text
          /\ Len(samples') \in Nat
      BY <1>1, <3>1
    <3>3. Samples \in 0..Len(samples') /\ TailIs(Samples, text)'
      BY <1>1, <2>1, <3>2, GenerationAssumption DEF Stable, TailIs
    <3>4. ASSUME text \notin settled' PROVE Mishaps' >= 2 * Samples - 1
      <4>1. Mishaps' >= Cost(Samples)'
        BY <1>1, <1>9, <3>1, <3>3, <3>4 DEF Debts
      <4>2. mode = "generating"
        BY <1>1, <1>4, <3>4
      <4> QED BY <1>3, <4>1, <4>2, GenerationAssumption DEF Cost
    <3>5. Samples \in Nat
      BY GenerationAssumption
    <3>6. ASSUME Mishaps' < 2 * Samples - 1 PROVE text \in settled'
      BY <1>6, <3>4, <3>5, <3>6
    <3> QED BY <3>1, <3>6 DEF NoPartialText, Mishaps
  <2>2. CASE ~(samples' # <<>> /\ Stable(samples'))
    <3>1. result' = result
      BY <1>5, <1>8, <2>2 DEF Sample
    <3> QED BY <1>1, <1>6, <3>1, AnswerKept DEF DeceptionInv
  <2> QED BY <2>1, <2>2
<1> QED BY <1>1, <1>4, <1>9, <1>10 DEF DeceptionInv

\* The page is asked for one element more: each sign of a generation that is
\* missed on a page that generates has cost a query that raised.
LEMMA LookCosts ==
    ASSUME RoundInv, Look
    PROVE  \E e, f \in {-1, 0, 1}, d \in {0, 1} :
              Extra = e /\ Extra' = f /\ failures' = failures + d /\ f - e <= d
<1>1. /\ pc = "look" /\ pc' \in {"look", "judge"} /\ failures \in Nat
      /\ asked \in 0..7 /\ asked' = asked + 1 /\ UNCHANGED <<mode, text>>
  BY EightElements DEF Look, RoundInv, TypeOK, page
<1>2. CASE mode # "generating"
  <2>1. Extra = 0 /\ Extra' = 0
    BY <1>1, <1>2 DEF Extra
  <2>2. failures' = failures + 0 \/ failures' = failures + 1
    BY <1>1 DEF Look, QueryAnswers, QueryRaises
  <2> QED BY <2>1, <2>2
<1>3. CASE mode = "generating" /\ QueryAnswers
  <2>1. present' = present \cup ({Elements[asked + 1]} \cap Shown[mode]) /\ failures' = failures + 0
    BY <1>1, <1>3 DEF Look, QueryAnswers, QueryRaises
  <2>2. Extra' = Extra \/ Extra' = -1
    <3>1. CASE asked \in {1, 2}
      <4>1. Elements[asked + 1] \in {"stop", "indicator"} /\ {"stop", "indicator"} \subseteq Shown[mode]
        BY <1>3, <3>1, EightElements, PagesShow
      <4>2. asked = 1 => "stop" \in present'
        BY <2>1, <4>1, EightElements
      <4>3. asked = 2 => "indicator" \in present'
        BY <2>1, <4>1, EightElements
      <4> QED BY <1>1, <1>3, <3>1, <4>2, <4>3 DEF Extra, MissedStop
    <3>2. CASE asked \notin {1, 2}
      <4>1. asked = 0 \/ Elements[asked + 1] \notin {"stop", "indicator"}
        BY <1>1, <3>2, EightElements
      <4> QED BY <1>1, <1>3, <2>1, <3>2, <4>1 DEF Extra, MissedStop
    <3> QED BY <3>1, <3>2
  <2>3. Extra \in {-1, 0, 1}
    BY DEF Extra
  <2> QED BY <2>1, <2>2, <2>3
<1>4. CASE mode = "generating" /\ ~QueryAnswers
  <2>1. present' = present /\ failures' = failures + 1
    BY <1>4 DEF Look, QueryRaises
  <2>2. \/ Extra' = Extra \/ Extra' = -1
        \/ Extra = -1 /\ Extra' = 0
        \/ Extra = 0 /\ Extra' = 1
    BY <1>1, <1>4, <2>1 DEF Extra, MissedStop
  <2>3. Extra \in {-1, 0, 1}
    BY DEF Extra
  <2> QED BY <2>1, <2>2, <2>3
<1> QED BY <1>2, <1>3, <1>4

LEMMA DeceptionStep ==
    RoundInv /\ RoundInv' /\ DeceptionInv /\ [Next]_vars => DeceptionInv'
<1> SUFFICES ASSUME RoundInv, RoundInv', DeceptionInv, [Next]_vars PROVE DeceptionInv'
  OBVIOUS
<1>1. changes \in Nat /\ changes' \in Nat /\ failures \in Nat /\ failures' \in Nat
  BY DEF RoundInv, TypeOK
<1>2. ASSUME samples' = samples \/ (samples' = <<>> /\ pc' = "sleep"),
             UNCHANGED <<mode, text, settled>>,
             result' = result \/ result'.state # "COMPLETED",
             NEW e \in {-1, 0, 1}, NEW f \in {-1, 0, 1}, NEW d \in Nat,
             Extra = e, Extra' = f, Mishaps' = Mishaps + d, f - e <= d,
             pc' = "judged" /\ verdict' = "COMPLETED" => {"stop", "indicator"} \cap present' = {}
      PROVE  DeceptionInv'
  <2>1. PICK c \in Nat : Mishaps = c /\ Mishaps' = c + d
    <3>1. Mishaps \in Nat
      BY <1>1 DEF Mishaps
    <3>2. Mishaps' = Mishaps + d
      BY <1>2
    <3> QED BY <3>1, <3>2
  <2>2. Debts'
    <3>1. CASE samples' = samples
      <4>1. f - e <= (c + d) - c /\ c + d \in Nat
        BY <1>2, <2>1
      <4>2. Debts /\ settled \subseteq settled'
        BY <1>2 DEF DeceptionInv
      <4> QED BY <1>2, <2>1, <3>1, <4>1, <4>2, DebtsKept
    <3>2. CASE samples' = <<>> /\ pc' = "sleep"
      BY <2>1, <3>2, NoDebts
    <3> QED BY <1>2, <3>1, <3>2
  <2>3. NoPartialText'
    BY <1>2, <2>1, AnswerKept DEF DeceptionInv
  <2> QED BY <1>2, <2>2, <2>3 DEF DeceptionInv
<1>10. ASSUME samples' = samples \/ (samples' = <<>> /\ pc' = "sleep"),
              UNCHANGED <<mode, text, settled, changes>>,
              result' = result \/ result'.state # "COMPLETED",
              failures <= failures', Extra' <= Extra,
              pc' = "judged" /\ verdict' = "COMPLETED" => {"stop", "indicator"} \cap present' = {}
       PROVE  DeceptionInv'
  <2>1. PICK e \in {-1, 0, 1}, f \in {-1, 0, 1} : Extra = e /\ Extra' = f /\ f <= e
    BY <1>10 DEF Extra
  <2>2. PICK d \in Nat : failures' = failures + d
    <3>1. PICK a \in Nat, b \in Nat : failures = a /\ failures' = b
      BY <1>1
    <3>2. a <= b
      BY <1>10, <3>1
    <3>3. b - a \in Nat /\ b = a + (b - a)
      BY <3>2
    <3> QED BY <3>1, <3>3
  <2>3. Mishaps' = Mishaps + d
    BY <1>1, <1>10, <2>2 DEF Mishaps
  <2>4. f - e <= d
    BY <2>1
  <2> QED BY <1>2, <1>10, <2>1, <2>2, <2>3, <2>4
<1>3. CASE Check
  <2>1. /\ pc = "check" /\ pc' \in {"look", "done"} /\ (pc' = "look" => asked' = 0)
        /\ UNCHANGED <<mode, text, samples, settled, changes, failures>>
        /\ result' = result \/ result'.state # "COMPLETED"
    BY <1>3 DEF Check, Return, page
  <2>2. Extra' = Extra
    BY <2>1 DEF Extra, MissedStop
  <2>3. Extra' <= Extra
    BY <2>2 DEF Extra
  <2> QED BY <1>1, <1>10, <2>1, <2>3
<1>4. CASE Look
  <2>1. /\ pc' \in {"look", "judge"}
        /\ UNCHANGED <<mode, text, samples, result, settled, changes>>
    BY <1>4, EightElements DEF Look, RoundInv, TypeOK, page
  <2>2. PICK e \in {-1, 0, 1}, f \in {-1, 0, 1}, d \in {0, 1} :
            Extra = e /\ Extra' = f /\ failures' = failures + d /\ f - e <= d
    BY <1>4, LookCosts
  <2>3. Mishaps' = Mishaps + d /\ d \in Nat
    BY <1>1, <2>1, <2>2 DEF Mishaps
  <2> QED BY <1>2, <2>1, <2>2, <2>3
<1>5. CASE Judge
  <2>1. /\ pc = "judge" /\ pc' = "judged"
        /\ UNCHANGED <<mode, text, present, asked, samples, result, settled, changes>>
    BY <1>5 DEF Judge, page
  <2>2. failures <= failures'
    BY <1>1, <1>5 DEF Judge, QueryAnswers, QueryRaises
  <2>3. MissedStop' <=> MissedStop
    BY <2>1 DEF MissedStop
  <2>4. Extra' <= Extra
    BY <2>1, <2>3 DEF Extra
  <2>5. verdict' = "COMPLETED" => {"stop", "indicator"} \cap present' = {}
    BY <1>5, <2>1 DEF Judge, Verdict
  <2> QED BY <1>10, <2>1, <2>2, <2>4, <2>5
<1>6. CASE SeeGeneration \/ SeeFailure \/ SeeNothing \/ Sleep
  <2>1. /\ pc' \in {"check", "sleep", "done"}
        /\ UNCHANGED <<mode, text, settled, changes, failures>>
        /\ samples' = samples \/ (samples' = <<>> /\ pc' = "sleep")
        /\ result' = result \/ result'.state # "COMPLETED"
    BY <1>6 DEF SeeGeneration, SeeFailure, SeeNothing, Sleep, Return, page
  <2>2. ~MissedStop'
    BY <2>1 DEF MissedStop
  <2>3. Extra' <= Extra
    BY <2>1, <2>2 DEF Extra
  <2> QED BY <1>1, <1>10, <2>1, <2>3
<1>7. CASE SeeResponse
  BY <1>7, SampleStep
<1>8. CASE ChangePage
  <2>1. /\ UNCHANGED <<pc, present, asked, verdict, samples, result, failures>>
        /\ changes' = changes + 1 /\ settled \subseteq settled'
        /\ mode' # "generating" => text' \in settled'
    BY <1>8 DEF ChangePage, monitor, Settled
  <2>2. MissedStop' <=> MissedStop
    BY <2>1 DEF MissedStop
  <2>3. PICK e \in {-1, 0, 1}, f \in {-1, 0, 1} : Extra = e /\ Extra' = f /\ f - e <= 1
    BY <2>1, <2>2 DEF Extra
  <2>4. PICK c \in Nat : Mishaps = c /\ Mishaps' = c + 1
    BY <1>1, <2>1 DEF Mishaps
  <2>5. Debts'
    <3>1. c + 1 \in Nat /\ f - e <= (c + 1) - c
      BY <2>3
    <3> QED BY <2>1, <2>3, <2>4, <3>1, DebtsKept DEF DeceptionInv
  <2>6. NoPartialText'
    BY <2>1, <2>4, AnswerKept DEF DeceptionInv
  <2> QED BY <2>1, <2>5, <2>6 DEF DeceptionInv
<1>9. CASE UNCHANGED vars
  <2>1. UNCHANGED <<mode, text, pc, present, asked, verdict, samples, result, settled, changes, failures>>
    BY <1>9 DEF vars, page, monitor
  <2>2. Extra' <= Extra
    BY <2>1 DEF Extra, MissedStop
  <2> QED BY <1>1, <1>10, <2>1, <2>2 DEF DeceptionInv
<1> QED BY <1>3, <1>4, <1>5, <1>6, <1>7, <1>8, <1>9 DEF Next, Monitor

\* A text that was only ever shown while the page was generating is returned as
\* completed only after 2 * Samples - 1 mishaps, changes of the page or queries
\* that raised, two for each sample but the first (wait_for_completion,
\* stable_samples_required).
THEOREM PartialTextIsCostly == Spec => []NoPartialText
<1>1. Spec => [](RoundInv /\ DeceptionInv)
  BY RoundInit, RoundStep, DeceptionInit, DeceptionStep, PTL DEF Spec
<1>2. RoundInv /\ DeceptionInv => NoPartialText
  BY DEF DeceptionInv
<1> QED BY <1>1, <1>2, PTL

=============================================================================
