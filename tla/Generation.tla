----------------------------- MODULE Generation -----------------------------
(***************************************************************************)
(* GenerationMonitor.wait_for_completion over a page of AI Studio that     *)
(* changes while it is read.  inspect() makes one query per element and    *)
(* swallows its exceptions, so a verdict may mix several pages and take an *)
(* element it could not look for as absent.                                *)
(***************************************************************************)
EXTENDS Naturals, Sequences, FiniteSets

CONSTANTS
    Samples,      \* stable_samples_required
    TimeLimit,    \* generation_timeout_sec, in poll intervals
    Texts,        \* texts of the latest response
    White,        \* those of white space only
    NoText,       \* the page shows no response, or reading it failed
    MaxChanges,   \* bound on the changes of the page
    MaxFailures   \* bound on queries that raise

ASSUME GenerationAssumption ==
    /\ Samples \in Nat \ {0}
    /\ TimeLimit \in Nat
    /\ White \subseteq Texts
    /\ NoText \notin Texts
    /\ MaxChanges \in Nat
    /\ MaxFailures \in Nat

VARIABLES
    mode, text,                    \* the page
    pc,
    present,                       \* elements found so far, in order of the queries
    asked,                         \* how many elements were looked for
    verdict, samples,
    clock,                         \* poll intervals since the wait began
    result,                        \* what wait_for_completion returned
    \* history
    quiet,      \* during the check the page kept still and no query raised
    blank,      \* the page showed no response at some moment of the check
    unheard,    \* in the check a query for turns or response raised
    settled,    \* texts the page has shown while it was not generating
    changes, failures

page    == <<mode, text>>
monitor == <<pc, present, asked, verdict, samples, clock, result>>
vars    == <<page, monitor, quiet, blank, unheard, settled, changes, failures>>

\* The elements inspect() looks for, in its order; the send button, which
\* detect_state ignores, is left out.
Elements == <<"composer", "stop", "indicator", "retry", "error", "stopped", "network", "turns">>

\* What the page shows in each of its modes.
Shown ==
    [ loading    |-> {},
      empty      |-> {"composer"},
      generating |-> {"composer", "turns", "stop", "indicator"},
      answered   |-> {"composer", "turns"},
      retryable  |-> {"composer", "turns", "retry"},
      stopped    |-> {"composer", "stopped"},
      failed     |-> {"composer", "turns", "retry", "error"},
      offline    |-> {"turns", "stop", "network"} ]

Modes == DOMAIN Shown

Pages == {p \in Modes \X (Texts \cup {NoText}) : "turns" \notin Shown[p[1]] => p[2] = NoText}

GenerationState == {"GENERATING", "COMPLETED", "STOPPED", "ERROR", "RETRY_AVAILABLE",
                    "UNAVAILABLE", "NETWORK_FAILURE", "UNCERTAIN"}

\* Texts that are no response to detect_state.
Empty == White \cup {NoText}

NoResult == [state |-> "NONE", text |-> NoText]

Settled(m, t) == IF m = "generating" THEN {} ELSE {t}

Init ==
    /\ \E p \in Pages : mode = p[1] /\ text = p[2]
    /\ pc = "check"
    /\ present = {} /\ asked = 0 /\ verdict = "UNCERTAIN"
    /\ samples = <<>> /\ clock = 0 /\ result = NoResult
    /\ quiet = TRUE /\ blank = FALSE /\ unheard = FALSE /\ settled = Settled(mode, text)
    /\ changes = 0 /\ failures = 0

-----------------------------------------------------------------------------
(* detect_state.                                                           *)

\* Mutant: the retry button counts before the response does.
RetryFirst(found, t) ==
    IF "network" \in found THEN "NETWORK_FAILURE"
    ELSE IF "error" \in found THEN "ERROR"
    ELSE IF found \cap {"stop", "indicator"} # {} THEN "GENERATING"
    ELSE IF "retry" \in found THEN "RETRY_AVAILABLE"
    ELSE IF "turns" \in found THEN IF t \notin Empty THEN "COMPLETED" ELSE "UNCERTAIN"
    ELSE IF "stopped" \in found THEN "STOPPED"
    ELSE IF "composer" \notin found THEN "UNAVAILABLE" ELSE "UNCERTAIN"

\* The decision on the elements found and the latest response.
Verdict(found, t) ==
    IF "network" \in found THEN "NETWORK_FAILURE"
    ELSE IF "error" \in found THEN "ERROR"
    ELSE IF found \cap {"stop", "indicator"} # {} THEN "GENERATING"
    ELSE IF "turns" \in found /\ t \notin Empty THEN "COMPLETED"
    ELSE IF "retry" \in found THEN "RETRY_AVAILABLE"
    ELSE IF "turns" \in found THEN "UNCERTAIN"
    ELSE IF "stopped" \in found THEN "STOPPED"
    ELSE IF "composer" \notin found THEN "UNAVAILABLE" ELSE "UNCERTAIN"

\* A query of the page gives what it shows, or raises and gives nothing.
QueryRaises ==
    /\ failures < MaxFailures
    /\ failures' = failures + 1
    /\ quiet' = FALSE

QueryAnswers == UNCHANGED <<failures, quiet>>

Look ==
    LET element == Elements[asked + 1]
    IN  /\ pc = "look"
        /\ \/ QueryAnswers /\ present' = present \cup ({element} \cap Shown[mode]) /\ UNCHANGED unheard
           \/ QueryRaises /\ UNCHANGED present /\ unheard' = (unheard \/ element = "turns")
        /\ asked' = asked + 1
        /\ pc' = IF asked' = Len(Elements) THEN "judge" ELSE "look"
        /\ UNCHANGED <<page, verdict, samples, clock, result, blank, settled, changes>>

Judge ==
    /\ pc = "judge"
    /\ \/ QueryAnswers /\ verdict' = Verdict(present, text) /\ UNCHANGED unheard
       \/ QueryRaises /\ verdict' = Verdict(present, NoText) /\ unheard' = TRUE
    /\ pc' = "judged"
    /\ UNCHANGED <<page, present, asked, samples, clock, result, blank, settled, changes>>

-----------------------------------------------------------------------------
(* wait_for_completion.                                                    *)

Return(state, t) ==
    /\ result' = [state |-> state, text |-> t]
    /\ pc' = "done"

\* Mutant: nobody looks at the timer.
CheckUntimed ==
    /\ pc = "check"
    /\ pc' = "look"
    /\ present' = {} /\ asked' = 0
    /\ quiet' = TRUE /\ blank' = (text \in Empty) /\ unheard' = FALSE
    /\ UNCHANGED <<page, verdict, samples, clock, result, settled, changes, failures>>

\* The timeout, then a new round of queries.
Check ==
    /\ pc = "check"
    /\ IF clock > TimeLimit
       THEN Return("UNCERTAIN", NoText) /\ UNCHANGED <<present, asked, quiet, blank, unheard>>
       ELSE /\ pc' = "look"
            /\ present' = {} /\ asked' = 0
            /\ quiet' = TRUE /\ blank' = (text \in Empty) /\ unheard' = FALSE
            /\ UNCHANGED result
    /\ UNCHANGED <<page, verdict, samples, clock, settled, changes, failures>>

SeeGeneration ==
    /\ pc = "judged"
    /\ verdict = "GENERATING"
    /\ samples' = <<>>
    /\ pc' = "sleep"
    /\ UNCHANGED <<page, present, asked, verdict, clock, result, quiet, blank, unheard, settled, changes, failures>>

\* Mutant: one sample less is enough.
StableTooEarly(history) ==
    /\ Len(history) >= Samples - 1
    /\ \A i, j \in (Len(history) - Samples + 2)..Len(history) : history[i] = history[j]

\* The last samples required are all the same.
Stable(history) ==
    /\ Len(history) >= Samples
    /\ \A i, j \in (Len(history) - Samples + 1)..Len(history) : history[i] = history[j]

\* The response is read once more, as a sample.
Sample(t) ==
    /\ samples' = IF t = NoText THEN <<>> ELSE Append(samples, t)
    /\ IF t # NoText /\ Stable(samples')
       THEN Return("COMPLETED", t)
       ELSE pc' = "sleep" /\ UNCHANGED result

SeeResponse ==
    /\ pc = "judged"
    /\ verdict = "COMPLETED"
    /\ \/ QueryAnswers /\ Sample(text)
       \/ QueryRaises /\ Sample(NoText)
    /\ UNCHANGED <<page, present, asked, verdict, clock, blank, unheard, settled, changes>>

SeeFailure ==
    /\ pc = "judged"
    /\ verdict \in {"ERROR", "STOPPED", "NETWORK_FAILURE"}
    /\ Return(verdict, NoText)
    /\ UNCHANGED <<page, present, asked, verdict, samples, clock, quiet, blank, unheard, settled, changes, failures>>

SeeNothing ==
    /\ pc = "judged"
    /\ verdict \in {"RETRY_AVAILABLE", "UNAVAILABLE", "UNCERTAIN"}
    /\ pc' = "sleep"
    /\ UNCHANGED <<page, present, asked, verdict, samples, clock, result, quiet, blank, unheard, settled, changes, failures>>

\* Mutant: every round starts the timer anew.
SleepRestartingTimer ==
    /\ pc = "sleep"
    /\ clock' = 0
    /\ pc' = "check"
    /\ UNCHANGED <<page, present, asked, verdict, samples, result, quiet, blank, unheard, settled, changes, failures>>

Sleep ==
    /\ pc = "sleep"
    /\ clock' = clock + 1
    /\ pc' = "check"
    /\ UNCHANGED <<page, present, asked, verdict, samples, result, quiet, blank, unheard, settled, changes, failures>>

-----------------------------------------------------------------------------
\* Between any two queries the page may become any other page.
ChangePage ==
    /\ pc # "done"
    /\ changes < MaxChanges
    /\ changes' = changes + 1
    /\ \E p \in Pages \ {<<mode, text>>} :
          /\ mode' = p[1] /\ text' = p[2]
          /\ blank' = (blank \/ p[2] \in Empty)
          /\ settled' = settled \cup Settled(p[1], p[2])
    /\ quiet' = FALSE
    /\ UNCHANGED <<monitor, unheard, failures>>

Monitor ==
    \/ Check \/ Look \/ Judge
    \/ SeeGeneration \/ SeeResponse \/ SeeFailure \/ SeeNothing
    \/ Sleep

Next == Monitor \/ ChangePage

Spec == Init /\ [][Next]_vars

\* The coroutine is resumed whenever its query or its sleep is over.
LiveSpec == Spec /\ WF_vars(Monitor)

-----------------------------------------------------------------------------
(* Properties.                                                             *)

TypeOK ==
    /\ <<mode, text>> \in Pages
    /\ pc \in {"check", "look", "judge", "judged", "sleep", "done"}
    /\ present \subseteq {Elements[i] : i \in 1..asked}
    /\ asked \in 0..Len(Elements)
    /\ verdict \in GenerationState
    /\ samples \in Seq(Texts)
    /\ clock \in 0..(TimeLimit + 1)
    /\ result \in [state : GenerationState, text : Texts \cup {NoText}] \cup {NoResult}
    /\ quiet \in BOOLEAN /\ blank \in BOOLEAN /\ unheard \in BOOLEAN
    /\ settled \subseteq Texts \cup {NoText}
    /\ changes \in 0..MaxChanges /\ failures \in 0..MaxFailures

\* The states the class comment of GenerationMonitor ranks, with what each
\* of them means for a page.
Means(state, m, t) ==
    CASE state = "NETWORK_FAILURE" -> m = "offline"
      [] state = "ERROR"           -> m = "failed"
      [] state = "GENERATING"      -> m = "generating"
      [] state = "COMPLETED"       -> t \notin Empty
      [] state = "RETRY_AVAILABLE" -> m = "retryable"
      [] state = "STOPPED"         -> m = "stopped"
      [] state = "UNAVAILABLE"     -> m = "loading"
      [] OTHER                     -> TRUE

Ranking == <<"NETWORK_FAILURE", "ERROR", "GENERATING", "COMPLETED", "RETRY_AVAILABLE",
             "STOPPED", "UNAVAILABLE", "UNCERTAIN">>

\* Of a page that keeps still the verdict is the first state of the ranking
\* that is true of it: a completed response before the retry button.
QuietVerdict ==
    pc = "judged" /\ quiet =>
        \E i \in DOMAIN Ranking :
            /\ verdict = Ranking[i]
            /\ Means(Ranking[i], mode, text)
            /\ \A j \in 1..(i - 1) : ~Means(Ranking[j], mode, text)

\* A text is returned as completed only if the page has shown it while it
\* was not generating, as long as page changes and failed queries together
\* are fewer than it takes to deceive every one of the samples: a query that
\* raises hides a running generation no cheaper than a change of the page.
NoPartialText ==
    result.state = "COMPLETED" /\ changes + failures < 2 * Samples - 1
        => result.text \in settled

\* The wait ends.
WaitEnds == <>(pc = "done")

\* A retry is available only when there was a moment during the check at which
\* the page showed no response (detect_state: "takes STRICT PRECEDENCE over
\* retry controls"), or when one of the two queries raised that would have told
\* of a response; any other query may raise.
RetryOnlyWithoutResponse ==
    pc = "judged" /\ verdict = "RETRY_AVAILABLE" => blank \/ unheard
=============================================================================
