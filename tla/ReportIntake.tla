---------------------------- MODULE ReportIntake ----------------------------
(***************************************************************************)
(* How the implementer's report is found in the newest turn of AI Studio:  *)
(* ImplementerReportParser.  The texts are those of CommandIntake, written *)
(* token by token, read as Gemini's turn: START and END are the tags of an *)
(* [IMPLEMENTER_REPORT], a block is header lines and the prose below them, *)
(* Good when TASK_ID, PHASE and STATUS are among them.                     *)
(***************************************************************************)
EXTENDS CommandIntake

\* strip, then header lines until the first line that is none: headers count
\* only when the report begins with them.
Headed(content) ==
    IF content = <<>> \/ Head(content) \notin Good THEN Malformed ELSE content

\* Mutants: the first report of the turn; a report from its tag to the end.
FirstReport(text) ==
    LET start == Lowest(At(text, "START"))
        ends  == {i \in At(text, "END") : i > start}
    IN  IF At(text, "START") \cup At(text, "END") = {} THEN None
        ELSE IF Cardinality(At(text, "START")) # Cardinality(At(text, "END")) \/ ends = {} THEN Malformed
        ELSE Headed(SubSeq(text, start + 1, Lowest(ends) - 1))

OpenReport(text) ==
    IF At(text, "START") \cup At(text, "END") = {} THEN None
    ELSE IF Cardinality(At(text, "START")) # Cardinality(At(text, "END")) THEN Malformed
    ELSE Headed(SelectSeq(SubSeq(text, Highest(At(text, "START")) + 1, Len(text)),
                          LAMBDA token : token # "END"))

\* extract_report: as many tags of each kind, then from the last start tag to
\* the first end tag behind it.
ExtractReport(text) ==
    LET start == Highest(At(text, "START"))
        ends  == {i \in At(text, "END") : i > start}
    IN  IF At(text, "START") \cup At(text, "END") = {} THEN None
        ELSE IF Cardinality(At(text, "START")) # Cardinality(At(text, "END")) \/ ends = {} THEN Malformed
        ELSE Headed(SubSeq(text, start + 1, Lowest(ends) - 1))

\* inspect_and_validate_report goes on to the correlation.
Reported(text) == ExtractReport(text) \notin {None, Malformed}

-----------------------------------------------------------------------------
(* Properties.                                                             *)

\* A report is taken only whole and only if it is the last one begun: Gemini
\* answering again in the same turn, or still writing, never lets an older
\* report through.
LastReportOnly ==
    Reported(Newest) =>
        \E s \in At(Newest, "START"), e \in At(Newest, "END") :
            /\ \A i \in DOMAIN Newest : i > s => Newest[i] # "START" /\ (i < e => Newest[i] # "END")
            /\ Newest[s + 1] \in Good
            /\ ExtractReport(Newest) = SubSeq(Newest, s + 1, e - 1)

\* A report that was taken is not changed by what is written behind it: it is
\* the same, or gone until the next report is complete.
ReportIsFinal ==
    [][\A token \in Token :
           WriteToken(token) /\ Reported(Newest)
               => ExtractReport(Newest') \in {ExtractReport(Newest), Malformed}]_conversation
=============================================================================
