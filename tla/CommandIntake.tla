---------------------------- MODULE CommandIntake ----------------------------
(***************************************************************************)
(* How a Supervisor command is found in the assistant messages of ChatGPT, *)
(* while they are still being written: MessageParser, CommandClassifier    *)
(* and SupervisorProtocolParser.  A text is a sequence of envelope marks,  *)
(* complete [SUPERVISOR] blocks and prose.                                 *)
(***************************************************************************)
EXTENDS Naturals, Sequences, FiniteSets

CONSTANTS
    Good,       \* blocks whose headers are complete
    Bad,        \* blocks with a missing or wrong header
    MaxTokens   \* bound on the conversation, a new message counting as one

ASSUME IntakeAssumption ==
    /\ Good \cap Bad = {}
    /\ (Good \cup Bad) \cap {"START", "END", "prose", "none", "malformed"} = {}
    /\ MaxTokens \in Nat

VARIABLE conversation  \* the assistant messages, oldest first

Blocks == Good \cup Bad
Token  == Blocks \cup {"START", "END", "prose"}

Init == conversation = << <<>> >>

\* A token is a command sequence by itself in the results below.
None      == <<"none">>       \* nothing executable
Malformed == <<"malformed">>  \* ProtocolError

-----------------------------------------------------------------------------
(* SupervisorProtocolParser.extract_executable_command.                    *)

At(text, token) == {i \in DOMAIN text : text[i] = token}

Lowest(S)  == CHOOSE i \in S : \A j \in S : i <= j
Highest(S) == CHOOSE i \in S : \A j \in S : i >= j

\* The last pair of marks found from position 1 on: each start with the next
\* end, the search going on behind it.  <<0, 0>> for a start without an end,
\* and where no start is left.
LastEnvelope(text) ==
    LET from[pos \in 1..(Len(text) + 1)] ==
            LET starts == {i \in At(text, "START") : i >= pos}
                start  == Lowest(starts)
                ends   == {i \in At(text, "END") : i > start}
                more   == {i \in At(text, "START") : i > Lowest(ends)}
            IN  IF starts = {} \/ ends = {} THEN <<0, 0>>
                ELSE IF more = {} THEN <<start, Lowest(ends)>>
                ELSE from[Lowest(ends) + 1]
    IN  from[1]

\* Mutant: the block may lie anywhere behind the start mark.
BlockBehind(text, start, end) ==
    LET found == {i \in DOMAIN text : i > start /\ text[i] \in Blocks}
    IN  IF found = {} \/ text[Lowest(found)] \in Bad THEN Malformed
        ELSE SubSeq(text, Lowest(found), Highest(found))

\* From the first [SUPERVISOR] to the last [/SUPERVISOR] in the envelope; the
\* headers are those of the first block.
CanonicalBlock(text, start, end) ==
    LET found == {i \in (start + 1)..(end - 1) : text[i] \in Blocks}
    IN  IF found = {} \/ text[Lowest(found)] \in Bad THEN Malformed
        ELSE SubSeq(text, Lowest(found), Highest(found))

\* Mutant: an envelope inside the envelope is not looked for.
ExtractNested(text) ==
    IF At(text, "START") \cup At(text, "END") = {} THEN None
    ELSE IF Cardinality(At(text, "START")) # Cardinality(At(text, "END")) THEN Malformed
    ELSE LET last == LastEnvelope(text)
         IN  IF last = <<0, 0>> THEN Malformed
             ELSE CanonicalBlock(text, last[1], last[2])

Extract(text) ==
    IF At(text, "START") \cup At(text, "END") = {} THEN None
    ELSE IF Cardinality(At(text, "START")) # Cardinality(At(text, "END")) THEN Malformed
    ELSE LET last == LastEnvelope(text)
         IN  IF last = <<0, 0>> \/ \E i \in (last[1] + 1)..last[2] : text[i] = "START"
             THEN Malformed
             ELSE CanonicalBlock(text, last[1], last[2])

-----------------------------------------------------------------------------
(* MessageParser.parse_chatgpt_messages.                                   *)

Executable(text) == Extract(text) \notin {None, Malformed}

\* Mutant: a malformed message is skipped.
ParseSkipping(messages) ==
    LET commands == {m \in DOMAIN messages : Executable(messages[m])}
    IN  IF commands = {} THEN None ELSE Extract(messages[Highest(commands)])

\* Any malformed message raises; otherwise the newest executable one counts.
Parse(messages) ==
    LET commands == {m \in DOMAIN messages : Executable(messages[m])}
    IN  IF \E m \in DOMAIN messages : Extract(messages[m]) = Malformed THEN Malformed
        ELSE IF commands = {} THEN None
        ELSE Extract(messages[Highest(commands)])

-----------------------------------------------------------------------------
(* ChatGPT writes its messages token by token; the bridge may read the     *)
(* conversation after each of them.                                        *)

Newest == conversation[Len(conversation)]

Written == Len(conversation) - 1
             + Cardinality({at \in (1..Len(conversation)) \X (1..MaxTokens) :
                              at[2] \in DOMAIN conversation[at[1]]})

WriteToken(token) ==
    /\ Written < MaxTokens
    /\ conversation' = [conversation EXCEPT ![Len(conversation)] = Append(@, token)]

NewMessage ==
    /\ Written < MaxTokens
    /\ Newest # <<>>
    /\ conversation' = Append(conversation, <<>>)

Next == NewMessage \/ \E token \in Token : WriteToken(token)

Spec == Init /\ [][Next]_conversation

-----------------------------------------------------------------------------
(* Properties.                                                             *)

\* The last envelope of a text: its last start mark and the first end mark
\* behind that.  The command is the canonical block between the two.
IsCommandOf(text, command) ==
    \E s \in At(text, "START"), e \in At(text, "END") :
        /\ s < e
        /\ \A i \in DOMAIN text : i > s => text[i] # "START" /\ (i < e => text[i] # "END")
        /\ \E i, j \in (s + 1)..(e - 1) :
              /\ {text[i], text[j]} \subseteq Blocks /\ text[i] \in Good
              /\ \A k \in (s + 1)..(e - 1) : text[k] \in Blocks => k \in i..j
              /\ command = SubSeq(text, i, j)

\* A text yields a command only if its last envelope is well formed and holds
\* exactly that command: no fallback to an older envelope of the message.
LastEnvelopeDecides ==
    Executable(Newest) => IsCommandOf(Newest, Extract(Newest))

\* A command is taken from the newest message with an envelope, never from
\* an older one behind a malformed one.
NoOlderCommand ==
    LET marked == {m \in DOMAIN conversation :
                     At(conversation[m], "START") \cup At(conversation[m], "END") # {}}
    IN  Parse(conversation) \notin {None, Malformed} =>
            IsCommandOf(conversation[Highest(marked)], Parse(conversation))

\* Once a message holds a command, text written behind the envelope leaves
\* the command, and so its SHA256, as it is.
CommandIsFinal ==
    [][\A token \in Token \ {"START", "END"} :
           WriteToken(token) /\ Executable(Newest) => Extract(Newest') = Extract(Newest)]_conversation
=============================================================================
