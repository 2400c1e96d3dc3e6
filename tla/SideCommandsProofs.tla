-------------------------- MODULE SideCommandsProofs --------------------------
(***************************************************************************)
(* What is proved of the commands that stand beside publish: the stable    *)
(* reader, the sign-in, the probe, the review pull with the status, and    *)
(* setup.  Each has one inductive invariant, for any number of commands,   *)
(* folders, attempts, changes and faults.                                  *)
(*                                                                         *)
(* ReadAtOneMoment speaks of the end of a read alone.  The invariant of    *)
(* the reader also says what the answers are while the read is under way:  *)
(* states the document was in, in the order it was in them, none of them   *)
(* refused.  Two answers of one version are then the same state, and with  *)
(* them every answer in between.                                           *)
(***************************************************************************)
EXTENDS StableReader, Auth, Probe, ReviewPull, Setup, FiniteSetTheorems, TLAPS


-----------------------------------------------------------------------------
(* The stable reader: the inductive invariant *)

Moments == [version : Nat, revision : Nat, tabs : Topologies,
            suggestions : BOOLEAN, trashed : BOOLEAN]

Reads == [kind : {"none", "stable", "capture"}, step : Nat, attempt : Nat,
          strict : BOOLEAN, answers : Seq(Moments)]

\* The document was a and is, or later was, b.
Before(a, b) ==
    /\ a.version <= b.version
    /\ a.version = b.version => a = b

ReaderTypeInv ==
    /\ document \in Moments
    /\ document \in moments
    /\ read \in Reads

\* What answers i to its request did not refuse.
Passed(kind, i, answer) ==
    /\ Order(kind)[i] = "file" => ~answer.trashed
    /\ Order(kind)[i] = "docs" /\ kind = "stable" =>
          answer.tabs # "nested" /\ ~answer.suggestions

AnswersInOrder(kind, answers) ==
    /\ \A i \in 1..Len(answers) :
          /\ answers[i] \in moments
          /\ Before(answers[i], document)
          /\ Passed(kind, i, answers[i])
    /\ \A i, j \in 1..Len(answers) : i <= j => Before(answers[i], answers[j])

ReadUnderWay ==
    read.kind # "none" =>
        /\ read.step \in 1..Len(Order(read.kind))
        /\ Len(read.answers) = read.step - 1
        /\ AnswersInOrder(read.kind, read.answers)
        /\ read.step > Again + 1 => Unchanged(read.answers)

ReaderInv == ReaderTypeInv /\ ReadUnderWay /\ ReadAtOneMoment

-----------------------------------------------------------------------------
(* The stable reader: lemmas about its data *)

\* A change of the document leaves what was answered in order.
LEMMA ChangeKeepsOrder ==
    ASSUME NEW a \in Moments, NEW new \in Moments, document \in Moments,
           Before(a, document), new.version = document.version + 1
    PROVE  Before(a, new)
BY DEF Before, Moments

\* Each change a read undergoes leaves it a read.
LEMMA ReadUpdates ==
    ASSUME read \in Reads
    PROVE  /\ [read EXCEPT !.kind = "none", !.step = 0, !.answers = <<>>] \in Reads
           /\ [read EXCEPT !.step = 1, !.attempt = @ + 1, !.answers = <<>>] \in Reads
           /\ \A s \in Seq(Moments) : [read EXCEPT !.step = @ + 1, !.answers = s] \in Reads
<1>1. read.step + 1 \in Nat /\ read.attempt + 1 \in Nat /\ 0 \in Nat /\ 1 \in Nat
      /\ <<>> \in Seq(Moments)
  BY DEF Reads
<1>2. \A n \in Nat, s \in Seq(Moments) :
         /\ [read EXCEPT !.kind = "none", !.step = n, !.answers = s] \in Reads
         /\ [read EXCEPT !.step = n, !.answers = s] \in Reads
  BY DEF Reads
<1>3. \A n, m \in Nat, s \in Seq(Moments) :
         [read EXCEPT !.step = n, !.attempt = m, !.answers = s] \in Reads
  BY DEF Reads
<1> QED BY <1>1, <1>2, <1>3

\* The document as it is follows everything that was answered (Request).
LEMMA AnswerKeepsOrder ==
    ASSUME ReaderTypeInv, ReadUnderWay, read.kind # "none",
           ~Refused(document, Order(read.kind)[read.step])
    PROVE  LET answers == Append(read.answers, document)
           IN  /\ answers \in Seq(Moments)
               /\ Len(answers) = read.step
               /\ AnswersInOrder(read.kind, answers)
<1> DEFINE answers == Append(read.answers, document)
<1>1. /\ answers \in Seq(Moments) /\ Len(answers) = read.step
      /\ \A i \in 1..Len(read.answers) : answers[i] = read.answers[i]
      /\ answers[read.step] = document
      /\ read.step \in Nat \ {0} /\ Len(read.answers) = read.step - 1
  BY DEF ReaderTypeInv, ReadUnderWay, Order, Reads
<1>2. Before(document, document)
  BY DEF ReaderTypeInv, Moments, Before, Reads
<1>3. Passed(read.kind, read.step, document)
  BY DEF Refused, Passed, ReaderTypeInv, Order, Reads
<1>4. ASSUME NEW i \in 1..Len(answers)
      PROVE  /\ answers[i] \in moments
             /\ Before(answers[i], document)
             /\ Passed(read.kind, i, answers[i])
  <2>1. CASE i = read.step
    BY <1>1, <1>2, <1>3, <2>1 DEF ReaderTypeInv, Reads
  <2>2. CASE i # read.step
    <3>1. i \in 1..Len(read.answers)
      BY <1>1, <2>2
    <3> QED BY <1>1, <3>1 DEF ReadUnderWay, AnswersInOrder
  <2> QED BY <2>1, <2>2
<1>5. ASSUME NEW i \in 1..Len(answers), NEW j \in 1..Len(answers), i <= j
      PROVE  Before(answers[i], answers[j])
  <2>1. CASE j = read.step
    BY <1>1, <1>4, <2>1
  <2>2. CASE j # read.step
    <3>1. i \in 1..Len(read.answers) /\ j \in 1..Len(read.answers)
      BY <1>1, <1>5, <2>2
    <3> QED BY <1>1, <1>5, <3>1 DEF ReadUnderWay, AnswersInOrder
  <2> QED BY <2>1, <2>2
<1> QED BY <1>1, <1>4, <1>5 DEF AnswersInOrder

\* Answers of one version, and those between them, are one state.
LEMMA OneState ==
    ASSUME NEW kind, NEW answers \in Seq(Moments), AnswersInOrder(kind, answers),
           NEW i \in 1..Len(answers), NEW j \in 1..Len(answers),
           NEW k \in 1..Len(answers),
           i <= k, k <= j, answers[i].version = answers[j].version
    PROVE  answers[k] = answers[i] /\ answers[j] = answers[i]
<1>1. answers[i] \in Moments /\ answers[j] \in Moments /\ answers[k] \in Moments
  OBVIOUS
<1>2. /\ Before(answers[i], answers[k]) /\ Before(answers[k], answers[j])
      /\ Before(answers[i], answers[j])
  BY DEF AnswersInOrder
<1> QED BY <1>1, <1>2 DEF Before, Moments

\* Result, of answers that agree, is of one moment (StableReader.Read, Capture).
LEMMA ResultOfOneMoment ==
    ASSUME ReaderTypeInv, read.kind # "none",
           NEW answers \in Seq(Moments), Len(answers) = Len(Order(read.kind)),
           AnswersInOrder(read.kind, answers), Unchanged(answers),
           taken' = Result(answers), moments' = moments
    PROVE  ReadAtOneMoment'
<1>1. CASE read.kind = "stable"
  <2>1. Len(answers) = 6 /\ Again = 4
    BY <1>1 DEF Order, Again
  <2>2. \A i \in 1..6 : answers[i] \in Moments /\ answers[i] \in moments
    <3>1. \A i \in 1..Len(answers) : answers[i] \in Moments
      OBVIOUS
    <3> QED BY <2>1, <3>1 DEF AnswersInOrder
  <2>3. answers[2] = answers[1] /\ answers[4] = answers[1] /\ answers[3] = answers[1]
    BY <2>1, OneState, 1 \in 1..6, 2 \in 1..6, 3 \in 1..6, 4 \in 1..6 DEF Unchanged
  <2>4. ~answers[4].trashed /\ answers[2].tabs # "nested"
        /\ ~answers[2].suggestions /\ ~answers[5].suggestions
    <3>1. Passed("stable", 4, answers[4]) /\ Passed("stable", 2, answers[2])
          /\ Passed("stable", 5, answers[5])
      <4>1. 4 \in 1..Len(answers) /\ 2 \in 1..Len(answers) /\ 5 \in 1..Len(answers)
        BY <2>1
      <4> QED BY <1>1, <4>1 DEF AnswersInOrder
    <3> QED BY <3>1 DEF Passed, Order
  <2>5. answers[5].revision = answers[4].revision
    BY <2>1, <2>3 DEF Unchanged
  <2>6. taken' = [error |-> "none", kind |-> "stable", version |-> answers[4].version,
                  revision |-> answers[5].revision, text |-> answers[3].revision,
                  suggestions |-> answers[5].suggestions]
    BY <1>1 DEF Result
  <2>7. answers[4].suggestions = answers[5].suggestions
    BY <2>2, <2>3, <2>4, 4 \in 1..6, 5 \in 1..6 DEF Moments
  <2> QED BY <2>2, <2>3, <2>4, <2>5, <2>6, <2>7, 4 \in 1..6 DEF ReadAtOneMoment
<1>2. CASE read.kind = "capture"
  <2>1. Len(answers) = 4 /\ Again = 3
    BY <1>2 DEF Order, Again
  <2>2. \A i \in 1..4 : answers[i] \in Moments /\ answers[i] \in moments
    <3>1. \A i \in 1..Len(answers) : answers[i] \in Moments
      OBVIOUS
    <3> QED BY <2>1, <3>1 DEF AnswersInOrder
  <2>3. answers[2] = answers[1]
    BY <2>1, OneState, 1 \in 1..4, 2 \in 1..4, 3 \in 1..4 DEF Unchanged
  <2>4. ~answers[1].trashed
    <3>1. Passed("capture", 1, answers[1])
      <4>1. 1 \in 1..Len(answers)
        BY <2>1
      <4> QED BY <1>2, <4>1 DEF AnswersInOrder
    <3> QED BY <3>1 DEF Passed, Order
  <2>5. taken' = [error |-> "none", kind |-> "capture", version |-> answers[1].version,
                  revision |-> answers[2].revision, text |-> answers[2].revision,
                  suggestions |-> answers[2].suggestions]
    BY <1>2 DEF Result
  <2> QED BY <2>2, <2>3, <2>4, <2>5, 1 \in 1..4 DEF ReadAtOneMoment
<1> QED BY <1>1, <1>2 DEF ReaderTypeInv, Reads

-----------------------------------------------------------------------------
(* The stable reader: its steps *)

LEMMA ReaderInitInvariant == ReaderInit => ReaderInv
<1> SUFFICES ASSUME ReaderInit PROVE ReaderInv
  OBVIOUS
<1>1. document \in Moments /\ document \in moments
  BY DEF ReaderInit, Moments, Topologies
<1>2. read \in Reads
  BY DEF ReaderInit, Reads
<1>3. read.kind = "none" /\ taken.error # "none"
  BY DEF ReaderInit, NotTaken
<1> QED BY <1>1, <1>2, <1>3 DEF ReaderInv, ReaderTypeInv, ReadUnderWay, ReadAtOneMoment

\* A change of the document disturbs the order of the answers at most.
LEMMA ChangeKeepsInvariant ==
    ASSUME ReaderInv, NEW new \in Moments, new.version = document.version + 1,
           Become(new)
    PROVE  ReaderInv'
<1> USE DEF ReaderInv
<1>1. /\ document' = new /\ moments' = moments \cup {new}
      /\ read' = read /\ taken' = taken
  BY DEF Become
<1>2. ReaderTypeInv'
  BY <1>1 DEF ReaderTypeInv, Reads
<1>3. ReadUnderWay'
  <2> SUFFICES ASSUME read.kind # "none"
               PROVE  AnswersInOrder(read.kind, read.answers)'
    BY <1>1 DEF ReadUnderWay, Again, Unchanged
  <2>1. ASSUME NEW i \in 1..Len(read.answers)
        PROVE  /\ read.answers[i] \in moments' /\ Before(read.answers[i], new)
               /\ Passed(read.kind, i, read.answers[i])
    <3>1. read.answers[i] \in Moments
      BY DEF ReaderTypeInv, Reads
    <3> QED BY <1>1, <3>1, ChangeKeepsOrder
            DEF ReadUnderWay, AnswersInOrder, ReaderTypeInv
  <2> QED BY <1>1, <2>1 DEF AnswersInOrder, ReadUnderWay
<1>4. ReadAtOneMoment'
  BY <1>1 DEF ReadAtOneMoment
<1> QED BY <1>2, <1>3, <1>4

LEMMA EditsKeepInvariant ==
    ASSUME ReaderInv, EditDocument \/ EditFile
    PROVE  ReaderInv'
<1>1. document \in Moments
  BY DEF ReaderInv, ReaderTypeInv, Reads
<1>2. CASE EditDocument
  <2>1. PICK tabs \in Topologies, suggestions \in BOOLEAN :
            Become([document EXCEPT !.version = @ + 1, !.revision = @ + 1,
                                    !.tabs = tabs, !.suggestions = suggestions])
    BY <1>2 DEF EditDocument
  <2> DEFINE new == [document EXCEPT !.version = @ + 1, !.revision = @ + 1,
                                     !.tabs = tabs, !.suggestions = suggestions]
  <2>2. document.version + 1 \in Nat /\ document.revision + 1 \in Nat
    BY <1>1 DEF Moments
  <2>3. \A n, m \in Nat : [document EXCEPT !.version = n, !.revision = m,
                                       !.tabs = tabs, !.suggestions = suggestions] \in Moments
    BY <1>1 DEF Moments
  <2>4. new \in Moments
    BY <2>2, <2>3
  <2>5. new.version = document.version + 1
    BY <1>1 DEF Moments
  <2> QED BY <2>1, <2>4, <2>5, ChangeKeepsInvariant
<1>3. CASE EditFile
  <2>1. PICK trashed \in BOOLEAN :
            Become([document EXCEPT !.version = @ + 1, !.trashed = trashed])
    BY <1>3 DEF EditFile
  <2> DEFINE new == [document EXCEPT !.version = @ + 1, !.trashed = trashed]
  <2>2. document.version + 1 \in Nat /\ document.revision + 1 \in Nat
    BY <1>1 DEF Moments
  <2>3. \A n \in Nat : [document EXCEPT !.version = n, !.trashed = trashed] \in Moments
    BY <1>1 DEF Moments
  <2>4. new \in Moments
    BY <2>2, <2>3
  <2>5. new.version = document.version + 1
    BY <1>1 DEF Moments
  <2> QED BY <2>1, <2>4, <2>5, ChangeKeepsInvariant
<1> QED BY <1>2, <1>3

LEMMA StartKeepsInvariant ==
    ASSUME ReaderInv, NEW kind \in {"stable", "capture"}, NEW strict \in BOOLEAN,
           StartRead(kind, strict)
    PROVE  ReaderInv'
<1>1. /\ read' = [kind |-> kind, step |-> 1, attempt |-> 1, strict |-> strict,
                  answers |-> <<>>]
      /\ taken' = NotTaken /\ document' = document /\ moments' = moments
  BY DEF StartRead
<1>2. ReaderTypeInv'
  BY <1>1 DEF ReaderInv, ReaderTypeInv, Reads
<1>3. ReadUnderWay'
  BY <1>1 DEF ReadUnderWay, AnswersInOrder, Order, Again
<1>4. ReadAtOneMoment'
  BY <1>1 DEF ReadAtOneMoment, NotTaken
<1> QED BY <1>2, <1>3, <1>4 DEF ReaderInv

\* A read that ends keeps the invariant if its result does.
LEMMA FinishKeepsInvariant ==
    ASSUME ReaderInv, NEW result, Finish(result), ReadAtOneMoment'
    PROVE  ReaderInv'
<1>1. /\ document' = document /\ moments' = moments
      /\ read' = [read EXCEPT !.kind = "none", !.step = 0, !.answers = <<>>]
  BY DEF Finish
<1>2. ReaderTypeInv'
  BY <1>1, ReadUpdates DEF ReaderInv, ReaderTypeInv
<1>3. ReadUnderWay'
  BY <1>1 DEF ReaderInv, ReaderTypeInv, ReadUnderWay, Reads
<1> QED BY <1>2, <1>3 DEF ReaderInv

LEMMA ErrorKeepsInvariant ==
    ASSUME ReaderInv, NEW error \in {"refused", "unstable", "failed"},
           Finish([error |-> error])
    PROVE  ReaderInv'
<1>1. ReadAtOneMoment'
  BY DEF Finish, ReadAtOneMoment
<1> QED BY <1>1, FinishKeepsInvariant

LEMMA RequestKeepsInvariant ==
    ASSUME ReaderInv, Request
    PROVE  ReaderInv'
<1> DEFINE answers == Append(read.answers, document)
<1>0. read.kind \in {"stable", "capture"} /\ ReaderTypeInv /\ ReadUnderWay
  BY DEF Request, ReaderInv, ReaderTypeInv, Reads
<1>1. CASE Finish([error |-> "refused"]) \/ Finish([error |-> "unstable"])
  BY <1>1, ErrorKeepsInvariant
<1>2. CASE /\ read' = [read EXCEPT !.step = 1, !.attempt = @ + 1, !.answers = <<>>]
           /\ UNCHANGED <<document, moments, taken>>
  <2>1. ReaderTypeInv'
    BY <1>0, <1>2, ReadUpdates DEF ReaderTypeInv
  <2>2. ReadUnderWay'
    BY <1>0, <1>2 DEF ReaderTypeInv, ReadUnderWay, AnswersInOrder, Order, Again, Reads
  <2>3. ReadAtOneMoment'
    BY <1>2 DEF ReaderInv, ReadAtOneMoment
  <2> QED BY <2>1, <2>2, <2>3 DEF ReaderInv
<1>3. ASSUME ~EndsRead(answers), ~Moved(answers)
      PROVE  /\ answers \in Seq(Moments) /\ Len(answers) = read.step
             /\ AnswersInOrder(read.kind, answers)
             /\ read.step >= Again + 1 => Unchanged(answers)
  <2>1. ~Refused(document, Order(read.kind)[read.step])
    BY <1>3 DEF EndsRead
  <2>2. /\ answers \in Seq(Moments) /\ Len(answers) = read.step
        /\ AnswersInOrder(read.kind, answers)
    BY <1>0, <2>1, AnswerKeepsOrder
  <2>3. ASSUME read.step > Again + 1
        PROVE  Unchanged(answers)
    <3>1. Unchanged(read.answers)
      BY <1>0, <2>3 DEF ReadUnderWay
    <3>2. \A i \in 1..Again + 1 : answers[i] = read.answers[i]
      BY <1>0, <2>3 DEF ReadUnderWay, ReaderTypeInv, Again, Order, Reads
    <3>3. Again \in {3, 4}
      BY DEF Again
    <3>4. \A i \in {1, 2, Again, Again + 1} : i \in 1..Again + 1
      BY <3>3
    <3> QED BY <3>1, <3>2, <3>4 DEF Unchanged
  <2>4. ASSUME read.step = Again + 1
        PROVE  Unchanged(answers)
    BY <1>3, <2>4 DEF Moved, Judges
  <2>5. read.step \in Nat /\ Again \in Nat
    BY <1>0 DEF ReaderTypeInv, Again, Reads
  <2> QED BY <2>2, <2>3, <2>4, <2>5
<1>4. CASE /\ ~EndsRead(answers) /\ ~Moved(answers) /\ read.step = Len(Order(read.kind))
           /\ Finish(Result(answers))
  <2>1. read.step >= Again + 1
    BY <1>0, <1>4 DEF Order, Again
  <2>2. ReadAtOneMoment'
    BY <1>0, <1>3, <1>4, <2>1, ResultOfOneMoment DEF Finish
  <2> QED BY <1>4, <2>2, FinishKeepsInvariant
<1>5. CASE /\ ~EndsRead(answers) /\ ~Moved(answers) /\ read.step < Len(Order(read.kind))
           /\ read' = [read EXCEPT !.step = @ + 1, !.answers = answers]
           /\ UNCHANGED <<document, moments, taken>>
  <2>1. ReaderTypeInv'
    BY <1>0, <1>3, <1>5, ReadUpdates DEF ReaderTypeInv
  <2>2. ReadUnderWay'
    <3>1. /\ read'.kind = read.kind /\ read'.step = read.step + 1
          /\ read'.answers = answers
      BY <1>0, <1>5 DEF ReaderTypeInv, Reads
    <3>2. AnswersInOrder(read.kind, read.answers)'
      BY <1>3, <1>5, <3>1 DEF AnswersInOrder
    <3>3. Again' = Again /\ (Unchanged(answers) => Unchanged(read.answers)')
      BY <1>5, <3>1 DEF Again, Unchanged
    <3>4. read.step \in 1..Len(Order(read.kind)) /\ Len(Order(read.kind)) \in Nat
          /\ Again \in Nat
      BY <1>0 DEF ReadUnderWay, Order, Again
    <3> QED BY <1>3, <1>5, <3>1, <3>2, <3>3, <3>4 DEF ReadUnderWay
  <2>3. ReadAtOneMoment'
    BY <1>5 DEF ReaderInv, ReadAtOneMoment
  <2> QED BY <2>1, <2>2, <2>3 DEF ReaderInv
<1> QED BY <1>1, <1>2, <1>4, <1>5 DEF Request

LEMMA ReaderNextInvariant == ReaderInv /\ [ReaderNext]_readerStateVars => ReaderInv'
<1> SUFFICES ASSUME ReaderInv, [ReaderNext]_readerStateVars
             PROVE  ReaderInv'
  OBVIOUS
<1>1. CASE EditDocument \/ EditFile
  BY <1>1, EditsKeepInvariant
<1>2. CASE Request
  BY <1>2, RequestKeepsInvariant
<1>3. CASE RequestFails
  BY <1>3, ErrorKeepsInvariant DEF RequestFails
<1>4. CASE \E kind \in {"stable", "capture"}, strict \in BOOLEAN : StartRead(kind, strict)
  BY <1>4, StartKeepsInvariant
<1>5. CASE UNCHANGED readerStateVars
  BY <1>5 DEF readerStateVars, ReaderInv, ReaderTypeInv, ReadUnderWay, AnswersInOrder,
              Again, Unchanged, ReadAtOneMoment
<1> QED BY <1>1, <1>2, <1>3, <1>4, <1>5 DEF ReaderNext

-----------------------------------------------------------------------------
(* The stable reader: the theorem *)

\* Whatever people do to a document while it is read, version, revision and
\* text of what a read returns are of one moment of it (StableReader.Read and
\* Service.Capture), for any number of attempts.
THEOREM ReadAtOneMomentHolds == ReaderSpec => []ReadAtOneMoment
<1>1. ReaderInv => ReadAtOneMoment
  BY DEF ReaderInv
<1> QED BY <1>1, ReaderInitInvariant, ReaderNextInvariant, PTL DEF ReaderSpec

-----------------------------------------------------------------------------
(* Signing in: the inductive invariant *)

Tokens == [grant : Nat, access : Nat]
Kinds == {"none", "login", "client"}
AuthSteps == {"idle", "wait", "exchange", "load", "refresh", "write", "rename"}
CommandRecords ==
    [kind : Kinds, step : AuthSteps, token : Tokens,
     channel : {"empty"} \cup Answers, overtaken : BOOLEAN]

AuthTypes ==
    /\ tokens \in Tokens /\ sign \in Nat
    /\ google \in [grants : Nat, issued : Nat, expired : Nat]
    /\ command \in [Clients -> CommandRecords]

\* A token that will be saved is of a login, or a refreshed one of the grant
\* that the user is signed in with, or was overtaken by a login or a logout.
HeldToken(c) ==
    command[c].step \in {"refresh", "write", "rename"} =>
        /\ command[c].kind \in {"login", "client"} /\ command[c].token.grant # 0
        /\ command[c].kind = "client" =>
              command[c].overtaken \/ command[c].token.grant = sign

AuthInv == AuthTypes /\ GrantKept /\ \A c \in Clients : HeldToken(c)

\* A command that does nothing holds no token.
LEMMA NoCommandTyped ==
    /\ NoToken \in Tokens /\ NoCommand \in CommandRecords
    /\ NoCommand.step = "idle" /\ NoToken.grant = 0
BY DEF NoToken, Tokens, NoCommand, CommandRecords, Kinds, AuthSteps

\* A step of one command that leaves the token file alone.
LEMMA CommandKeepsAuth ==
    ASSUME AuthInv, NEW c \in Clients, NEW r \in CommandRecords, Step(c, r),
           UNCHANGED <<tokens, sign>>,
           google' \in [grants : Nat, issued : Nat, expired : Nat],
           r.step \in {"refresh", "write", "rename"} =>
               /\ r.kind \in {"login", "client"} /\ r.token.grant # 0
               /\ r.kind = "client" => r.overtaken \/ r.token.grant = sign
    PROVE  AuthInv'
<1>1. command' = [command EXCEPT ![c] = r] /\ command \in [Clients -> CommandRecords]
  BY DEF Step, AuthInv, AuthTypes
<1>2. command' \in [Clients -> CommandRecords] /\ command'[c] = r
      /\ \A d \in Clients \ {c} : command'[d] = command[d]
  BY <1>1
<1>3. AuthTypes' /\ GrantKept'
  BY <1>2 DEF AuthInv, AuthTypes, GrantKept, NoToken
<1>4. \A d \in Clients : HeldToken(d)'
  BY <1>2 DEF AuthInv, HeldToken
<1>5. QED BY <1>3, <1>4 DEF AuthInv

\* So does one that moves to another step with the token it has.
LEMMA MoveKeepsAuth ==
    ASSUME AuthInv, NEW c \in Clients, NEW step \in AuthSteps, Move(c, step),
           UNCHANGED <<tokens, sign, google>>,
           step \in {"refresh", "write", "rename"} =>
               command[c].step \in {"refresh", "write", "rename"}
    PROVE  AuthInv'
<1>1. command[c] \in CommandRecords /\ google' \in [grants : Nat, issued : Nat, expired : Nat]
  BY DEF AuthInv, AuthTypes
<1>2. PICK r : r = [command[c] EXCEPT !.step = step]
  OBVIOUS
<1>3. /\ r \in CommandRecords /\ r.step = step /\ r.kind = command[c].kind
      /\ r.token = command[c].token /\ r.overtaken = command[c].overtaken
  BY <1>1, <1>2 DEF CommandRecords
<1>4. HeldToken(c)
  BY DEF AuthInv
<1>5. Step(c, r)
  BY <1>2 DEF Move
<1>6. QED BY <1>1, <1>3, <1>4, <1>5, CommandKeepsAuth DEF HeldToken

\* And one that ends the command.
LEMMA LeaveKeepsAuth ==
    ASSUME AuthInv, NEW c \in Clients, LeaveAuth(c), UNCHANGED <<tokens, sign>>,
           google' \in [grants : Nat, issued : Nat, expired : Nat]
    PROVE  AuthInv'
BY NoCommandTyped, CommandKeepsAuth DEF LeaveAuth

\* A command that changes the grant overtakes every other that holds one.
LEMMA OvertakeKeepsAuth ==
    ASSUME AuthInv, NEW c \in Clients, Overtake(c), UNCHANGED google,
           tokens' \in Tokens, sign' \in Nat, GrantKept'
    PROVE  AuthInv'
<1>a. command \in [Clients -> CommandRecords]
  BY DEF AuthInv, AuthTypes
<1>1. command'[c] = NoCommand /\ command' \in [Clients -> CommandRecords]
  <2>1. ASSUME NEW d \in Clients, NEW b \in BOOLEAN
        PROVE  [command[d] EXCEPT !.overtaken = b] \in CommandRecords
    BY <1>a DEF CommandRecords
  <2>2. ASSUME NEW d \in Clients
        PROVE  command[d].overtaken \/ (command[d].kind = "client" /\ command[d].step # "load")
                 \in BOOLEAN
    OBVIOUS
  <2>3. QED BY <2>1, <2>2, NoCommandTyped DEF Overtake
<1>2. ASSUME NEW d \in Clients, d # c PROVE HeldToken(d)'
  <2>1. command'[d] = [command[d] EXCEPT !.overtaken =
                          @ \/ (command[d].kind = "client" /\ command[d].step # "load")]
    BY <1>2 DEF Overtake
  <2>2. /\ command'[d].step = command[d].step /\ command'[d].kind = command[d].kind
        /\ command'[d].token = command[d].token
        /\ command[d].kind = "client" /\ command[d].step # "load" => command'[d].overtaken
    BY <1>a, <2>1 DEF CommandRecords
  <2>3. HeldToken(d)
    BY DEF AuthInv
  <2>4. QED BY <2>2, <2>3 DEF HeldToken
<1>3. HeldToken(c)'
  BY <1>1, NoCommandTyped DEF HeldToken
<1>4. AuthTypes'
  BY <1>1 DEF AuthInv, AuthTypes
<1>5. QED BY <1>2, <1>3, <1>4 DEF AuthInv

\* Saving a token: a login changes the grant, a refresh keeps it.
LEMMA RenameKeepsAuth ==
    ASSUME AuthInv, NEW c \in Clients, RenameToken(c)
    PROVE  AuthInv'
<1>1. /\ command[c].token \in Tokens /\ command[c].token.grant # 0
      /\ command[c].token.grant \in Nat
      /\ command[c].kind \in {"login", "client"}
      /\ command[c].kind = "client" => command[c].overtaken \/ command[c].token.grant = sign
  BY DEF AuthInv, AuthTypes, CommandRecords, Tokens, HeldToken, RenameToken
<1>2. tokens' = command[c].token /\ tokens' # NoToken /\ UNCHANGED google
  BY <1>1, NoCommandTyped DEF RenameToken
<1>3. CASE command[c].kind = "login" \/ command[c].overtaken
  <2>1. sign' = command[c].token.grant /\ Overtake(c)
    BY <1>3 DEF RenameToken
  <2>2. GrantKept'
    BY <1>1, <1>2, <2>1 DEF GrantKept, NoToken
  <2>3. QED BY <1>1, <1>2, <2>1, <2>2, OvertakeKeepsAuth
<1>4. CASE ~(command[c].kind = "login" \/ command[c].overtaken)
  <2>1. LeaveAuth(c) /\ sign' = sign /\ sign # 0 /\ tokens'.grant = sign
    BY <1>1, <1>2, <1>4 DEF RenameToken
  <2>2. GrantKept'
    BY <1>2, <2>1 DEF GrantKept, NoToken
  <2>3. command' \in [Clients -> CommandRecords] /\ command'[c] = NoCommand
        /\ \A d \in Clients \ {c} : command'[d] = command[d]
    BY <2>1, NoCommandTyped DEF LeaveAuth, Step, AuthInv, AuthTypes
  <2>4. \A d \in Clients : HeldToken(d)'
    BY <2>1, <2>3, NoCommandTyped DEF AuthInv, HeldToken
  <2>5. AuthTypes'
    BY <1>1, <1>2, <2>1, <2>3 DEF AuthInv, AuthTypes
  <2>6. QED BY <2>2, <2>4, <2>5 DEF AuthInv
<1>5. QED BY <1>3, <1>4

\* A token refreshed or given by Google is one of the user's grant.
LEMMA GoogleKeepsAuth ==
    ASSUME AuthInv, NEW c \in Clients, Exchange(c) \/ Refresh(c)
    PROVE  AuthInv'
<1>a. /\ command[c] \in CommandRecords /\ command[c].token \in Tokens
      /\ google.grants \in Nat /\ google.issued \in Nat
      /\ google \in [grants : Nat, issued : Nat, expired : Nat]
  BY DEF AuthInv, AuthTypes, CommandRecords
<1>b. ASSUME NEW n \in Nat, Issued(n)
      PROVE  google' \in [grants : Nat, issued : Nat, expired : Nat]
  <2>1. google' = [google EXCEPT !.grants = n, !.issued = google.issued + 1]
    BY <1>b DEF Issued
  <2>2. google.issued + 1 \in Nat
    BY <1>a
  <2>3. PICK k \in Nat : k = google.issued + 1
    BY <2>2
  <2>4. [google EXCEPT !.grants = n, !.issued = k]
          \in [grants : Nat, issued : Nat, expired : Nat]
    BY <1>a
  <2>5. QED BY <2>1, <2>3, <2>4
<1>1. ASSUME NEW token \in Tokens, NEW n \in Nat, Issued(n), UNCHANGED <<tokens, sign>>,
             Step(c, [command[c] EXCEPT !.step = "write", !.token = token]),
             command[c].kind \in {"login", "client"}, token.grant # 0,
             command[c].kind = "client" => command[c].overtaken \/ token.grant = sign
      PROVE  AuthInv'
  <2>1. PICK r : r = [command[c] EXCEPT !.step = "write", !.token = token]
    OBVIOUS
  <2>2. /\ r \in CommandRecords /\ r.step = "write" /\ r.kind = command[c].kind
        /\ r.token = token /\ r.overtaken = command[c].overtaken
    BY <1>a, <2>1 DEF CommandRecords, AuthSteps
  <2>3. Step(c, r)
    BY <1>1, <2>1
  <2>4. QED BY <1>b, <1>1, <2>2, <2>3, CommandKeepsAuth
<1>2. CASE Exchange(c) /\ ~LeaveAuth(c)
  <2>1. PICK token : token = [grant |-> google.grants + 1, access |-> google.issued + 1]
    OBVIOUS
  <2>2. token \in Tokens /\ token.grant # 0 /\ google.grants + 1 \in Nat
    BY <1>a, <2>1 DEF Tokens
  <2>3. /\ Issued(google.grants + 1) /\ UNCHANGED <<tokens, sign>> /\ command[c].kind = "login"
        /\ Step(c, [command[c] EXCEPT !.step = "write", !.token = token])
    BY <1>2, <2>1 DEF Exchange, Now
  <2>4. QED BY <1>1, <2>2, <2>3
<1>3. CASE Exchange(c) /\ LeaveAuth(c)
  <2>1. google' \in [grants : Nat, issued : Nat, expired : Nat] /\ UNCHANGED <<tokens, sign>>
    BY <1>a, <1>b, <1>3 DEF Exchange
  <2>2. QED BY <1>3, <2>1, LeaveKeepsAuth
<1>4. CASE Refresh(c)
  <2>1. PICK answered \in {0, command[c].token.grant} :
           Step(c, [command[c] EXCEPT !.step = "write",
                       !.token = [grant |-> Kept(@.grant, answered),
                                  access |-> google.issued + 1]])
    BY <1>4 DEF Refresh
  <2>2. Kept(command[c].token.grant, answered) = command[c].token.grant
    BY DEF Kept
  <2>3. PICK token : token = [grant |-> command[c].token.grant, access |-> google.issued + 1]
    OBVIOUS
  <2>4. Step(c, [command[c] EXCEPT !.step = "write", !.token = token])
    BY <2>1, <2>2, <2>3
  <2>5. /\ HeldToken(c) /\ command[c].step = "refresh" /\ command[c].kind = "client"
        /\ Issued(google.grants) /\ UNCHANGED <<tokens, sign>>
    BY <1>4 DEF Refresh, Now, AuthInv
  <2>6. token \in Tokens /\ token.grant = command[c].token.grant
    BY <1>a, <2>3 DEF Tokens
  <2>7. QED BY <1>1, <1>a, <2>4, <2>5, <2>6 DEF HeldToken
<1>5. QED BY <1>2, <1>3, <1>4

\* AuthInv is inductive.
LEMMA NextAuth ==
    ASSUME AuthInv, [AuthNext]_authVars
    PROVE  AuthInv'
<1>a. google \in [grants : Nat, issued : Nat, expired : Nat]
  BY DEF AuthInv, AuthTypes
<1>b. \A c \in Clients : command[c] \in CommandRecords
  BY DEF AuthInv, AuthTypes
<1>1. ASSUME NEW c \in Clients, StartLogin(c) \/ StartClient(c) PROVE AuthInv'
  <2>1. PICK r : r \in {[NoCommand EXCEPT !.kind = "login", !.step = "wait"],
                        [NoCommand EXCEPT !.kind = "client", !.step = "load"]} /\ Step(c, r)
    BY <1>1 DEF StartLogin, StartClient
  <2>2. r \in CommandRecords /\ r.step \in {"wait", "load"}
    BY <2>1, NoCommandTyped DEF CommandRecords, Kinds, AuthSteps
  <2>3. QED BY <1>a, <1>1, <2>1, <2>2, CommandKeepsAuth DEF StartLogin, StartClient
<1>2. ASSUME NEW c \in Clients, Callback(c) PROVE AuthInv'
  <2>1. PICK answer \in Answers : Step(c, [command[c] EXCEPT !.channel = Received(@, answer)])
    BY <1>2 DEF Callback
  <2>2. PICK r : r = [command[c] EXCEPT !.channel = Received(@, answer)]
    OBVIOUS
  <2>3. /\ r \in CommandRecords /\ r.step = command[c].step /\ r.kind = command[c].kind
        /\ r.token = command[c].token /\ r.overtaken = command[c].overtaken
    BY <1>b, <2>2 DEF CommandRecords, Received
  <2>4. HeldToken(c) /\ Step(c, r) /\ UNCHANGED <<tokens, sign, google>>
    BY <1>2, <2>1, <2>2 DEF AuthInv, Callback
  <2>5. QED BY <1>a, <2>3, <2>4, CommandKeepsAuth DEF HeldToken
<1>3. ASSUME NEW c \in Clients, TakeCallback(c) PROVE AuthInv'
  BY <1>a, <1>3, MoveKeepsAuth, LeaveKeepsAuth DEF TakeCallback, AuthSteps
<1>4. ASSUME NEW c \in Clients, LoginTimeout(c) \/ StopAuth(c) PROVE AuthInv'
  BY <1>a, <1>4, LeaveKeepsAuth DEF LoginTimeout, StopAuth
<1>5. ASSUME NEW c \in Clients, LoadToken(c) PROVE AuthInv'
  <2>1. CASE tokens = NoToken \/ tokens.access > google.expired
    BY <1>a, <1>5, <2>1, LeaveKeepsAuth DEF LoadToken
  <2>2. CASE ~(tokens = NoToken \/ tokens.access > google.expired)
    <3>1. PICK r : r = [command[c] EXCEPT !.step = "refresh", !.token = tokens]
      OBVIOUS
    <3>2. /\ Step(c, r) /\ command[c].kind = "client" /\ UNCHANGED <<tokens, sign, google>>
      BY <1>5, <2>2, <3>1 DEF LoadToken, Now
    <3>3. /\ r \in CommandRecords /\ r.kind = "client" /\ r.token = tokens
      BY <1>b, <3>1, <3>2 DEF CommandRecords, AuthSteps, AuthInv, AuthTypes
    <3>4. tokens.grant # 0 /\ tokens.grant = sign
      BY <2>2 DEF AuthInv, GrantKept
    <3>5. QED BY <1>a, <3>2, <3>3, <3>4, CommandKeepsAuth
  <2>3. QED BY <2>1, <2>2
<1>6. ASSUME NEW c \in Clients, WriteToken(c) PROVE AuthInv'
  BY <1>6, MoveKeepsAuth DEF WriteToken, AuthSteps
<1>7. ASSUME NEW c \in Clients, Logout(c) PROVE AuthInv'
  <2>1. tokens' = NoToken /\ sign' = 0 /\ Overtake(c) /\ UNCHANGED google
    BY <1>7 DEF Logout
  <2>2. GrantKept'
    BY <2>1, NoCommandTyped DEF GrantKept, NoToken
  <2>3. QED BY <2>1, <2>2, NoCommandTyped, OvertakeKeepsAuth
<1>8. CASE Expire
  <2>1. UNCHANGED <<tokens, command, sign>>
        /\ google' \in [grants : Nat, issued : Nat, expired : Nat]
    BY <1>a, <1>8 DEF Expire
  <2>2. QED BY <2>1 DEF AuthInv, AuthTypes, GrantKept, HeldToken, NoToken
<1>9. CASE UNCHANGED authVars
  BY <1>9 DEF authVars, AuthInv, AuthTypes, GrantKept, HeldToken, NoToken
<1>10. QED
  BY <1>1, <1>2, <1>3, <1>4, <1>5, <1>6, <1>7, <1>8, <1>9, RenameKeepsAuth, GoogleKeepsAuth
  DEF AuthNext, LoginStep

\* Refreshes of any number of commands, overtaken or killed anywhere, leave the
\* user signed in with the grant of the last login (GrantKept).
THEOREM GrantKeptHolds == AuthSpec => []GrantKept
<1>1. AuthInit => AuthInv
  <2> SUFFICES ASSUME AuthInit PROVE AuthInv
    OBVIOUS
  <2>1. AuthTypes /\ \A c \in Clients : command[c].step = "idle"
    BY NoCommandTyped DEF AuthInit, AuthTypes
  <2>2. GrantKept
    BY NoCommandTyped DEF AuthInit, GrantKept
  <2>3. QED BY <2>1, <2>2 DEF AuthInv, HeldToken
<1>2. AuthInv /\ [AuthNext]_authVars => AuthInv'
  BY NextAuth
<1>3. AuthInv => GrantKept
  BY DEF AuthInv
<1>4. QED BY <1>1, <1>2, <1>3, PTL DEF AuthSpec

-----------------------------------------------------------------------------
(* The probe: the inductive invariant *)

Requests == {ProbeScript[i] : i \in 1..22} \cup {"trash"}

Probes == [at : 0..24, keep : BOOLEAN, known : SUBSET ProbeRoles, rev : Int, text : Int,
           checks : BOOLEAN, failed : SUBSET Requests, refused : BOOLEAN,
           ended : BOOLEAN, cleaned : BOOLEAN]

NoteLinks == {"none", "placeholder", "final"}
NoteStates == {"none", "pending", "ready"}
NoteParents == {"none", "staging", "review"}
Notes == [rev : Int, text : Int, link : NoteLinks, marker : BOOLEAN, tabs : Int,
          comments : Int, status : NoteStates, parent : NoteParents]

ProbeTypes == probe \in Probes /\ note \in Notes

\* What a script that goes on has behind it, place by place.
ScriptDone ==
    probe.at > 1 /\ ~probe.refused =>
        /\ "root" \in probe.known
        /\ probe.at > 5 /\ probe.checks => probe.known = ProbeRoles
        /\ probe.at > 7 => note.link = "final"
        /\ probe.at > 20 => note.status = "ready"
        /\ probe.at > 21 => note.parent = "review"
        /\ probe.at = 24 => probe.checks

\* Without an answer at the root folder, the request for it has failed.
RootAsked == probe.at > 1 => "root" \in probe.known \/ "root" \in probe.failed

\* The cleanup is the last thing that a probe does.
CleanupLast ==
    /\ ~probe.ended => ~probe.cleaned
    /\ probe.ended => probe.at >= 23 /\ (probe.at = 23 => probe.refused)

ProbeInv == ProbeTypes /\ ScriptDone /\ RootAsked /\ CleanupLast /\ ProbeLeavesNothing

\* The script, request by request.
LEMMA ScriptAt ==
    /\ ProbeScript[1] = "root" /\ ProbeScript[2] = "staging" /\ ProbeScript[3] = "review"
    /\ ProbeScript[4] = "import" /\ ProbeScript[5] = "search" /\ ProbeScript[6] = "read"
    /\ ProbeScript[7] = "links" /\ ProbeScript[8] = "reread" /\ ProbeScript[9] = "baseline"
    /\ ProbeScript[10] = "tabs" /\ ProbeScript[11] = "edit" /\ ProbeScript[12] = "export"
    /\ ProbeScript[13] = "comment" /\ ProbeScript[14] = "comment"
    /\ ProbeScript[15] = "list" /\ ProbeScript[16] = "compare"
    /\ ProbeScript[17] = "add tab" /\ ProbeScript[18] = "delete tab"
    /\ ProbeScript[19] = "before" /\ ProbeScript[20] = "ready" /\ ProbeScript[21] = "move"
    /\ ProbeScript[22] = "final"
BY DEF ProbeScript

\* It has 22 requests.
LEMMA ScriptLength == Len(ProbeScript) = 22
BY DEF ProbeScript

\* A request that the proofs speak of is at one place of it.
LEMMA ScriptPlaces ==
    ASSUME NEW i \in 1..22
    PROVE  /\ ProbeScript[i] = "root" <=> i = 1
           /\ ProbeScript[i] = "import" <=> i = 4
           /\ ProbeScript[i] = "search" <=> i = 5
           /\ ProbeScript[i] = "read" <=> i = 6
           /\ ProbeScript[i] = "links" <=> i = 7
           /\ ProbeScript[i] = "tabs" <=> i = 10
           /\ ProbeScript[i] = "ready" <=> i = 20
           /\ ProbeScript[i] = "move" <=> i = 21
           /\ ProbeScript[i] = "edit" <=> i = 11
           /\ ProbeScript[i] # "trash"
<1>1. i \in {1, 2, 3, 4, 5, 6, 7, 8, 9, 10, 11}
      \/ i \in {12, 13, 14, 15, 16, 17, 18, 19, 20, 21, 22}
  OBVIOUS
<1>2. CASE i \in {1, 2, 3, 4, 5, 6, 7, 8, 9, 10, 11}
  BY <1>2, ScriptAt, ZenonT(40)
<1>3. CASE i \in {12, 13, 14, 15, 16, 17, 18, 19, 20, 21, 22}
  BY <1>3, ScriptAt, ZenonT(40)
<1>4. QED BY <1>1, <1>2, <1>3

\* The place of the request that is asked.
LEMMA AskedPlaces ==
    ASSUME Running
    PROVE  /\ probe.at \in 1..22
           /\ Asked = "root" <=> probe.at = 1
           /\ Asked = "import" <=> probe.at = 4
           /\ Asked = "search" <=> probe.at = 5
           /\ Asked = "read" <=> probe.at = 6
           /\ Asked = "links" <=> probe.at = 7
           /\ Asked = "tabs" <=> probe.at = 10
           /\ Asked = "ready" <=> probe.at = 20
           /\ Asked = "move" <=> probe.at = 21
           /\ Asked = "edit" <=> probe.at = 11
           /\ Asked # "trash" /\ Asked \in Requests
<1>1. PICK i \in 1..22 : i = probe.at
  BY ScriptLength DEF Running
<1>2. Asked = ProbeScript[i]
  BY <1>1 DEF Asked
<1>3. Asked \in Requests
  BY <1>2 DEF Requests
<1>4. QED BY <1>1, <1>2, <1>3, ScriptPlaces

\* What a request leaves of the document.
LEMMA EffectsOf ==
    ASSUME ProbeTypes, Running, NEW n \in AskedEffects
    PROVE  /\ n \in Notes
           /\ (note.link = "final" /\ probe.at > 7) \/ probe.at = 7 => n.link = "final"
           /\ (note.status = "ready" /\ probe.at > 20) \/ probe.at = 20 =>
                 n.status = "ready"
           /\ (note.parent = "review" /\ probe.at > 21) \/ probe.at = 21 =>
                 n.parent = "review"
<1>1. note \in Notes
  BY DEF ProbeTypes
<1>2. CASE Asked = "import"
  <2>1. n = Imported("placeholder") \/ n = Imported("none")
    BY <1>2 DEF AskedEffects
  <2>2. Imported("placeholder") \in Notes /\ Imported("none") \in Notes
    <3>1. NoNote \in Notes /\ "pending" \in NoteStates /\ "staging" \in NoteParents
      BY DEF Notes, NoNote, NoteLinks, NoteStates, NoteParents
    <3>2. ASSUME NEW link \in NoteLinks PROVE Imported(link) \in Notes
      <4>1. PICK one \in Int, state \in NoteStates, parent \in NoteParents :
               one = 1 /\ state = "pending" /\ parent = "staging"
        BY <3>1
      <4>2. Imported(link) = [NoNote EXCEPT !.rev = one, !.link = link, !.tabs = one,
                                 !.status = state, !.parent = parent]
        BY <4>1 DEF Imported
      <4>3. QED BY <3>1, <4>2 DEF Notes
    <3>3. QED BY <3>2 DEF NoteLinks
  <2>3. probe.at = 4
    BY <1>2, AskedPlaces
  <2>4. QED BY <2>1, <2>2, <2>3
<1>3. CASE Asked # "import"
  <2>1. n = [note EXCEPT
                !.link = IF Asked = "links" THEN "final" ELSE @,
                !.marker = @ \/ Asked = "edit",
                !.comments = IF Asked = "comment" THEN @ + 1 ELSE @,
                !.tabs = IF Asked = "add tab" THEN @ + 1
                         ELSE IF Asked = "delete tab" THEN @ - 1 ELSE @,
                !.status = IF Asked = "ready" THEN "ready" ELSE @,
                !.parent = IF Asked = "move" THEN "review" ELSE @,
                !.rev = IF Asked \in {"links", "edit", "add tab", "delete tab"}
                        THEN @ + 1 ELSE @]
    BY <1>3 DEF AskedEffects
  <2>2. n \in Notes
    <3>a. /\ {note.rev, note.rev + 1, note.tabs, note.tabs + 1, note.tabs - 1} \subseteq Int
          /\ {note.comments, note.comments + 1} \subseteq Int
      BY <1>1 DEF Notes
    <3>1. PICK link \in NoteLinks : link = IF Asked = "links" THEN "final" ELSE note.link
      BY <1>1 DEF Notes, NoteLinks
    <3>2. PICK marker \in BOOLEAN : marker = (note.marker \/ Asked = "edit")
      OBVIOUS
    <3>3. PICK comments \in Int :
             comments = IF Asked = "comment" THEN note.comments + 1 ELSE note.comments
      BY <3>a
    <3>4. PICK tabs \in Int :
             tabs = IF Asked = "add tab" THEN note.tabs + 1
                    ELSE IF Asked = "delete tab" THEN note.tabs - 1 ELSE note.tabs
      BY <3>a
    <3>5. PICK status \in NoteStates :
             status = IF Asked = "ready" THEN "ready" ELSE note.status
      BY <1>1 DEF Notes, NoteStates
    <3>6. PICK parent \in NoteParents :
             parent = IF Asked = "move" THEN "review" ELSE note.parent
      BY <1>1 DEF Notes, NoteParents
    <3>7. PICK rev \in Int :
             rev = IF Asked \in {"links", "edit", "add tab", "delete tab"}
                   THEN note.rev + 1 ELSE note.rev
      BY <3>a
    <3>8. n = [note EXCEPT !.link = link, !.marker = marker, !.comments = comments,
                           !.tabs = tabs, !.status = status, !.parent = parent, !.rev = rev]
      BY <2>1, <3>1, <3>2, <3>3, <3>4, <3>5, <3>6, <3>7
    <3>9. QED BY <1>1, <3>8 DEF Notes
  <2>3. /\ n.link = IF Asked = "links" THEN "final" ELSE note.link
        /\ n.status = IF Asked = "ready" THEN "ready" ELSE note.status
        /\ n.parent = IF Asked = "move" THEN "review" ELSE note.parent
    BY <1>1, <2>1 DEF Notes
  <2>4. QED BY <2>2, <2>3, AskedPlaces
<1>4. QED BY <1>2, <1>3

\* Where the script stops by itself, or is stopped, the cleanup follows.
LEMMA StoppedKeeps ==
    ASSUME ProbeInv, Running, NEW failed \in SUBSET Requests,
           probe' = [Stopped(probe) EXCEPT !.failed = failed],
           probe.failed \subseteq failed, probe.at > 1 \/ "root" \in failed,
           note' \in Notes, UNCHANGED trash
    PROVE  ProbeInv'
<1>1. probe \in Probes /\ probe.at \in 1..22
  BY AskedPlaces DEF ProbeInv, ProbeTypes
<1>2. probe' = [probe EXCEPT !.at = 23, !.refused = TRUE, !.failed = failed]
  BY <1>1, ScriptLength DEF Stopped, Probes
<1>3. probe' \in Probes
  <2>1. 23 \in 0..24
    OBVIOUS
  <2>2. QED BY <1>1, <1>2, <2>1 DEF Probes
<1>4. /\ probe'.at = 23 /\ probe'.refused /\ probe'.failed = failed
      /\ probe'.known = probe.known /\ probe'.ended = probe.ended
      /\ probe'.cleaned = probe.cleaned
  BY <1>1, <1>2 DEF Probes
<1>5. ~probe.ended /\ ~probe.cleaned
  BY <1>1 DEF ProbeInv, CleanupLast
<1>6. RootAsked'
  BY <1>4 DEF ProbeInv, RootAsked
<1>7. QED BY <1>3, <1>4, <1>5, <1>6
          DEF ProbeInv, ProbeTypes, ScriptDone, CleanupLast, ProbeLeavesNothing

\* An answer brings the script to its next request.
LEMMA AnsweredKeeps ==
    ASSUME ProbeInv, Running, probe' = Answered, note' \in AskedEffects, UNCHANGED trash
    PROVE  ProbeInv'
<1>1. probe \in Probes /\ probe.at \in 1..22 /\ note \in Notes
  BY AskedPlaces DEF ProbeInv, ProbeTypes
<1>2. PICK known \in SUBSET ProbeRoles : known = probe.known \cup AskedCreates
  BY <1>1 DEF Probes, AskedCreates, ProbeRoles
<1>3. PICK checks \in BOOLEAN : checks = (probe.checks /\ Observed)
  OBVIOUS
<1>4. PICK rev \in Int : rev = IF Asked \in {"read", "tabs"} THEN note.rev ELSE probe.rev
  BY <1>1 DEF Probes, Notes
<1>5. PICK text \in Int : text = IF Asked = "export" THEN note.text ELSE probe.text
  BY <1>1 DEF Probes, Notes
<1>6. probe' = [probe EXCEPT !.at = probe.at + 1, !.known = known, !.checks = checks,
                             !.rev = rev, !.text = text]
  BY <1>1, <1>2, <1>3, <1>4, <1>5 DEF Answered, Probes
<1>7. probe' \in Probes
  <2>1. probe.at + 1 \in 0..24
    BY <1>1
  <2>2. PICK at \in 0..24 : at = probe.at + 1
    BY <2>1
  <2>3. QED BY <1>1, <1>6, <2>2 DEF Probes
<1>8. /\ probe'.at = probe.at + 1 /\ probe'.refused = probe.refused
      /\ probe'.failed = probe.failed /\ probe'.known = known /\ probe'.checks = checks
      /\ probe'.ended = probe.ended /\ probe'.cleaned = probe.cleaned
  BY <1>1, <1>6 DEF Probes
<1>9. ~probe.ended /\ ~probe.cleaned
  BY <1>1 DEF ProbeInv, CleanupLast
<1>10. "root" \in known \/ (probe.at > 1 /\ "root" \notin probe.known)
  BY <1>1, <1>2, AskedPlaces DEF AskedCreates
<1>11. probe.known \subseteq known
  BY <1>2
<1>12. checks => probe.checks /\ (probe.at = 5 => probe.known = ProbeRoles)
  BY <1>3, AskedPlaces DEF Observed
<1>13. ScriptDone'
  <2>1. SUFFICES ASSUME ~probe.refused
                 PROVE  /\ "root" \in known
                        /\ probe.at + 1 > 5 /\ checks => known = ProbeRoles
                        /\ probe.at + 1 > 7 => note'.link = "final"
                        /\ probe.at + 1 > 20 => note'.status = "ready"
                        /\ probe.at + 1 > 21 => note'.parent = "review"
    BY <1>1, <1>8 DEF ScriptDone
  <2>2. "root" \in known
    BY <1>10, <2>1 DEF ProbeInv, ScriptDone
  <2>3. probe.at + 1 > 5 /\ checks => known = ProbeRoles
    BY <1>1, <1>11, <1>12, <2>1 DEF ProbeInv, ScriptDone
  <2>4. PICK n \in AskedEffects : n = note'
    OBVIOUS
  <2>5. /\ probe.at + 1 > 7 => n.link = "final"
        /\ probe.at + 1 > 20 => n.status = "ready"
        /\ probe.at + 1 > 21 => n.parent = "review"
    BY <1>1, <2>1, EffectsOf DEF ProbeInv, ScriptDone
  <2>6. QED BY <2>2, <2>3, <2>4, <2>5
<1>14. RootAsked'
  BY <1>8, <1>10, <1>11 DEF ProbeInv, RootAsked
<1>15. note' \in Notes
  <2>1. PICK n \in AskedEffects : n = note'
    OBVIOUS
  <2>2. QED BY <2>1, EffectsOf DEF ProbeInv
<1>16. QED BY <1>1, <1>7, <1>8, <1>9, <1>13, <1>14, <1>15
          DEF ProbeInv, ProbeTypes, CleanupLast, ProbeLeavesNothing

\* The script refuses nothing before its root folder is there.
LEMMA RefusedLater ==
    ASSUME Running, Outdated \/ Unusable
    PROVE  probe.at > 1
BY AskedPlaces DEF Outdated, Unusable

\* The deferred cleanup.
LEMMA CleanUpKeeps ==
    ASSUME ProbeInv, CleanUp
    PROVE  ProbeInv'
<1>1. /\ probe \in Probes /\ ~probe.ended /\ ~probe.cleaned /\ trash \subseteq {"root"}
      /\ probe.at >= 23 /\ (probe.at = 23 => probe.refused) /\ UNCHANGED note
  <2>1. probe \in Probes /\ trash \subseteq {"root"} /\ UNCHANGED note
    BY DEF ProbeInv, ProbeTypes, ProbeLeavesNothing, CleanUp
  <2>2. ~probe.ended /\ probe.at \in 0..24
    BY <2>1 DEF CleanUp, Deferred, Probes
  <2>3. ~probe.cleaned
    BY <2>2 DEF ProbeInv, CleanupLast
  <2>4. probe.at = 24 \/ (probe.at = 23 /\ probe.refused)
    BY <2>2, ScriptLength DEF CleanUp, Deferred, AtCleanup
  <2>5. QED BY <2>1, <2>2, <2>3, <2>4
<1>2. CASE ~MustClean /\ probe' = [probe EXCEPT !.ended = TRUE] /\ UNCHANGED trash
  <2>1. probe' \in Probes
    BY <1>1, <1>2 DEF Probes
  <2>2. /\ probe'.at = probe.at /\ probe'.refused = probe.refused
        /\ probe'.failed = probe.failed /\ probe'.known = probe.known
        /\ probe'.checks = probe.checks /\ probe'.keep = probe.keep
        /\ probe'.ended = TRUE /\ probe'.cleaned = probe.cleaned
    BY <1>1, <1>2 DEF Probes
  <2>3. ScriptDone' /\ RootAsked' /\ CleanupLast'
    BY <1>1, <2>2 DEF ProbeInv, ScriptDone, RootAsked, CleanupLast
  <2>4. ProbeLeavesNothing'
    <3>1. probe.at > 1 /\ probe.at \in Int /\ probe.keep \in BOOLEAN
      BY <1>1 DEF Probes
    <3>2. ~probe.keep => "root" \in probe.failed
      BY <1>2, <3>1 DEF MustClean, ProbeInv, RootAsked
    <3>3. ~probe.refused =>
             /\ probe.known = ProbeRoles /\ probe.keep
             /\ note.status = "ready" /\ note.parent = "review" /\ note.link = "final"
      BY <1>1, <1>2, <3>1 DEF MustClean, ProbeInv, ScriptDone, Probes
    <3>4. trash' = trash /\ note' = note
      BY <1>1, <1>2
    <3>5. probe'.ended /\ ~probe'.refused =>
             /\ probe'.known = ProbeRoles /\ probe'.cleaned = ~probe'.keep
      <4>1. probe.cleaned = FALSE
        BY <1>1 DEF Probes
      <4>2. ~probe.refused => probe.keep = TRUE
        BY <3>1, <3>3
      <4>3. QED BY <2>2, <3>3, <4>1, <4>2
    <3>6. QED BY <1>1, <2>2, <3>2, <3>3, <3>4, <3>5 DEF ProbeLeavesNothing
  <2>5. QED BY <1>1, <2>1, <2>3, <2>4 DEF ProbeInv, ProbeTypes
<1>3. CASE /\ MustClean /\ probe' = [probe EXCEPT !.ended = TRUE, !.cleaned = TRUE]
           /\ trash' = trash \cup {"root"}
  <2>1. probe' \in Probes
    BY <1>1, <1>3 DEF Probes
  <2>2. /\ probe'.at = probe.at /\ probe'.refused = probe.refused
        /\ probe'.failed = probe.failed /\ probe'.known = probe.known
        /\ probe'.checks = probe.checks /\ probe'.keep = probe.keep
        /\ probe'.ended = TRUE /\ probe'.cleaned = TRUE
    BY <1>1, <1>3 DEF Probes
  <2>3. ScriptDone' /\ RootAsked' /\ CleanupLast'
    BY <1>1, <2>2 DEF ProbeInv, ScriptDone, RootAsked, CleanupLast
  <2>4. ~probe.refused =>
           /\ probe.known = ProbeRoles /\ ~probe.keep
           /\ note.status = "ready" /\ note.parent = "review" /\ note.link = "final"
    BY <1>1, <1>3 DEF MustClean, ProbeInv, ScriptDone, Probes
  <2>5. ProbeLeavesNothing'
    BY <1>1, <1>3, <2>2, <2>4 DEF ProbeLeavesNothing, MustClean
  <2>6. QED BY <1>1, <2>1, <2>3, <2>5 DEF ProbeInv, ProbeTypes
<1>4. CASE /\ probe' = [probe EXCEPT !.ended = TRUE, !.refused = TRUE,
                                     !.failed = probe.failed \cup {"trash"}]
           /\ trash' \in {trash, trash \cup {"root"}}
  <2>1. probe' \in Probes
    BY <1>1, <1>4 DEF Probes, Requests
  <2>2. /\ probe'.at = probe.at /\ probe'.refused = TRUE
        /\ probe'.failed = probe.failed \cup {"trash"} /\ probe'.known = probe.known
        /\ probe'.ended = TRUE
    BY <1>1, <1>4 DEF Probes
  <2>3. ScriptDone' /\ RootAsked' /\ CleanupLast' /\ ProbeLeavesNothing'
    BY <1>1, <1>4, <2>2 DEF ProbeInv, ScriptDone, RootAsked, CleanupLast,
                            ProbeLeavesNothing
  <2>4. QED BY <1>1, <2>1, <2>3 DEF ProbeInv, ProbeTypes
<1>5. QED BY <1>2, <1>3, <1>4 DEF CleanUp

\* A probe that begins, and one that is killed, has nothing behind it.
LEMMA NewProbeKeeps ==
    ASSUME note' \in Notes, trash' \subseteq {"root"},
           probe' \in Probes, probe'.at \in {0, 1}, ~probe'.ended, ~probe'.cleaned
    PROVE  ProbeInv'
BY DEF ProbeInv, ProbeTypes, ScriptDone, RootAsked, CleanupLast, ProbeLeavesNothing

\* The owner of the Drive changes no more of a document than the script can bear.
LEMMA EditNoteKeeps ==
    ASSUME ProbeInv, EditNote
    PROVE  ProbeInv'
<1>1. note \in Notes /\ UNCHANGED <<probe, trash>>
  BY DEF ProbeInv, ProbeTypes, EditNote
<1>2. /\ note' \in Notes /\ note'.link = note.link /\ note'.status = note.status
      /\ note'.parent = note.parent
  <2>1. CASE note' = [note EXCEPT !.rev = @ + 1, !.text = @ + 1, !.marker = FALSE]
    <3>1. PICK rev, text \in Int : rev = note.rev + 1 /\ text = note.text + 1
      BY <1>1 DEF Notes
    <3>2. note' = [note EXCEPT !.rev = rev, !.text = text, !.marker = FALSE]
      BY <2>1, <3>1
    <3>3. QED BY <1>1, <3>2 DEF Notes
  <2>2. CASE note' = [note EXCEPT !.rev = @ + 1, !.tabs = @ + 1]
    <3>1. PICK rev, tabs \in Int : rev = note.rev + 1 /\ tabs = note.tabs + 1
      BY <1>1 DEF Notes
    <3>2. note' = [note EXCEPT !.rev = rev, !.tabs = tabs]
      BY <2>2, <3>1
    <3>3. QED BY <1>1, <3>2 DEF Notes
  <2>3. CASE note' = [note EXCEPT !.comments = @ - 1]
    BY <1>1, <2>3 DEF Notes
  <2>4. QED BY <2>1, <2>2, <2>3 DEF EditNote
<1>3. QED BY <1>1, <1>2 DEF ProbeInv, ProbeTypes, ScriptDone, RootAsked, CleanupLast,
                            ProbeLeavesNothing

\* Every step of a probe, of a cleanup and of the owner keeps the invariant.
LEMMA ProbeStepKeepsInv ==
    ASSUME ProbeInv, [ProbeNext]_probeVars
    PROVE  ProbeInv'
<1>1. note \in Notes /\ trash \subseteq {"root"} /\ probe \in Probes
  BY DEF ProbeInv, ProbeTypes, ProbeLeavesNothing
<1>2. ASSUME NEW keep \in BOOLEAN, StartProbe(keep) PROVE ProbeInv'
  <2>1. NoRun \in Probes /\ 1 \in 0..24
    BY DEF NoRun, Probes
  <2>2. probe' \in Probes
    BY <1>2, <2>1 DEF StartProbe, Probes
  <2>3. probe'.at = 1 /\ ~probe'.ended /\ ~probe'.cleaned
    BY <1>2 DEF StartProbe, NoRun
  <2>4. QED BY <1>1, <1>2, <2>2, <2>3, NewProbeKeeps DEF StartProbe
<1>3. CASE Perform
  <2>1. CASE Unusable
    <3>1. PICK n \in AskedEffects : n = note'
      BY <1>3 DEF Perform
    <3>2. note' \in Notes
      BY <1>3, <3>1, EffectsOf DEF Perform, ProbeInv
    <3>3. /\ probe' = [Stopped(probe) EXCEPT !.failed = probe.failed]
          /\ probe.failed \in SUBSET Requests
      BY <1>1, <1>3, <2>1 DEF Perform, Stopped, Probes
    <3>4. PICK failed \in SUBSET Requests : failed = probe.failed
      BY <3>3
    <3>5. QED BY <1>3, <2>1, <3>2, <3>3, <3>4, RefusedLater, StoppedKeeps DEF Perform
  <2>2. CASE ~Unusable
    BY <1>3, <2>2, AnsweredKeeps DEF Perform
  <2>3. QED BY <2>1, <2>2
<1>4. CASE RefuseOutdated
  <2>1. /\ probe' = [Stopped(probe) EXCEPT !.failed = probe.failed]
        /\ probe.failed \in SUBSET Requests
    BY <1>1, <1>4 DEF RefuseOutdated, Stopped, Probes
  <2>2. PICK failed \in SUBSET Requests : failed = probe.failed
    BY <2>1
  <2>3. QED BY <1>1, <1>4, <2>1, <2>2, RefusedLater, StoppedKeeps DEF RefuseOutdated
<1>5. CASE ProbeFails
  <2>1. PICK failed : failed = probe.failed \cup {Asked}
    OBVIOUS
  <2>2. failed \in SUBSET Requests
    BY <1>1, <1>5, <2>1, AskedPlaces DEF Probes, ProbeFails
  <2>3. note' \in Notes
    <3>1. CASE note' \in AskedEffects
      <4>1. PICK n \in AskedEffects : n = note'
        BY <3>1
      <4>2. QED BY <1>5, <4>1, EffectsOf DEF ProbeFails, ProbeInv
    <3>2. QED BY <1>1, <1>5, <3>1 DEF ProbeFails
  <2>4. probe' = [Stopped(probe) EXCEPT !.failed = failed]
    BY <1>1, <1>5, <2>1 DEF ProbeFails, Stopped, Probes
  <2>5. probe.at > 1 \/ "root" \in failed
    BY <1>5, <2>1, AskedPlaces DEF ProbeFails
  <2>6. QED BY <1>5, <2>1, <2>2, <2>3, <2>4, <2>5, StoppedKeeps DEF ProbeFails
<1>6. CASE Validate
  <2>1. PICK refused \in BOOLEAN :
           /\ probe' = [probe EXCEPT !.at = @ + 1, !.refused = refused]
           /\ ~refused => probe.checks
    BY <1>6 DEF Validate
  <2>2. probe.at = 23 /\ ~probe.ended /\ ~probe.refused /\ UNCHANGED <<note, trash>>
    BY <1>6, ScriptLength DEF Validate, AtCleanup
  <2>3. probe' \in Probes
    <3>1. probe.at + 1 = 24 /\ 24 \in 0..24
      BY <2>2
    <3>2. probe' = [probe EXCEPT !.at = 24, !.refused = refused]
      BY <2>1, <3>1
    <3>3. QED BY <1>1, <3>1, <3>2 DEF Probes
  <2>4. /\ probe'.at = 24 /\ probe'.refused = refused /\ probe'.failed = probe.failed
        /\ probe'.known = probe.known /\ probe'.checks = probe.checks
        /\ probe'.ended = probe.ended /\ probe'.cleaned = probe.cleaned
    BY <1>1, <2>1, <2>2 DEF Probes
  <2>5. ScriptDone' /\ RootAsked' /\ CleanupLast' /\ ProbeLeavesNothing'
    BY <1>1, <2>1, <2>2, <2>4 DEF ProbeInv, ScriptDone, RootAsked, CleanupLast,
                                  ProbeLeavesNothing
  <2>6. QED BY <1>1, <2>2, <2>3, <2>5 DEF ProbeInv, ProbeTypes
<1>7. CASE CleanUp
  BY <1>7, CleanUpKeeps
<1>8. CASE KillProbe
  <2>1. probe' \in Probes /\ probe'.at = 0 /\ ~probe'.ended /\ ~probe'.cleaned
    BY <1>8 DEF KillProbe, NoRun, Probes
  <2>2. QED BY <1>1, <1>8, <2>1, NewProbeKeeps DEF KillProbe
<1>9. ASSUME NEW f \in ProbeFolders, CleanupFolder(f) PROVE ProbeInv'
  <2>1. f = "root"
    BY <1>9 DEF CleanupFolder, ProbeRoot, RoleProperty, ProbeFolders
  <2>2. UNCHANGED <<probe, note>> /\ trash' = trash \cup {"root"}
    BY <1>9, <2>1 DEF CleanupFolder
  <2>3. QED BY <1>1, <2>2 DEF ProbeInv, ProbeTypes, ScriptDone, RootAsked, CleanupLast,
                              ProbeLeavesNothing
<1>10. CASE EditNote
  BY <1>10, EditNoteKeeps
<1>11. ASSUME UNCHANGED <<probe, note, trash>> PROVE ProbeInv'
  BY <1>11 DEF ProbeInv, ProbeTypes, ScriptDone, RootAsked, CleanupLast,
               ProbeLeavesNothing
<1>12. CASE RenameRoot
  BY <1>11, <1>12 DEF RenameRoot
<1>13. CASE UNCHANGED probeVars
  BY <1>11, <1>13 DEF probeVars
<1>14. QED
  BY <1>2, <1>3, <1>4, <1>5, <1>6, <1>7, <1>8, <1>9, <1>10, <1>12, <1>13 DEF ProbeNext

\* Whatever the owner changes meanwhile and wherever Google fails or the
\* command is killed, a probe that ends leaves what it made in the trash, and
\* prints a result only of a document that came to the end of the script.
THEOREM ProbeLeavesNothingHolds == ProbeSpec => []ProbeLeavesNothing
<1>1. ProbeInit => ProbeInv
  <2>1. SUFFICES ASSUME ProbeInit PROVE ProbeInv
    OBVIOUS
  <2>2. probe \in Probes /\ note \in Notes
    <3>1. NoRun \in Probes
      BY DEF NoRun, Probes
    <3>2. NoNote \in Notes
      BY DEF NoNote, Notes, NoteLinks, NoteStates, NoteParents
    <3>3. QED BY <2>1, <3>1, <3>2 DEF ProbeInit
  <2>3. probe.at = 0 /\ ~probe.ended /\ ~probe.cleaned /\ trash = {}
    <3>1. NoRun.at = 0 /\ ~NoRun.ended /\ ~NoRun.cleaned
      BY DEF NoRun
    <3>2. QED BY <2>1, <3>1 DEF ProbeInit
  <2>4. QED BY <2>2, <2>3 DEF ProbeInv, ProbeTypes, ScriptDone, RootAsked, CleanupLast,
                              ProbeLeavesNothing
<1>2. ProbeInv /\ [ProbeNext]_probeVars => ProbeInv'
  BY ProbeStepKeepsInv
<1>3. ProbeInv => ProbeLeavesNothing
  BY DEF ProbeInv
<1>4. QED BY <1>1, <1>2, <1>3, PTL DEF ProbeSpec

-----------------------------------------------------------------------------
(* Status and pull: the inductive invariant *)

PullSteps == {"none", "local", "file", "find", "reference", "read", "propose", "check",
              "write"}
Pulls == [step : PullSteps, external : BOOLEAN, local : BOOLEAN, partial : BOOLEAN,
          overwrite : BOOLEAN, members : {"kept", "removed"}, read : Surroundings]

PullTypes == around \in Surroundings /\ pull \in Pulls

\* A review that was read without a name or an export given for it.
ReadFromReview ==
    pull.step \in {"propose", "check", "write"} /\ ~pull.external =>
        /\ pull.read.file = "there" /\ pull.read.place = "review"
        /\ pull.read.metadata = "ready" /\ ~pull.read.suggested

\* A patch that is about to be written leaves no edit out, if it is not partial.
PatchOfAllEdits ==
    pull.step \in {"check", "write"} /\ ~pull.partial => pull.read.edits = {"clean"}

PullInv ==
    /\ PullTypes /\ (pull.local => pull.external)
    /\ ReadFromReview /\ PatchOfAllEdits

\* Whatever surrounds a pull that status calls ready, the checks of the pull
\* refuse it for what status has no check for, and for nothing else.
LEMMA StatusCovers ==
    ASSUME around \in Surroundings
    PROVE  StatusCoversPull
<1>1. SUFFICES ASSUME RemoteStatus(around) = "pull_ready"
               PROVE  Refusal(around) = "none" <=> ~NotInStatus(around)
  BY DEF StatusCoversPull
<1>2. /\ LocalStatus(around) = "baseline_available"
      /\ around.pandoc => around.sources = "valid"
      /\ around.account = "stored" /\ ~StatusBlocked(around) /\ ~Changed(around)
  BY <1>1 DEF RemoteStatus, LocalStatus, Surroundings
<1>3. /\ around.enabled /\ around.state = "valid" /\ around.active = "referenced"
      /\ around.baseline = "sealed"
  BY <1>2 DEF LocalStatus, Surroundings
<1>4. /\ TargetMatches(around) /\ "own" \notin around.copies /\ ~around.suggested
      /\ around.tabs = "captured"
  BY <1>2 DEF StatusBlocked, RemoteErrors, Changed, TargetMatches, Surroundings
<1>5. LocalRefusal(around) = "none" <=> around.operation = "none" /\ around.pandoc
  BY <1>2, <1>3 DEF LocalRefusal, Surroundings, Operations
<1>6. Preflight(around) = "none" <=> "other" \notin around.copies
  <2>1. around.copies = {} <=> "other" \notin around.copies
    BY <1>4 DEF Surroundings, CopySets
  <2>2. QED BY <2>1 DEF Preflight
<1>7. ReadRefusal(around, FALSE) = "none"
  BY <1>4 DEF ReadRefusal, TargetMatches
<1>8. around.pandoc =>
         (SourcesRefusal(around.members, around.sources) = "none"
            <=> around.members # "removed")
  BY <1>2 DEF SourcesRefusal
<1>9. CASE LocalRefusal(around) = "none"
  BY <1>3, <1>4, <1>5, <1>6, <1>7, <1>8, <1>9 DEF Refusal, NotInStatus
<1>10. CASE LocalRefusal(around) # "none"
  BY <1>5, <1>10 DEF Refusal, NotInStatus
<1>11. QED BY <1>9, <1>10

\* A pull that is over has no review.
LEMMA NoPullTyped ==
    /\ Regular \in Surroundings /\ NoPull \in Pulls /\ NoPull.step = "none"
    /\ ~NoPull.local
<1>1. Regular \in Surroundings
  BY DEF Regular, Surroundings, Operations, SourceStates
<1>2. QED BY <1>1 DEF NoPull, Pulls, PullSteps

LEMMA EndKeepsPull ==
    ASSUME PullInv, pull' = NoPull, around' \in Surroundings
    PROVE  PullInv'
BY NoPullTyped DEF PullInv, PullTypes, ReadFromReview, PatchOfAllEdits

\* A check of a pull brings it to its next step, or ends it.
LEMMA CheckKeepsPull ==
    ASSUME PullInv, NEW refusal, NEW next \in PullSteps, Proceed(refusal, next),
           next \in {"propose", "check", "write"} => pull.step \in {"check"}
    PROVE  PullInv'
<1>1. pull \in Pulls /\ around' = around /\ around \in Surroundings
  BY DEF PullInv, PullTypes, Proceed, PullStep, EndPull
<1>2. CASE refusal = "none"
  <2>1. pull' = [pull EXCEPT !.step = next]
    BY <1>2 DEF Proceed, PullStep
  <2>2. /\ pull' \in Pulls /\ pull'.step = next /\ pull'.external = pull.external
        /\ pull'.local = pull.local /\ pull'.partial = pull.partial
        /\ pull'.read = pull.read
    BY <1>1, <2>1 DEF Pulls
  <2>3. QED BY <1>1, <2>2 DEF PullInv, PullTypes, ReadFromReview, PatchOfAllEdits
<1>3. CASE refusal # "none"
  BY <1>1, <1>3, EndKeepsPull DEF Proceed, EndPull
<1>4. QED BY <1>2, <1>3

\* The members of the publication are those it has now.
LEMMA LocalKeepsPull ==
    ASSUME PullInv, CheckLocal
    PROVE  PullInv'
<1>1. pull \in Pulls /\ around \in Surroundings /\ around' = around
  BY DEF PullInv, PullTypes, CheckLocal, EndPull
<1>2. CASE pull' = NoPull
  BY <1>1, <1>2, EndKeepsPull
<1>3. CASE pull' # NoPull
  <2>1. PICK next \in {"reference", "file"} :
           pull' = [pull EXCEPT !.step = next, !.members = around.members]
    BY <1>3 DEF CheckLocal, EndPull
  <2>2. /\ pull' \in Pulls /\ pull'.step = next /\ pull'.external = pull.external
        /\ pull'.local = pull.local
    BY <1>1, <2>1 DEF Pulls, PullSteps, Surroundings
  <2>3. QED BY <1>1, <2>1, <2>2 DEF PullInv, PullTypes, ReadFromReview, PatchOfAllEdits
<1>4. QED BY <1>2, <1>3

\* The review is read as it is at that moment, and is the one of the state.
LEMMA ReadKeepsPull ==
    ASSUME PullInv, ReadReview
    PROVE  PullInv'
<1>1. pull \in Pulls /\ around \in Surroundings /\ around' = around
  BY DEF PullInv, PullTypes, ReadReview, EndPull
<1>2. PICK refusal : refusal = IF pull.local THEN "none"
                               ELSE ReadRefusal(around, pull.external)
  OBVIOUS
<1>3. CASE refusal # "none"
  BY <1>1, <1>2, <1>3, EndKeepsPull DEF ReadReview, EndPull
<1>4. CASE refusal = "none"
  <2>1. pull' = [pull EXCEPT !.step = "propose", !.read = around]
    BY <1>2, <1>4 DEF ReadReview
  <2>2. /\ pull' \in Pulls /\ pull'.step = "propose" /\ pull'.external = pull.external
        /\ pull'.local = pull.local /\ pull'.read = around
    BY <1>1, <2>1 DEF Pulls, PullSteps
  <2>3. ~pull.external =>
           /\ around.file = "there" /\ around.place = "review"
           /\ around.metadata = "ready" /\ ~around.suggested
    BY <1>2, <1>4 DEF PullInv, ReadRefusal, TargetMatches
  <2>4. QED BY <1>1, <2>2, <2>3 DEF PullInv, PullTypes, ReadFromReview, PatchOfAllEdits
<1>5. QED BY <1>3, <1>4

\* A patch that is not partial is made of a review whose edits can all be taken.
LEMMA ProposeKeepsPull ==
    ASSUME PullInv, Propose
    PROVE  PullInv'
<1>1. pull \in Pulls /\ around \in Surroundings /\ around' = around /\ pull.step = "propose"
  BY DEF PullInv, PullTypes, Propose, EndPull
<1>2. CASE pull' = NoPull
  BY <1>1, <1>2, EndKeepsPull
<1>3. CASE pull' # NoPull
  <2>1. /\ pull' = [pull EXCEPT !.step = "check"] /\ "clean" \in pull.read.edits
        /\ ResultCode(pull.read.edits, around.diverged) \in BlockedResult => pull.partial
    BY <1>3 DEF Propose, EndPull
  <2>2. /\ pull' \in Pulls /\ pull'.step = "check" /\ pull'.external = pull.external
        /\ pull'.local = pull.local /\ pull'.partial = pull.partial
        /\ pull'.read = pull.read
    BY <1>1, <2>1 DEF Pulls, PullSteps
  <2>3. pull.read.edits \subseteq {"clean", "unsupported", "conflict"}
    BY <1>1 DEF Pulls, Surroundings, Classes
  <2>4. ~pull.partial => pull.read.edits = {"clean"}
    BY <2>1, <2>3 DEF ResultCode, BlockedResult
  <2>5. QED BY <1>1, <2>2, <2>4 DEF PullInv, PullTypes, ReadFromReview, PatchOfAllEdits
<1>4. QED BY <1>2, <1>3

\* What surrounds a pull changes to something that can surround it.
LEMMA SurroundKeepsPull ==
    ASSUME PullInv, ChangeProject \/ ChangeRecords \/ ChangeRemote
    PROVE  PullInv'
<1>1. around \in Surroundings
  BY DEF PullInv, PullTypes
<1>2. CASE ChangeProject
  <2>1. around' \in Surroundings /\ pull' = pull
    BY <1>1, <1>2 DEF ChangeProject, Surround, Surroundings
  <2>2. QED BY <2>1 DEF PullInv, PullTypes, ReadFromReview, PatchOfAllEdits
<1>3. CASE ChangeRecords
  <2>1. around' \in Surroundings /\ pull' = pull
    BY <1>1, <1>3 DEF ChangeRecords, Surround, Surroundings
  <2>2. QED BY <2>1 DEF PullInv, PullTypes, ReadFromReview, PatchOfAllEdits
<1>4. CASE ChangeRemote
  <2>1. around' \in Surroundings /\ pull' = pull
    BY <1>1, <1>4 DEF ChangeRemote, Surround, Surroundings
  <2>2. QED BY <2>1 DEF PullInv, PullTypes, ReadFromReview, PatchOfAllEdits
<1>5. QED BY <1>2, <1>3, <1>4

\* Every step of a pull and of what surrounds it keeps the invariant.
LEMMA PullStepKeepsInv ==
    ASSUME PullInv, [PullNext]_pullVars
    PROVE  PullInv'
<1>1. pull \in Pulls /\ around \in Surroundings
  BY DEF PullInv, PullTypes
<1>2. CASE StartPull
  <2>1. PICK external, local, partial, overwrite \in BOOLEAN :
           /\ local \/ partial => external
           /\ pull' = [NoPull EXCEPT !.step = "local", !.external = external,
                         !.local = local, !.partial = partial, !.overwrite = overwrite]
    BY <1>2 DEF StartPull
  <2>2. /\ pull' \in Pulls /\ pull'.step = "local" /\ pull'.external = external
        /\ pull'.local = local
    BY <2>1, NoPullTyped DEF Pulls, PullSteps
  <2>3. QED BY <1>1, <1>2, <2>1, <2>2
            DEF StartPull, PullInv, PullTypes, ReadFromReview, PatchOfAllEdits
<1>3. CASE CheckLocal
  BY <1>3, LocalKeepsPull
<1>4. CASE CheckFile
  <2>1. PICK refusal :
           refusal = IF TargetMatches(around) THEN "none" ELSE "review_target_mismatch"
    OBVIOUS
  <2>2. QED BY <1>4, <2>1, CheckKeepsPull DEF CheckFile, PullSteps
<1>5. CASE CheckCopies
  <2>1. PICK refusal : refusal = Preflight(around)
    OBVIOUS
  <2>2. QED BY <1>5, <2>1, CheckKeepsPull DEF CheckCopies, PullSteps
<1>6. CASE CheckReference
  <2>1. PICK refusal : refusal = IF around.baseline = "foreign"
                                 THEN "review_snapshot_invalid" ELSE "none"
    OBVIOUS
  <2>2. QED BY <1>6, <2>1, CheckKeepsPull DEF CheckReference, PullSteps
<1>7. CASE ReadReview
  BY <1>7, ReadKeepsPull
<1>8. CASE Propose
  BY <1>8, ProposeKeepsPull
<1>9. CASE CheckOutput
  <2>1. CASE output = "source" \/ (output # "absent" /\ ~pull.overwrite)
    BY <1>1, <1>9, <2>1, EndKeepsPull DEF CheckOutput, EndPull
  <2>2. CASE ~(output = "source" \/ (output # "absent" /\ ~pull.overwrite))
    <3>1. Proceed("none", "write")
      BY <1>9, <2>2 DEF CheckOutput, Proceed
    <3>2. QED BY <1>9, <3>1, CheckKeepsPull DEF CheckOutput, PullSteps
  <2>3. QED BY <2>1, <2>2
<1>10. CASE WritePatch
  BY <1>1, <1>10, EndKeepsPull DEF WritePatch, EndPull
<1>11. CASE PullFails
  BY <1>1, <1>11, EndKeepsPull DEF PullFails, EndPull
<1>12. CASE ChangeProject \/ ChangeRecords \/ ChangeRemote
  BY <1>12, SurroundKeepsPull
<1>13. CASE ChangeOutput \/ UNCHANGED pullVars
  BY <1>13 DEF ChangeOutput, pullVars, PullInv, PullTypes, ReadFromReview, PatchOfAllEdits
<1>14. QED
  BY <1>2, <1>3, <1>4, <1>5, <1>6, <1>7, <1>8, <1>9, <1>10, <1>11, <1>12, <1>13
     DEF PullNext

\* A patch is placed as PatchFromReview asks.
LEMMA PatchIsOfReview ==
    ASSUME PullInv, [PullNext]_pullVars
    PROVE  output' = "patch" /\ output # "patch" =>
               /\ pull.overwrite \/ output = "absent"
               /\ ~pull.external =>
                     /\ pull.read.file = "there" /\ pull.read.place = "review"
                     /\ pull.read.metadata = "ready" /\ ~pull.read.suggested
               /\ ~pull.partial => pull.read.edits = {"clean"}
<1>1. SUFFICES ASSUME output' = "patch", output # "patch"
               PROVE  pull.step = "write" /\ Placed
  BY DEF PullInv, ReadFromReview, PatchOfAllEdits, Placed
<1>2. output' # output
  BY <1>1
<1>3. CASE WritePatch
  BY <1>2, <1>3 DEF WritePatch, EndPull
<1>4. ~ChangeOutput
  BY <1>1 DEF ChangeOutput
<1>5. ~(ChangeProject \/ ChangeRecords \/ ChangeRemote)
  BY <1>2 DEF ChangeProject, ChangeRecords, ChangeRemote, Surround
<1>6. ~(StartPull \/ CheckLocal \/ CheckFile \/ CheckCopies \/ CheckReference)
  BY <1>2 DEF StartPull, CheckLocal, CheckFile, CheckCopies, CheckReference, Proceed,
              PullStep, EndPull
<1>7. ~(ReadReview \/ Propose \/ CheckOutput \/ PullFails \/ UNCHANGED pullVars)
  BY <1>2 DEF ReadReview, Propose, CheckOutput, PullFails, pullVars, PullStep, EndPull
<1>8. QED BY <1>3, <1>4, <1>5, <1>6, <1>7 DEF PullNext

\* The invariant holds of every behaviour of a pull.
LEMMA PullInvHolds == PullSpec => []PullInv
<1>1. PullInit => PullInv
  BY NoPullTyped DEF PullInit, PullInv, PullTypes, ReadFromReview, PatchOfAllEdits
<1>2. PullInv /\ [PullNext]_pullVars => PullInv'
  BY PullStepKeepsInv
<1>3. QED BY <1>1, <1>2, PTL DEF PullSpec

\* Whatever surrounds it, a pull that the status calls ready is refused exactly
\* for an unfinished operation, a missing Pandoc, a copy of the document that
\* names another review set, or a member that is no longer in the publication.
THEOREM StatusCoversPullHolds == PullSpec => []StatusCoversPull
<1>1. PullInv => StatusCoversPull
  BY StatusCovers DEF PullInv, PullTypes
<1>2. QED BY <1>1, PullInvHolds, PTL

\* However the document, its folders and the patch file change during a pull,
\* its patch is of the review that the state refers to and replaces nothing
\* that the user did not give up.
THEOREM PatchFromReviewHolds == PullSpec => PatchFromReview
<1>1. PullInv /\ [PullNext]_pullVars =>
         [output' = "patch" /\ output # "patch" =>
             /\ pull.overwrite \/ output = "absent"
             /\ ~pull.external =>
                   /\ pull.read.file = "there" /\ pull.read.place = "review"
                   /\ pull.read.metadata = "ready" /\ ~pull.read.suggested
             /\ ~pull.partial => pull.read.edits = {"clean"}]_pullVars
  BY PatchIsOfReview
<1>2. QED BY <1>1, PullInvHolds, PTL DEF PullSpec, PatchFromReview

-----------------------------------------------------------------------------
(* The folders: the inductive invariant *)

Destinations == [Roles -> Folders \cup {NoFolder}]
Actions == [Roles -> {"none", "adopt", "reuse", "create", "conflict"}]
Matches == [Roles -> SUBSET Folders]
SetupSteps == {"idle", "find", "parent", "preflight", "apply", "save", "check"}
SetupRecords ==
    [step : SetupSteps, role : Roles, attempt : Nat, seen : BOOLEAN, matches : Matches,
     pair : Destinations, action : Actions]

FolderStates == {"absent", "good", "bad", "trashed"}
FolderMetadata == {"none", "other", "staging", "review"}
FolderRecords ==
    [state : FolderStates, metadata : FolderMetadata, parent : Folders \cup {NoFolder},
     own : BOOLEAN]

SetupTypes ==
    /\ drive \in [Folders -> FolderRecords] /\ setup \in SetupRecords
    /\ configured \in [Roles \cup {"parent"} -> Folders \cup {NoFolder}]
    /\ saved \in Destinations /\ accepted \in Destinations
    /\ tooLate \in [Roles -> Nat] /\ late \subseteq Roles

\* The folders of a role that the program made.
OwnOf(role) == {f \in Found(role) : drive[f].own}

OwnCounted ==
    \A role \in Roles :
        IsFiniteSet(OwnOf(role)) /\ Cardinality(OwnOf(role)) <= 1 + tooLate[role]

MadeWithRole == \A f \in Folders : drive[f].own => drive[f].metadata \in Roles

\* What is adopted is a folder that the program did not make.
AdoptsOthers(s) ==
    /\ \A r \in Roles : s.action[r] = "adopt" =>
          s.pair[r] \in Folders /\ ~Unmade(s.pair[r]) /\ ~drive[s.pair[r]].own
    /\ s.step = "check" => \A r \in Roles : s.action[r] # "adopt"

\* Where a role has been decided upon.
Decided(s, r) ==
    \/ s.step \in {"apply", "save"}
    \/ s.step = "preflight" /\ s.role = "review" /\ r = "staging"

\* The decision is for the saved folder, if there is one.
PairOfSaved(s) ==
    /\ s.step = "preflight" => ~Differing
    /\ s.step = "parent" => s.role = "staging"
    /\ \A r \in Roles : Decided(s, r) /\ saved[r] # NoFolder =>
          s.pair[r] = saved[r] /\ s.action[r] # "create"
    /\ s.step = "check" /\ s.role = "review" =>
          s.pair["staging"] = saved["staging"] /\ saved["staging"] # NoFolder

\* After a look that found nothing, folders have only come too late.
SeenNone ==
    setup.seen =>
        setup.step = "apply" /\ Cardinality(OwnOf(setup.role)) <= tooLate[setup.role]

\* What a publish was given is what is saved.
AcceptedSaved ==
    accepted # Nowhere => accepted = saved /\ \A r \in Roles : saved[r] # NoFolder

SetupInv ==
    /\ SetupTypes /\ OwnCounted /\ MadeWithRole
    /\ SeenNone /\ AdoptsOthers(setup) /\ PairOfSaved(setup) /\ AcceptedSaved

\* A step of a setup that saves nothing.
LEMMA SetupMoves ==
    ASSUME SetupInv, NEW s \in SetupRecords, setup' = s,
           drive' \in [Folders -> FolderRecords], tooLate' \in [Roles -> Nat],
           late' \subseteq Roles, UNCHANGED <<configured, saved, accepted>>,
           OwnCounted', MadeWithRole',
           \A g \in Folders :
               drive[g].state # "absent" =>
                   drive'[g].state # "absent" /\ drive'[g].own = drive[g].own,
           s.seen => s.step = "apply" /\ SeenNone',
           AdoptsOthers(s), PairOfSaved(s)
    PROVE  SetupInv'
<1>1. SetupTypes'
  BY DEF SetupInv, SetupTypes
<1>2. SeenNone'
  BY DEF SeenNone
<1>3. AdoptsOthers(setup)'
  BY DEF AdoptsOthers, Unmade
<1>4. PairOfSaved(setup)'
  BY DEF PairOfSaved, Decided, Differing
<1>5. AcceptedSaved'
  BY DEF SetupInv, AcceptedSaved
<1>6. QED BY <1>1, <1>2, <1>3, <1>4, <1>5 DEF SetupInv

\* One that only looks.
LEMMA SetupContinues ==
    ASSUME SetupInv, NEW s \in SetupRecords, Continue(s), ~s.seen,
           AdoptsOthers(s), PairOfSaved(s)
    PROVE  SetupInv'
<1>1. setup' = s /\ UNCHANGED <<drive, configured, saved, late, tooLate, accepted>>
  BY DEF Continue
<1>2. OwnCounted' /\ MadeWithRole'
  BY <1>1 DEF SetupInv, OwnCounted, MadeWithRole, OwnOf, Found, Unmade
<1>3. QED BY <1>1, <1>2, SetupMoves DEF SetupInv, SetupTypes

LEMMA NoSetupFits ==
    /\ NoSetup \in SetupRecords /\ ~NoSetup.seen /\ NoSetup.step = "idle"
    /\ NoSetup.role = "staging" /\ \A r \in Roles : NoSetup.action[r] = "none"
    /\ AdoptsOthers(NoSetup) /\ PairOfSaved(NoSetup)
    /\ Nowhere \in Destinations /\ \A r \in Roles : Nowhere[r] = NoFolder
<1>1. Nowhere \in Destinations /\ \A r \in Roles : Nowhere[r] = NoFolder
  BY DEF Nowhere, Destinations
<1>2. PICK matches \in Matches : matches = [r \in Roles |-> {}]
  BY DEF Matches
<1>3. PICK action \in Actions : action = [r \in Roles |-> "none"]
  BY DEF Actions
<1>4. NoSetup = [step |-> "idle", role |-> "staging", attempt |-> 0, seen |-> FALSE,
                 matches |-> matches, pair |-> Nowhere, action |-> action]
  BY <1>2, <1>3 DEF NoSetup
<1>5. /\ NoSetup \in SetupRecords /\ ~NoSetup.seen /\ NoSetup.step = "idle"
      /\ NoSetup.role = "staging"
  BY <1>1, <1>4 DEF SetupRecords, SetupSteps, Roles
<1>6. \A r \in Roles : NoSetup.action[r] = "none"
  BY <1>3, <1>4
<1>7. AdoptsOthers(NoSetup) /\ PairOfSaved(NoSetup)
  BY <1>5, <1>6 DEF AdoptsOthers, PairOfSaved, Decided
<1>8. QED BY <1>1, <1>5, <1>6, <1>7

LEMMA SetupLeaves ==
    ASSUME SetupInv, Leave
    PROVE  SetupInv'
BY NoSetupFits, SetupContinues DEF Leave

-----------------------------------------------------------------------------
(* The folders: finding and deciding *)

LEMMA FindRoleKeeps ==
    ASSUME SetupInv, FindRole
    PROVE  SetupInv'
<1>1. setup \in SetupRecords /\ setup.step = "find" /\ setup.role \in Roles
  BY DEF SetupInv, SetupTypes, FindRole, SetupRecords
<1>2. PICK found \in SUBSET Folders : found = Found(setup.role)
  BY DEF Found
<1>3. PICK matches \in Matches : matches = [setup.matches EXCEPT ![setup.role] = found]
  BY <1>1 DEF SetupRecords, Matches
<1>4. PICK listed \in SetupRecords : listed = [setup EXCEPT !.matches = matches]
  BY <1>1 DEF SetupRecords
<1>5. /\ listed.step = "find" /\ listed.pair = setup.pair /\ listed.action = setup.action
      /\ listed.seen = setup.seen
  BY <1>1, <1>4 DEF SetupRecords
<1>6. ~setup.seen /\ AdoptsOthers(setup)
  BY <1>1 DEF SetupInv, SeenNone
<1>7. Continue(IF setup.role = "staging" THEN [listed EXCEPT !.role = "review"]
               ELSE [listed EXCEPT !.role = "staging", !.step = "parent"])
  BY <1>2, <1>3, <1>4 DEF FindRole
<1>8. PICK s : s = IF setup.role = "staging" THEN [listed EXCEPT !.role = "review"]
                   ELSE [listed EXCEPT !.role = "staging", !.step = "parent"]
  OBVIOUS
<1>9. /\ s \in SetupRecords /\ s.step \in {"find", "parent"} /\ ~s.seen
      /\ s.step = "parent" => s.role = "staging"
      /\ s.pair = setup.pair /\ s.action = setup.action
  BY <1>5, <1>6, <1>8 DEF SetupRecords, SetupSteps, Roles
<1>10. AdoptsOthers(s) /\ PairOfSaved(s)
  BY <1>6, <1>9 DEF AdoptsOthers, PairOfSaved, Decided
<1>11. QED BY <1>7, <1>8, <1>9, <1>10, SetupContinues

LEMMA CheckParentKeeps ==
    ASSUME SetupInv, CheckParent
    PROVE  SetupInv'
<1>1. /\ setup \in SetupRecords /\ setup.step = "parent" /\ setup.role = "staging"
      /\ ~setup.seen /\ AdoptsOthers(setup)
  BY DEF SetupInv, SetupTypes, CheckParent, PairOfSaved, SeenNone
<1>2. CASE Leave
  BY <1>2, SetupLeaves
<1>3. CASE ~Leave
  <2>1. Continue([setup EXCEPT !.step = "preflight"]) /\ ~Differing
    BY <1>3 DEF CheckParent
  <2>2. PICK s : s = [setup EXCEPT !.step = "preflight"]
    OBVIOUS
  <2>3. /\ s \in SetupRecords /\ s.step = "preflight" /\ s.role = "staging" /\ ~s.seen
        /\ s.pair = setup.pair /\ s.action = setup.action
    BY <1>1, <2>2 DEF SetupRecords, SetupSteps
  <2>4. AdoptsOthers(s) /\ PairOfSaved(s)
    BY <1>1, <2>1, <2>3 DEF AdoptsOthers, PairOfSaved, Decided
  <2>5. QED BY <2>1, <2>2, <2>3, <2>4, SetupContinues
<1>4. QED BY <1>2, <1>3

\* The decision about one role.
LEMMA PreflightKeeps ==
    ASSUME SetupInv, PreflightRole
    PROVE  SetupInv'
<1>1. /\ setup \in SetupRecords /\ setup.step = "preflight" /\ setup.role \in Roles
      /\ ~setup.seen /\ AdoptsOthers(setup) /\ PairOfSaved(setup) /\ ~Differing
  BY DEF SetupInv, SetupTypes, PreflightRole, PairOfSaved, SeenNone, SetupRecords
<1>2. PICK f : f = Candidate(setup.role)
  OBVIOUS
<1>3. /\ f \in Folders \cup {NoFolder}
      /\ saved[setup.role] # NoFolder => f = saved[setup.role]
  <2>1. /\ saved[setup.role] \in Folders \cup {NoFolder}
        /\ configured[setup.role] \in Folders \cup {NoFolder}
        /\ setup.matches[setup.role] \in SUBSET Folders
    BY <1>1 DEF SetupInv, SetupTypes, SetupRecords, Matches, Destinations
  <2>2. configured[setup.role] # NoFolder /\ saved[setup.role] # NoFolder =>
           configured[setup.role] = saved[setup.role]
    BY <1>1 DEF Differing
  <2>3. QED BY <1>2, <2>1, <2>2 DEF Candidate, Requested
<1>4. PICK action : action = IF f = NoFolder THEN "create" ELSE ActionFor(setup.role, f)
  OBVIOUS
<1>5. /\ action \in {"adopt", "reuse", "create", "conflict"}
      /\ action = "create" <=> f = NoFolder
      /\ action = "adopt" => f # NoFolder /\ drive[f].metadata = "none"
  BY <1>4 DEF ActionFor
<1>6. PICK pair \in Destinations : pair = [setup.pair EXCEPT ![setup.role] = f]
  BY <1>1, <1>3 DEF SetupRecords, Destinations
<1>7. PICK actions \in Actions : actions = [setup.action EXCEPT ![setup.role] = action]
  BY <1>1, <1>5 DEF SetupRecords, Actions
<1>8. PICK next \in SetupRecords : next = [setup EXCEPT !.pair = pair, !.action = actions]
  BY <1>1 DEF SetupRecords
<1>9. next = [setup EXCEPT !.pair[setup.role] = f, !.action[setup.role] = action]
  BY <1>1, <1>6, <1>7, <1>8 DEF SetupRecords
<1>10. CASE Leave
  BY <1>10, SetupLeaves
<1>11. CASE ~Leave
  <2>1. /\ Continue(IF setup.role = "staging" THEN [next EXCEPT !.role = "review"]
                    ELSE [next EXCEPT !.step = "apply", !.role = "staging"])
        /\ f # NoFolder => Usable(f)
    BY <1>2, <1>4, <1>9, <1>11 DEF PreflightRole
  <2>2. PICK s : s = IF setup.role = "staging" THEN [next EXCEPT !.role = "review"]
                     ELSE [next EXCEPT !.step = "apply", !.role = "staging"]
    OBVIOUS
  <2>3. /\ s \in SetupRecords /\ ~s.seen /\ s.pair = pair /\ s.action = actions
        /\ setup.role = "staging" => s.step = "preflight" /\ s.role = "review"
        /\ setup.role # "staging" => s.step = "apply"
    BY <1>1, <1>8, <2>2 DEF SetupRecords, SetupSteps, Roles
  <2>4. /\ \A r \in Roles \ {setup.role} :
              pair[r] = setup.pair[r] /\ actions[r] = setup.action[r]
        /\ pair[setup.role] = f /\ actions[setup.role] = action
    BY <1>1, <1>6, <1>7 DEF SetupRecords, Destinations, Actions
  <2>5. AdoptsOthers(s)
    <3>1. ASSUME action = "adopt" PROVE f \in Folders /\ ~Unmade(f) /\ ~drive[f].own
      <4>1. f \in Folders /\ drive[f].metadata = "none" /\ drive[f].state = "good"
        BY <1>3, <1>5, <2>1, <3>1 DEF Usable
      <4>2. QED BY <4>1 DEF Unmade, SetupInv, MadeWithRole, Roles
    <3>2. QED BY <1>1, <2>3, <2>4, <3>1 DEF AdoptsOthers
  <2>6. PairOfSaved(s)
    <3>1. ASSUME NEW r \in Roles, Decided(s, r), saved[r] # NoFolder
          PROVE  s.pair[r] = saved[r] /\ s.action[r] # "create"
      <4>1. CASE r = setup.role
        BY <1>3, <1>5, <2>3, <2>4, <3>1, <4>1
      <4>2. CASE r # setup.role
        <5>1. Decided(setup, r)
          BY <1>1, <2>3, <3>1, <4>2 DEF Decided, Roles
        <5>2. QED BY <1>1, <2>3, <2>4, <3>1, <4>2, <5>1 DEF PairOfSaved
      <4>3. QED BY <4>1, <4>2
    <3>2. QED BY <1>1, <2>3, <3>1 DEF PairOfSaved, Roles
  <2>7. QED BY <2>1, <2>2, <2>3, <2>5, <2>6, SetupContinues
<1>12. QED BY <1>10, <1>11

-----------------------------------------------------------------------------
(* The folders: making them *)

\* The next role, or the save, after the folder of a role is there.
LEMMA AppliedFits ==
    ASSUME SetupInv, setup.step = "apply", NEW f \in Folders \cup {NoFolder},
           setup.action[setup.role] = "create" \/ f = setup.pair[setup.role],
           NEW s, s = Applied(setup, f)
    PROVE  /\ s \in SetupRecords /\ ~s.seen
           /\ AdoptsOthers(s) /\ PairOfSaved(s)
<1>1. /\ setup \in SetupRecords /\ setup.role \in Roles /\ AdoptsOthers(setup)
      /\ PairOfSaved(setup) /\ 0 \in Nat
  BY DEF SetupInv, SetupTypes, SetupRecords
<1>2. PICK pair \in Destinations : pair = [setup.pair EXCEPT ![setup.role] = f]
  BY <1>1 DEF SetupRecords, Destinations
<1>3. PICK done \in SetupRecords :
         done = [setup EXCEPT !.pair = pair, !.attempt = 0, !.seen = FALSE]
  BY <1>1 DEF SetupRecords
<1>4. done = [setup EXCEPT !.pair[setup.role] = f, !.attempt = 0, !.seen = FALSE]
  BY <1>1, <1>2, <1>3 DEF SetupRecords
<1>5. s = IF setup.role = "staging" THEN [done EXCEPT !.role = "review"]
          ELSE [done EXCEPT !.step = "save"]
  BY <1>4 DEF Applied
<1>6. /\ s \in SetupRecords /\ ~s.seen /\ s.step \in {"apply", "save"}
      /\ s.pair = pair /\ s.action = setup.action
  BY <1>1, <1>3, <1>5, ZenonT(40) DEF SetupRecords, SetupSteps, Roles
<1>7. /\ \A r \in Roles \ {setup.role} : pair[r] = setup.pair[r]
      /\ pair[setup.role] = f
  BY <1>1, <1>2 DEF SetupRecords, Destinations
<1>8. AdoptsOthers(s)
  BY <1>1, <1>6, <1>7 DEF AdoptsOthers
<1>9. \A r \in Roles : saved[r] # NoFolder => s.pair[r] = saved[r] /\ s.action[r] # "create"
  BY <1>1, <1>6, <1>7 DEF PairOfSaved, Decided
<1>10. QED BY <1>6, <1>8, <1>9 DEF PairOfSaved

\* A folder that the program makes is counted for its role alone.
LEMMA NewFolder ==
    ASSUME SetupInv, NEW role \in Roles, \E f \in Folders : Unmade(f),
           drive' = WithNew(role)
    PROVE  /\ drive' \in [Folders -> FolderRecords] /\ MadeWithRole'
           /\ \A g \in Folders :
                 drive[g].state # "absent" =>
                     drive'[g].state # "absent" /\ drive'[g].own = drive[g].own
           /\ \A r \in Roles : IsFiniteSet(OwnOf(r)')
           /\ \A r \in Roles \ {role} : OwnOf(r)' = OwnOf(r)
           /\ Cardinality(OwnOf(role)') <= Cardinality(OwnOf(role)) + 1
<1>1. /\ drive \in [Folders -> FolderRecords] /\ MadeWithRole /\ OwnCounted
      /\ configured["parent"] \in Folders \cup {NoFolder}
  BY DEF SetupInv, SetupTypes
<1>2. PICK f \in Folders : f = CHOOSE g \in Folders : Unmade(g)
  OBVIOUS
<1>3. Unmade(f)
  BY <1>2
<1>4. PICK new : new = [state |-> "good", metadata |-> role,
                        parent |-> configured["parent"], own |-> TRUE]
  OBVIOUS
<1>5. drive' = [drive EXCEPT ![f] = new]
  BY <1>2, <1>4 DEF WithNew
<1>6. /\ new \in FolderRecords /\ new.state = "good" /\ new.metadata = role /\ new.own
  BY <1>1, <1>4 DEF FolderRecords, FolderStates, FolderMetadata, Roles
<1>7. /\ drive' \in [Folders -> FolderRecords] /\ drive'[f] = new
      /\ \A g \in Folders \ {f} : drive'[g] = drive[g]
  BY <1>1, <1>5, <1>6
<1>8. MadeWithRole'
  BY <1>1, <1>6, <1>7 DEF MadeWithRole
<1>9. \A r \in Roles \ {role} : OwnOf(r)' = OwnOf(r)
  <2>1. TAKE r \in Roles \ {role}
  <2>2. f \notin OwnOf(r) /\ f \notin OwnOf(r)'
    BY <1>3, <1>6, <1>7 DEF OwnOf, Found, Unmade
  <2>3. ASSUME NEW g \in Folders \ {f} PROVE g \in OwnOf(r)' <=> g \in OwnOf(r)
    BY <1>7 DEF OwnOf, Found, Unmade
  <2>4. OwnOf(r) \subseteq Folders /\ OwnOf(r)' \subseteq Folders
    BY DEF OwnOf, Found
  <2>5. QED BY <2>2, <2>3, <2>4
<1>10. OwnOf(role)' = OwnOf(role) \cup {f}
  <2>1. f \in OwnOf(role)'
    BY <1>6, <1>7 DEF OwnOf, Found, Unmade
  <2>2. ASSUME NEW g \in Folders \ {f} PROVE g \in OwnOf(role)' <=> g \in OwnOf(role)
    BY <1>7 DEF OwnOf, Found, Unmade
  <2>3. OwnOf(role) \subseteq Folders /\ OwnOf(role)' \subseteq Folders
    BY DEF OwnOf, Found
  <2>4. QED BY <2>1, <2>2, <2>3
<1>11. \A r \in Roles : IsFiniteSet(OwnOf(r))
  BY <1>1 DEF OwnCounted
<1>12. PICK own : own = OwnOf(role)
  OBVIOUS
<1>13. /\ IsFiniteSet(own \cup {f})
       /\ Cardinality(own \cup {f}) \in {Cardinality(own), Cardinality(own) + 1}
       /\ Cardinality(own) \in Nat
  BY <1>11, <1>12, FS_AddElement, FS_CardinalityType
<1>14. /\ IsFiniteSet(OwnOf(role)')
       /\ Cardinality(OwnOf(role)') <= Cardinality(OwnOf(role)) + 1
  BY <1>10, <1>12, <1>13
<1>15. \A g \in Folders :
          drive[g].state # "absent" =>
              drive'[g].state # "absent" /\ drive'[g].own = drive[g].own
  BY <1>3, <1>7 DEF Unmade
<1>16. QED BY <1>7, <1>8, <1>9, <1>11, <1>14, <1>15

\* How many there are of a role does not grow where nothing is made.
LEMMA OwnShrinks ==
    ASSUME SetupInv, \A r \in Roles : OwnOf(r)' \subseteq OwnOf(r), UNCHANGED tooLate
    PROVE  /\ OwnCounted'
           /\ \A r \in Roles : Cardinality(OwnOf(r)') <= Cardinality(OwnOf(r))
<1>1. ASSUME NEW r \in Roles
      PROVE  /\ IsFiniteSet(OwnOf(r)') /\ Cardinality(OwnOf(r)') <= 1 + tooLate[r]
             /\ Cardinality(OwnOf(r)') <= Cardinality(OwnOf(r))
  <2>1. PICK a, b : a = OwnOf(r) /\ b = OwnOf(r)'
    OBVIOUS
  <2>2. IsFiniteSet(a) /\ Cardinality(a) <= 1 + tooLate[r] /\ b \subseteq a
        /\ tooLate[r] \in Nat
    BY <2>1 DEF SetupInv, OwnCounted, SetupTypes
  <2>3. IsFiniteSet(b) /\ Cardinality(b) <= Cardinality(a)
        /\ Cardinality(a) \in Nat /\ Cardinality(b) \in Nat
    BY <2>2, FS_Subset, FS_CardinalityType
  <2>4. QED BY <2>1, <2>2, <2>3
<1>2. QED BY <1>1 DEF OwnCounted

\* A step that makes no folder of a role, whatever it does to a folder.
LEMMA NothingMade ==
    ASSUME SetupInv, NEW s \in SetupRecords, setup' = s, ~s.seen,
           drive' \in [Folders -> FolderRecords], MadeWithRole',
           \A r \in Roles : OwnOf(r)' \subseteq OwnOf(r),
           \A g \in Folders :
               drive[g].state # "absent" =>
                   drive'[g].state # "absent" /\ drive'[g].own = drive[g].own,
           UNCHANGED <<configured, saved, accepted, tooLate>>, late' \subseteq Roles,
           AdoptsOthers(s), PairOfSaved(s)
    PROVE  SetupInv'
<1>1. OwnCounted'
  BY OwnShrinks
<1>2. tooLate' \in [Roles -> Nat]
  BY DEF SetupInv, SetupTypes
<1>3. QED BY <1>1, <1>2, SetupMoves

LEMMA ReuseKeeps ==
    ASSUME SetupInv, Reuse
    PROVE  SetupInv'
<1>1. /\ setup.pair[setup.role] \in Folders \cup {NoFolder} /\ setup.step = "apply"
      /\ Continue(Applied(setup, setup.pair[setup.role]))
  BY DEF SetupInv, SetupTypes, SetupRecords, Destinations, Reuse
<1>2. PICK f \in Folders \cup {NoFolder} : f = setup.pair[setup.role]
  BY <1>1
<1>3. PICK s : s = Applied(setup, f)
  OBVIOUS
<1>4. s \in SetupRecords /\ ~s.seen /\ AdoptsOthers(s) /\ PairOfSaved(s)
  BY <1>1, <1>2, <1>3, AppliedFits
<1>5. QED BY <1>1, <1>2, <1>3, <1>4, SetupContinues

\* An adopted folder is not one of those that the program made.
LEMMA AdoptKeeps ==
    ASSUME SetupInv, Adopt
    PROVE  SetupInv'
<1>1. /\ setup.step = "apply" /\ setup.role \in Roles /\ AdoptsOthers(setup)
      /\ setup.action[setup.role] = "adopt" /\ drive \in [Folders -> FolderRecords]
      /\ UNCHANGED <<configured, saved, late, tooLate, accepted>>
  BY DEF SetupInv, SetupTypes, SetupRecords, Adopt
<1>2. PICK f \in Folders : f = setup.pair[setup.role]
  BY <1>1 DEF AdoptsOthers
<1>3. drive[f].state # "absent" /\ ~drive[f].own /\ drive[f] \in FolderRecords
  BY <1>1, <1>2 DEF AdoptsOthers, Unmade
<1>4. PICK new : new = [drive[f] EXCEPT !.metadata = setup.role]
  OBVIOUS
<1>5. /\ new \in FolderRecords /\ new.state = drive[f].state /\ new.own = drive[f].own
  BY <1>1, <1>3, <1>4 DEF FolderRecords, FolderMetadata, Roles
<1>6. drive' = [drive EXCEPT ![f] = new]
  BY <1>1, <1>2, <1>4 DEF Adopt
<1>7. /\ drive' \in [Folders -> FolderRecords] /\ drive'[f] = new
      /\ \A g \in Folders \ {f} : drive'[g] = drive[g]
  BY <1>1, <1>5, <1>6
<1>8. MadeWithRole'
  BY <1>3, <1>5, <1>7 DEF SetupInv, MadeWithRole
<1>9. \A r \in Roles : OwnOf(r)' \subseteq OwnOf(r)
  BY <1>3, <1>5, <1>7 DEF OwnOf, Found, Unmade
<1>10. PICK s : s = Applied(setup, f)
  OBVIOUS
<1>11. s \in SetupRecords /\ ~s.seen /\ AdoptsOthers(s) /\ PairOfSaved(s)
  BY <1>1, <1>2, <1>10, AppliedFits
<1>12. setup' = s
  BY <1>2, <1>10 DEF Adopt
<1>13. \A g \in Folders :
          drive[g].state # "absent" =>
              drive'[g].state # "absent" /\ drive'[g].own = drive[g].own
  BY <1>3, <1>5, <1>7
<1>14. late' \subseteq Roles
  BY <1>1 DEF SetupInv, SetupTypes
<1>15. QED BY <1>1, <1>7, <1>8, <1>9, <1>11, <1>12, <1>13, <1>14, NothingMade

\* A look that finds no folder of a role finds none that the program made.
LEMMA LookKeeps ==
    ASSUME SetupInv, LookBeforeCreate
    PROVE  SetupInv'
<1>1. /\ setup.step = "apply" /\ setup.role \in Roles /\ setup \in SetupRecords
      /\ setup.action[setup.role] = "create" /\ AdoptsOthers(setup) /\ PairOfSaved(setup)
  BY DEF SetupInv, SetupTypes, SetupRecords, LookBeforeCreate
<1>2. CASE Found(setup.role) = {}
  <2>1. Continue([setup EXCEPT !.seen = TRUE])
    BY <1>2 DEF LookBeforeCreate
  <2>2. PICK s : s = [setup EXCEPT !.seen = TRUE]
    OBVIOUS
  <2>3. /\ s \in SetupRecords /\ s.step = "apply" /\ s.role = setup.role
        /\ s.pair = setup.pair /\ s.action = setup.action
    BY <1>1, <2>2 DEF SetupRecords
  <2>4. /\ setup' = s /\ UNCHANGED <<drive, configured, saved, late, tooLate, accepted>>
    BY <2>1, <2>2 DEF Continue
  <2>5. \A r \in Roles : OwnOf(r)' = OwnOf(r)
    BY <2>4 DEF OwnOf, Found, Unmade
  <2>6. OwnCounted' /\ MadeWithRole'
    BY <2>4, <2>5, OwnShrinks DEF SetupInv, MadeWithRole
  <2>7. SeenNone'
    <3>1. OwnOf(setup.role) = {}
      BY <1>2 DEF OwnOf
    <3>2. Cardinality({}) = 0 /\ tooLate[setup.role] \in Nat
      BY <1>1, FS_EmptySet DEF SetupInv, SetupTypes
    <3>3. PICK r \in Roles : r = setup.role
      BY <1>1
    <3>4. OwnOf(r)' = {} /\ setup'.role = r
      BY <2>3, <2>4, <2>5, <3>1, <3>3
    <3>5. OwnOf(setup.role)' = {}
      BY <3>4 DEF OwnOf, Found
    <3>6. tooLate'[setup'.role] \in Nat
      BY <2>4, <3>2, <3>3, <3>4
    <3>7. setup'.step = "apply"
      BY <2>3, <2>4
    <3>8. QED BY <3>2, <3>5, <3>6, <3>7 DEF SeenNone
  <2>8. AdoptsOthers(s) /\ PairOfSaved(s)
    BY <1>1, <2>3 DEF AdoptsOthers, PairOfSaved, Decided
  <2>9. drive' \in [Folders -> FolderRecords] /\ tooLate' \in [Roles -> Nat]
        /\ late' \subseteq Roles
    BY <2>4 DEF SetupInv, SetupTypes
  <2>10. QED BY <2>3, <2>4, <2>6, <2>7, <2>8, <2>9, SetupMoves
<1>3. CASE Found(setup.role) # {} /\ ~Leave
  <2>1. Continue(Applied(setup, CHOOSE f \in Found(setup.role) : TRUE))
    BY <1>3 DEF LookBeforeCreate
  <2>2. PICK f \in Folders : f = CHOOSE g \in Found(setup.role) : TRUE
    BY <1>3 DEF Found
  <2>3. PICK s : s = Applied(setup, f)
    OBVIOUS
  <2>4. s \in SetupRecords /\ ~s.seen /\ AdoptsOthers(s) /\ PairOfSaved(s)
    BY <1>1, <2>3, AppliedFits
  <2>5. QED BY <2>1, <2>2, <2>3, <2>4, SetupContinues
<1>4. QED BY <1>2, <1>3, SetupLeaves

\* A create that is answered, or not, and was executed: it had looked before.
LEMMA CreateCounts ==
    ASSUME SetupInv, Creating, drive' = WithNew(setup.role), UNCHANGED tooLate
    PROVE  OwnCounted'
<1>1. /\ setup.seen /\ setup.role \in Roles /\ \E f \in Folders : Unmade(f)
      /\ OwnCounted
  BY DEF SetupInv, SetupTypes, SetupRecords, Creating, MustLook
<1>2. PICK role \in Roles : role = setup.role
  BY <1>1
<1>3. Cardinality(OwnOf(role)) <= tooLate[role]
  BY <1>1, <1>2 DEF SetupInv, SeenNone
<1>4. /\ \A r \in Roles : IsFiniteSet(OwnOf(r)')
      /\ \A r \in Roles \ {role} : OwnOf(r)' = OwnOf(r)
      /\ Cardinality(OwnOf(role)') <= Cardinality(OwnOf(role)) + 1
  BY <1>1, <1>2, NewFolder
<1>5. ASSUME NEW r \in Roles
      PROVE  IsFiniteSet(OwnOf(r)') /\ Cardinality(OwnOf(r)') <= 1 + tooLate[r]
  <2>1. CASE r # role
    BY <1>1, <1>4, <2>1 DEF OwnCounted
  <2>2. CASE r = role
    <3>1. IsFiniteSet(OwnOf(role)) /\ tooLate[role] \in Nat
      BY <1>1 DEF OwnCounted, SetupInv, SetupTypes
    <3>2. Cardinality(OwnOf(role)) \in Nat /\ Cardinality(OwnOf(role)') \in Nat
      BY <1>4, <3>1, FS_CardinalityType
    <3>3. QED BY <1>3, <1>4, <2>2, <3>1, <3>2
  <2>3. QED BY <2>1, <2>2
<1>6. QED BY <1>5 DEF OwnCounted

LEMMA CreateKeeps ==
    ASSUME SetupInv, Create
    PROVE  SetupInv'
<1>1. /\ setup.step = "apply" /\ setup.role \in Roles /\ Creating
      /\ setup.action[setup.role] = "create" /\ drive' = WithNew(setup.role)
      /\ UNCHANGED <<configured, saved, late, tooLate, accepted>>
      /\ setup' = Applied(setup, CHOOSE f \in Folders : Unmade(f))
  BY DEF SetupInv, SetupTypes, SetupRecords, Create, Creating
<1>2. OwnCounted'
  BY <1>1, CreateCounts
<1>3. PICK role \in Roles : role = setup.role
  BY <1>1
<1>4. /\ drive' \in [Folders -> FolderRecords] /\ MadeWithRole'
      /\ \A g \in Folders :
            drive[g].state # "absent" =>
                drive'[g].state # "absent" /\ drive'[g].own = drive[g].own
  BY <1>1, <1>3, NewFolder DEF Creating
<1>5. PICK f \in Folders : f = CHOOSE g \in Folders : Unmade(g)
  BY <1>1 DEF Creating
<1>6. PICK s : s = Applied(setup, f)
  OBVIOUS
<1>7. s \in SetupRecords /\ ~s.seen /\ AdoptsOthers(s) /\ PairOfSaved(s)
  BY <1>1, <1>6, AppliedFits
<1>8. setup' = s
  BY <1>1, <1>5, <1>6
<1>9. late' \subseteq Roles /\ tooLate' \in [Roles -> Nat]
  BY <1>1 DEF SetupInv, SetupTypes
<1>10. QED BY <1>1, <1>2, <1>4, <1>7, <1>8, <1>9, SetupMoves

\* Every attempt looks again.
LEMMA NextAttemptFits ==
    ASSUME SetupInv, setup.step = "apply", NextAttempt
    PROVE  /\ setup' \in SetupRecords /\ ~setup'.seen
           /\ \E s \in SetupRecords : s = setup' /\ AdoptsOthers(s) /\ PairOfSaved(s)
<1>1. setup \in SetupRecords /\ AdoptsOthers(setup) /\ PairOfSaved(setup)
  BY DEF SetupInv, SetupTypes
<1>2. PICK s : s = setup'
  OBVIOUS
<1>3. CASE s = NoSetup
  BY <1>2, <1>3, NoSetupFits
<1>4. CASE s # NoSetup
  <2>1. s = [setup EXCEPT !.attempt = @ + 1, !.seen = FALSE]
    BY <1>2, <1>4 DEF NextAttempt
  <2>2. setup.attempt + 1 \in Nat
    BY <1>1 DEF SetupRecords
  <2>3. PICK attempt \in Nat : attempt = setup.attempt + 1
    BY <2>2
  <2>4. s = [setup EXCEPT !.attempt = attempt, !.seen = FALSE]
    BY <2>1, <2>3
  <2>5. /\ s \in SetupRecords /\ ~s.seen /\ s.step = "apply" /\ s.role = setup.role
        /\ s.pair = setup.pair /\ s.action = setup.action
    BY <1>1, <2>4 DEF SetupRecords
  <2>6. AdoptsOthers(s) /\ PairOfSaved(s)
    BY <1>1, <2>5 DEF AdoptsOthers, PairOfSaved, Decided
  <2>7. QED BY <1>2, <2>5, <2>6
<1>5. QED BY <1>3, <1>4

LEMMA CreateLostKeeps ==
    ASSUME SetupInv, CreateLost
    PROVE  SetupInv'
<1>1. /\ setup.step = "apply" /\ setup.role \in Roles /\ Creating /\ NextAttempt
      /\ UNCHANGED <<configured, saved, tooLate, accepted>>
      /\ drive \in [Folders -> FolderRecords] /\ late \subseteq Roles
      /\ tooLate' \in [Roles -> Nat]
  BY DEF SetupInv, SetupTypes, SetupRecords, CreateLost, Creating
<1>2. PICK s \in SetupRecords :
         s = setup' /\ ~s.seen /\ AdoptsOthers(s) /\ PairOfSaved(s)
  BY <1>1, NextAttemptFits
<1>3. late' \subseteq Roles
  BY <1>1 DEF CreateLost
<1>4. CASE UNCHANGED drive
  <2>1. MadeWithRole' /\ \A r \in Roles : OwnOf(r)' \subseteq OwnOf(r)
    BY <1>4 DEF SetupInv, MadeWithRole, OwnOf, Found, Unmade
  <2>2. QED BY <1>1, <1>2, <1>3, <1>4, <2>1, NothingMade
<1>5. CASE drive' = WithNew(setup.role)
  <2>1. OwnCounted'
    BY <1>1, <1>5, CreateCounts
  <2>2. PICK role \in Roles : role = setup.role
    BY <1>1
  <2>3. /\ drive' \in [Folders -> FolderRecords] /\ MadeWithRole'
        /\ \A g \in Folders :
              drive[g].state # "absent" =>
                  drive'[g].state # "absent" /\ drive'[g].own = drive[g].own
    BY <1>1, <1>5, <2>2, NewFolder DEF Creating
  <2>4. QED BY <1>1, <1>2, <1>3, <2>1, <2>3, SetupMoves
<1>6. QED BY <1>4, <1>5 DEF CreateLost

\* What Google executes too late is counted as that.
LEMMA CreateLandsKeeps ==
    ASSUME SetupInv, NEW role \in Roles, CreateLands(role)
    PROVE  SetupInv'
<1>1. /\ \E f \in Folders : Unmade(f) /\ drive' = WithNew(role)
      /\ tooLate' = [tooLate EXCEPT ![role] = @ + 1]
      /\ UNCHANGED <<configured, saved, setup, accepted>> /\ late' \subseteq Roles
      /\ tooLate \in [Roles -> Nat] /\ OwnCounted /\ setup \in SetupRecords
      /\ AdoptsOthers(setup) /\ PairOfSaved(setup) /\ SeenNone
  BY DEF SetupInv, SetupTypes, CreateLands
<1>2. /\ drive' \in [Folders -> FolderRecords] /\ MadeWithRole'
      /\ \A g \in Folders :
            drive[g].state # "absent" =>
                drive'[g].state # "absent" /\ drive'[g].own = drive[g].own
      /\ \A r \in Roles : IsFiniteSet(OwnOf(r)')
      /\ \A r \in Roles \ {role} : OwnOf(r)' = OwnOf(r)
      /\ Cardinality(OwnOf(role)') <= Cardinality(OwnOf(role)) + 1
  BY <1>1, NewFolder
<1>3. /\ tooLate' \in [Roles -> Nat] /\ tooLate'[role] = tooLate[role] + 1
      /\ \A r \in Roles \ {role} : tooLate'[r] = tooLate[r]
  BY <1>1
<1>4. \A r \in Roles :
         /\ Cardinality(OwnOf(r)) \in Nat /\ Cardinality(OwnOf(r)') \in Nat
         /\ tooLate[r] \in Nat /\ Cardinality(OwnOf(r)) <= 1 + tooLate[r]
  BY <1>1, <1>2, FS_CardinalityType DEF OwnCounted
<1>5. OwnCounted'
  BY <1>2, <1>3, <1>4 DEF OwnCounted
<1>6. SeenNone'
  <2>1. SUFFICES ASSUME setup.seen
                 PROVE  /\ setup.step = "apply"
                        /\ Cardinality(OwnOf(setup.role)') <= tooLate'[setup.role]
    BY <1>1 DEF SeenNone
  <2>2. PICK r \in Roles : r = setup.role
    BY <1>1 DEF SetupRecords
  <2>3. setup.step = "apply" /\ Cardinality(OwnOf(r)) <= tooLate[r]
    BY <1>1, <2>1, <2>2 DEF SeenNone
  <2>4. Cardinality(OwnOf(r)') <= tooLate'[r]
    BY <1>2, <1>3, <1>4, <2>3
  <2>5. QED BY <1>1, <2>2, <2>3, <2>4 DEF OwnOf, Found
<1>7. PICK s \in SetupRecords : s = setup
  BY <1>1
<1>8. AdoptsOthers(s) /\ PairOfSaved(s) /\ setup' = s
      /\ (s.seen => s.step = "apply" /\ SeenNone')
  BY <1>1, <1>6, <1>7 DEF SeenNone
<1>9. QED BY <1>1, <1>2, <1>3, <1>5, <1>8, SetupMoves

-----------------------------------------------------------------------------
(* The folders: saving and checking them *)

\* A setup saves the saved folder of a role again, if there is one.
LEMMA SavedStays ==
    ASSUME SetupInv, SaveFolders, NEW r \in Roles, saved[r] # NoFolder
    PROVE  saved'[r] = saved[r]
BY DEF SetupInv, PairOfSaved, Decided, SaveFolders

LEMMA SaveKeeps ==
    ASSUME SetupInv, SaveFolders
    PROVE  SetupInv'
<1>1. /\ saved' = setup.pair /\ setup' = NoSetup /\ setup.pair \in Destinations
      /\ UNCHANGED <<drive, configured, late, tooLate, accepted>>
      /\ saved \in Destinations
  BY DEF SetupInv, SetupTypes, SetupRecords, SaveFolders
<1>2. SetupTypes'
  BY <1>1, NoSetupFits DEF SetupInv, SetupTypes
<1>3. OwnCounted' /\ MadeWithRole'
  BY <1>1 DEF SetupInv, OwnCounted, MadeWithRole, OwnOf, Found, Unmade
<1>4. SeenNone'
  BY <1>1, NoSetupFits DEF SeenNone
<1>5. AdoptsOthers(setup)'
  <2>1. \A r \in Roles : NoSetup.action[r] # "adopt"
    BY DEF NoSetup
  <2>2. QED BY <1>1, <2>1 DEF AdoptsOthers
<1>6. PairOfSaved(setup)'
  BY <1>1, NoSetupFits DEF PairOfSaved, Decided
<1>7. AcceptedSaved'
  <2>1. SUFFICES ASSUME accepted # Nowhere
                 PROVE  accepted = saved' /\ \A r \in Roles : saved'[r] # NoFolder
    BY <1>1 DEF AcceptedSaved
  <2>2. accepted = saved /\ \A r \in Roles : saved[r] # NoFolder
    BY <2>1 DEF SetupInv, AcceptedSaved
  <2>3. \A r \in Roles : saved'[r] = saved[r]
    BY <2>2, SavedStays
  <2>4. saved' = saved
    BY <1>1, <2>3 DEF Destinations
  <2>5. QED BY <2>2, <2>4
<1>8. QED BY <1>2, <1>3, <1>4, <1>5, <1>6, <1>7 DEF SetupInv

LEMMA StartCheckKeeps ==
    ASSUME SetupInv, StartCheck
    PROVE  SetupInv'
<1>1. PICK s : s = [NoSetup EXCEPT !.step = "check"]
  OBVIOUS
<1>2. /\ s \in SetupRecords /\ ~s.seen /\ s.step = "check" /\ s.role = "staging"
      /\ s.action = NoSetup.action /\ s.pair = NoSetup.pair
  BY <1>1, NoSetupFits DEF SetupRecords, SetupSteps
<1>3. AdoptsOthers(s) /\ PairOfSaved(s)
  BY <1>2, NoSetupFits DEF AdoptsOthers, PairOfSaved, Decided
<1>4. QED BY <1>1, <1>2, <1>3, SetupContinues DEF StartCheck

LEMMA StartSetupKeeps ==
    ASSUME SetupInv, StartSetup
    PROVE  SetupInv'
<1>1. PICK s : s = [NoSetup EXCEPT !.step = "find"]
  OBVIOUS
<1>2. /\ s \in SetupRecords /\ ~s.seen /\ s.step = "find"
      /\ s.action = NoSetup.action /\ s.pair = NoSetup.pair
  BY <1>1, NoSetupFits DEF SetupRecords, SetupSteps
<1>3. AdoptsOthers(s) /\ PairOfSaved(s)
  BY <1>2, NoSetupFits DEF AdoptsOthers, PairOfSaved, Decided
<1>4. QED BY <1>1, <1>2, <1>3, SetupContinues DEF StartSetup

\* A publish is given the saved folders, or a check goes on to the other role.
LEMMA CheckRoleAccepts ==
    ASSUME SetupInv, CheckRole
    PROVE  \/ Leave
           \/ \E s \in SetupRecords :
                 Continue(s) /\ ~s.seen /\ AdoptsOthers(s) /\ PairOfSaved(s)
           \/ /\ accepted' = saved /\ \A r \in Roles : saved[r] # NoFolder
              /\ setup' = NoSetup
              /\ UNCHANGED <<drive, configured, saved, late, tooLate>>
<1>1. /\ setup \in SetupRecords /\ setup.step = "check" /\ setup.role \in Roles
      /\ ~setup.seen /\ AdoptsOthers(setup) /\ PairOfSaved(setup)
      /\ saved \in Destinations
  BY DEF SetupInv, SetupTypes, SetupRecords, CheckRole, SeenNone
<1>2. CASE Leave
  BY <1>2
<1>3. CASE ~Leave
  <2>1. PICK f \in Found(setup.role) :
           /\ Found(setup.role) = {f} /\ Mapped(setup.role, f)
           /\ LET next == [setup EXCEPT !.pair[setup.role] = f, !.role = "review"] IN
              IF setup.role = "staging" THEN Continue(next)
              ELSE IF next.pair["staging"] = next.pair["review"] THEN Leave
              ELSE /\ accepted' = next.pair /\ setup' = NoSetup
                   /\ UNCHANGED <<drive, configured, saved, blocking, late, tooLate,
                                  setupFaults, folderChanges>>
    BY <1>3, Zenon DEF CheckRole
  <2>2. f \in Folders /\ f # NoFolder /\ f = saved[setup.role]
    BY <2>1, SetupConstantsOK DEF Found, Mapped
  <2>3. PICK pair \in Destinations : pair = [setup.pair EXCEPT ![setup.role] = f]
    BY <1>1, <2>2 DEF SetupRecords, Destinations
  <2>4. PICK next : next = [setup EXCEPT !.pair = pair, !.role = "review"]
    OBVIOUS
  <2>5. next = [setup EXCEPT !.pair[setup.role] = f, !.role = "review"]
    BY <1>1, <2>3, <2>4 DEF SetupRecords
  <2>6. /\ next \in SetupRecords /\ ~next.seen /\ next.step = "check"
        /\ next.role = "review" /\ next.pair = pair /\ next.action = setup.action
    BY <1>1, <2>3, <2>4 DEF SetupRecords, Roles
  <2>7. /\ \A r \in Roles \ {setup.role} : pair[r] = setup.pair[r]
        /\ pair[setup.role] = f
    BY <1>1, <2>3 DEF SetupRecords, Destinations
  <2>8. CASE setup.role = "staging"
    <3>1. Continue(next)
      BY <2>1, <2>5, <2>8
    <3>2. PairOfSaved(next)
      BY <2>2, <2>6, <2>7, <2>8 DEF PairOfSaved, Decided
    <3>3. AdoptsOthers(next)
      BY <1>1, <2>6 DEF AdoptsOthers
    <3>4. QED BY <2>6, <3>1, <3>2, <3>3
  <2>9. CASE setup.role = "review"
    <3>1. pair["staging"] = saved["staging"] /\ saved["staging"] # NoFolder
      BY <1>1, <2>7, <2>9 DEF PairOfSaved, Roles
    <3>2. pair = saved
      BY <1>1, <2>2, <2>3, <2>7, <2>9, <3>1 DEF Destinations, Roles
    <3>3. \A r \in Roles : saved[r] # NoFolder
      BY <2>2, <2>9, <3>1 DEF Roles
    <3>4. QED BY <1>3, <2>1, <2>5, <2>6, <2>9, <3>2, <3>3
  <2>10. QED BY <1>1, <2>8, <2>9 DEF Roles
<1>4. QED BY <1>2, <1>3

LEMMA CheckRoleKeeps ==
    ASSUME SetupInv, CheckRole
    PROVE  SetupInv'
<1>1. CASE Leave
  BY <1>1, SetupLeaves
<1>2. CASE \E s \in SetupRecords :
              Continue(s) /\ ~s.seen /\ AdoptsOthers(s) /\ PairOfSaved(s)
  BY <1>2, SetupContinues
<1>3. CASE /\ accepted' = saved /\ \A r \in Roles : saved[r] # NoFolder
           /\ setup' = NoSetup /\ UNCHANGED <<drive, configured, saved, late, tooLate>>
  <2>1. SetupTypes'
    BY <1>3, NoSetupFits DEF SetupInv, SetupTypes
  <2>2. OwnCounted' /\ MadeWithRole'
    BY <1>3 DEF SetupInv, OwnCounted, MadeWithRole, OwnOf, Found, Unmade
  <2>3. SeenNone' /\ PairOfSaved(setup)'
    BY <1>3, NoSetupFits DEF SeenNone, PairOfSaved, Decided
  <2>4. AdoptsOthers(setup)'
    <3>1. \A r \in Roles : NoSetup.action[r] # "adopt"
      BY DEF NoSetup
    <3>2. QED BY <1>3, <3>1 DEF AdoptsOthers
  <2>5. AcceptedSaved'
    BY <1>3 DEF AcceptedSaved
  <2>6. QED BY <2>1, <2>2, <2>3, <2>4, <2>5 DEF SetupInv
<1>4. QED BY <1>1, <1>2, <1>3, CheckRoleAccepts

\* The configuration is edited between two commands.
LEMMA EditKeeps ==
    ASSUME SetupInv, EditConfiguration
    PROVE  SetupInv'
<1>1. /\ setup.step = "idle"
      /\ UNCHANGED <<drive, saved, setup, late, tooLate, accepted>>
  BY DEF EditConfiguration
<1>2. configured' \in [Roles \cup {"parent"} -> Folders \cup {NoFolder}]
  BY DEF EditConfiguration, SetupInv, SetupTypes
<1>3. SetupTypes'
  BY <1>1, <1>2 DEF SetupInv, SetupTypes
<1>4. OwnCounted' /\ MadeWithRole'
  BY <1>1 DEF SetupInv, OwnCounted, MadeWithRole, OwnOf, Found, Unmade
<1>5. SeenNone' /\ PairOfSaved(setup)'
  BY <1>1 DEF SetupInv, SeenNone, PairOfSaved, Decided
<1>6. AdoptsOthers(setup)' /\ AcceptedSaved'
  BY <1>1 DEF SetupInv, AdoptsOthers, Unmade, AcceptedSaved
<1>7. QED BY <1>3, <1>4, <1>5, <1>6 DEF SetupInv

\* The user makes no folder look like one that the program made.
LEMMA ChangeFolderKeeps ==
    ASSUME SetupInv, NEW f \in Folders, ChangeFolder(f)
    PROVE  SetupInv'
<1>1. /\ drive \in [Folders -> FolderRecords] /\ MadeWithRole /\ setup \in SetupRecords
      /\ AdoptsOthers(setup) /\ PairOfSaved(setup) /\ SeenNone /\ late' \subseteq Roles
      /\ tooLate \in [Roles -> Nat]
      /\ UNCHANGED <<configured, saved, setup, tooLate, accepted>>
  BY DEF SetupInv, SetupTypes, ChangeFolder
<1>2. drive[f].state \notin {"absent", "trashed"} /\ drive[f] \in FolderRecords
  BY <1>1 DEF ChangeFolder, Unmade
<1>3. PICK new \in FolderRecords :
         /\ drive' = [drive EXCEPT ![f] = new] /\ new.state # "absent"
         /\ new.metadata = drive[f].metadata /\ new.own = drive[f].own
  <2>1. CASE \E state \in {"good", "bad", "trashed"} : drive' = [drive EXCEPT ![f].state = state]
    <3>1. PICK state \in {"good", "bad", "trashed"} :
             drive' = [drive EXCEPT ![f].state = state]
      BY <2>1
    <3>2. PICK new : new = [drive[f] EXCEPT !.state = state]
      OBVIOUS
    <3>3. /\ new \in FolderRecords /\ new.state # "absent"
          /\ new.metadata = drive[f].metadata /\ new.own = drive[f].own
      BY <1>2, <3>2 DEF FolderRecords, FolderStates
    <3>4. QED BY <3>1, <3>2, <3>3
  <2>2. CASE \E parent \in (Users \ {f}) \cup {NoFolder} :
                drive' = [drive EXCEPT ![f].parent = parent]
    <3>1. PICK parent \in (Users \ {f}) \cup {NoFolder} :
             drive' = [drive EXCEPT ![f].parent = parent]
      BY <2>2
    <3>2. PICK new : new = [drive[f] EXCEPT !.parent = parent]
      OBVIOUS
    <3>3. /\ new \in FolderRecords /\ new.state # "absent"
          /\ new.metadata = drive[f].metadata /\ new.own = drive[f].own
      BY <1>2, <3>2, SetupConstantsOK DEF FolderRecords
    <3>4. QED BY <3>1, <3>2, <3>3
  <2>3. QED BY <2>1, <2>2 DEF ChangeFolder
<1>4. /\ drive' \in [Folders -> FolderRecords] /\ drive'[f] = new
      /\ \A g \in Folders \ {f} : drive'[g] = drive[g]
  BY <1>1, <1>3
<1>5. MadeWithRole'
  BY <1>1, <1>3, <1>4 DEF MadeWithRole
<1>6. \A r \in Roles : OwnOf(r)' \subseteq OwnOf(r)
  BY <1>2, <1>3, <1>4 DEF OwnOf, Found, Unmade
<1>7. /\ OwnCounted'
      /\ \A r \in Roles : Cardinality(OwnOf(r)') <= Cardinality(OwnOf(r))
      /\ \A r \in Roles : IsFiniteSet(OwnOf(r)) /\ IsFiniteSet(OwnOf(r)')
  BY <1>1, <1>6, OwnShrinks DEF SetupInv, OwnCounted
<1>8. SeenNone'
  <2>1. SUFFICES ASSUME setup.seen
                 PROVE  /\ setup.step = "apply"
                        /\ Cardinality(OwnOf(setup.role)') <= tooLate[setup.role]
    BY <1>1 DEF SeenNone
  <2>2. PICK r \in Roles : r = setup.role
    BY <1>1 DEF SetupRecords
  <2>3. setup.step = "apply" /\ Cardinality(OwnOf(r)) <= tooLate[r]
    BY <1>1, <2>1, <2>2 DEF SeenNone
  <2>4. Cardinality(OwnOf(r)) \in Nat /\ Cardinality(OwnOf(r)') \in Nat
        /\ tooLate[r] \in Nat
    BY <1>1, <1>7, FS_CardinalityType
  <2>5. Cardinality(OwnOf(r)') <= tooLate[r]
    BY <1>7, <2>3, <2>4
  <2>6. QED BY <1>1, <2>2, <2>3, <2>5 DEF OwnOf, Found
<1>9. PICK s \in SetupRecords : s = setup
  BY <1>1
<1>10. AdoptsOthers(s) /\ PairOfSaved(s) /\ setup' = s
       /\ (s.seen => s.step = "apply" /\ SeenNone')
  BY <1>1, <1>8, <1>9 DEF SeenNone
<1>11. \A g \in Folders :
          drive[g].state # "absent" =>
              drive'[g].state # "absent" /\ drive'[g].own = drive[g].own
  BY <1>3, <1>4
<1>12. QED BY <1>1, <1>4, <1>5, <1>7, <1>10, <1>11, SetupMoves

\* What the invariant does not look at.
LEMMA SameFolders ==
    ASSUME SetupInv,
           UNCHANGED <<drive, configured, saved, setup, late, tooLate, accepted>>
    PROVE  SetupInv'
<1>1. SetupTypes'
  BY DEF SetupInv, SetupTypes
<1>2. OwnCounted' /\ MadeWithRole'
  BY DEF SetupInv, OwnCounted, MadeWithRole, OwnOf, Found, Unmade
<1>3. SeenNone' /\ PairOfSaved(setup)'
  BY DEF SetupInv, SeenNone, PairOfSaved, Decided, OwnOf, Found, Unmade, Differing
<1>4. AdoptsOthers(setup)' /\ AcceptedSaved'
  BY DEF SetupInv, AdoptsOthers, Unmade, AcceptedSaved
<1>5. QED BY <1>1, <1>2, <1>3, <1>4 DEF SetupInv

\* A setup that stops leaves the folders as they are.
LEMMA StopsKeeps ==
    ASSUME SetupInv, SetupStops
    PROVE  SetupInv'
<1>1. setup' = NoSetup /\ UNCHANGED <<drive, configured, saved, late, tooLate, accepted>>
  BY DEF SetupStops
<1>2. drive' \in [Folders -> FolderRecords] /\ MadeWithRole' /\ late' \subseteq Roles
  BY <1>1 DEF SetupInv, SetupTypes, MadeWithRole
<1>3. \A r \in Roles : OwnOf(r)' \subseteq OwnOf(r)
  BY <1>1 DEF OwnOf, Found, Unmade
<1>4. QED BY <1>1, <1>2, <1>3, NoSetupFits, NothingMade

-----------------------------------------------------------------------------
(* The folders: the theorems *)

\* Every step of a setup, of a check and of the user keeps the invariant.
LEMMA SetupStepKeepsInv ==
    ASSUME SetupInv, [SetupNext]_setupVars
    PROVE  SetupInv'
<1>1. CASE StartSetup \/ FindRole \/ CheckParent \/ PreflightRole
  BY <1>1, StartSetupKeeps, FindRoleKeeps, CheckParentKeeps, PreflightKeeps
<1>2. CASE Reuse \/ Adopt \/ LookBeforeCreate \/ Create \/ CreateLost
  BY <1>2, ReuseKeeps, AdoptKeeps, LookKeeps, CreateKeeps, CreateLostKeeps
<1>3. CASE SaveFolders \/ SetupStops \/ StartCheck \/ CheckRole \/ EditConfiguration
  BY <1>3, SaveKeeps, StopsKeeps, StartCheckKeeps, CheckRoleKeeps, EditKeeps
<1>4. CASE ToggleJournal \/ UNCHANGED setupVars
  BY <1>4, SameFolders DEF ToggleJournal, setupVars
<1>5. ASSUME NEW role \in Roles, CreateLands(role) PROVE SetupInv'
  BY <1>5, CreateLandsKeeps
<1>6. ASSUME NEW f \in Folders, ChangeFolder(f) PROVE SetupInv'
  BY <1>6, ChangeFolderKeeps
<1>7. QED BY <1>1, <1>2, <1>3, <1>4, <1>5, <1>6 DEF SetupNext

\* Before any setup the program has made no folder.
LEMMA SetupInitFits ==
    ASSUME SetupInit
    PROVE  SetupInv
<1>1. PICK marked \in [Users -> {"none", "other"}] :
         drive = [f \in Folders |->
                    IF f \in Users
                    THEN [NoFolderYet EXCEPT !.state = "good", !.metadata = marked[f]]
                    ELSE NoFolderYet]
  BY DEF SetupInit
<1>2. NoFolderYet \in FolderRecords /\ ~NoFolderYet.own
  BY DEF NoFolderYet, FolderRecords, FolderStates, FolderMetadata
<1>3. ASSUME NEW f \in Folders PROVE drive[f] \in FolderRecords /\ ~drive[f].own
  <2>1. CASE f \in Users
    <3>1. PICK metadata \in FolderMetadata : metadata = marked[f]
      BY <2>1 DEF FolderMetadata
    <3>2. drive[f] = [NoFolderYet EXCEPT !.state = "good", !.metadata = metadata]
      BY <1>1, <2>1, <3>1
    <3>3. QED BY <1>2, <3>2 DEF FolderRecords, FolderStates
  <2>2. CASE f \notin Users
    BY <1>1, <1>2, <2>2
  <2>3. QED BY <2>1, <2>2
<1>4. drive \in [Folders -> FolderRecords]
  BY <1>1, <1>3
<1>5. \A r \in Roles : OwnOf(r) = {}
  BY <1>3 DEF OwnOf, Found
<1>6. PICK none \in [Roles -> Nat] : none = [r \in Roles |-> 0]
  OBVIOUS
<1>7. /\ setup = NoSetup /\ saved = Nowhere /\ accepted = Nowhere /\ late = {}
      /\ tooLate = none /\ configured \in [Roles \cup {"parent"} -> Users \cup {NoFolder}]
  BY <1>6 DEF SetupInit
<1>8. SetupTypes
  BY <1>4, <1>7, NoSetupFits, SetupConstantsOK DEF SetupTypes
<1>9. OwnCounted
  <2>1. IsFiniteSet({}) /\ Cardinality({}) = 0
    BY FS_EmptySet
  <2>2. \A r \in Roles : tooLate[r] \in Nat
    BY <1>7
  <2>3. QED BY <1>5, <2>1, <2>2 DEF OwnCounted
<1>10. MadeWithRole
  BY <1>3 DEF MadeWithRole
<1>11. SeenNone /\ AdoptsOthers(setup) /\ PairOfSaved(setup) /\ AcceptedSaved
  BY <1>7, NoSetupFits DEF SeenNone, AcceptedSaved
<1>12. QED BY <1>8, <1>9, <1>10, <1>11 DEF SetupInv

LEMMA SetupInvHolds == SetupSpec => []SetupInv
<1>1. SetupInit => SetupInv
  BY SetupInitFits
<1>2. SetupInv /\ [SetupNext]_setupVars => SetupInv'
  BY SetupStepKeepsInv
<1>3. QED BY <1>1, <1>2, PTL DEF SetupSpec

\* However its creates fail, and wherever it is killed, setup makes one folder
\* of a role and another only where Google executes a create too late.
THEOREM OneFolderPerRoleHolds == SetupSpec => []OneFolderPerRole
<1>1. SetupInv => OneFolderPerRole
  BY DEF SetupInv, OwnCounted, OwnOf, OneFolderPerRole
<1>2. QED BY <1>1, SetupInvHolds, PTL

\* A step that saves or accepts folders does so for good.
LEMMA DestinationStays ==
    ASSUME SetupInv, [SetupNext]_setupVars
    PROVE  /\ \A role \in Roles : saved[role] # NoFolder => saved'[role] = saved[role]
           /\ accepted # Nowhere => accepted' = accepted
<1>1. saved' = saved \/ SaveFolders
  BY DEF SetupNext, StartSetup, FindRole, CheckParent, PreflightRole, Reuse, Adopt,
         LookBeforeCreate, Create, CreateLost, SetupStops, StartCheck, CheckRole,
         ToggleJournal, EditConfiguration, CreateLands, ChangeFolder, Continue, Leave,
         setupVars
<1>2. accepted' = accepted \/ (CheckRole /\ ~Leave)
  BY DEF SetupNext, StartSetup, FindRole, CheckParent, PreflightRole, Reuse, Adopt,
         LookBeforeCreate, Create, CreateLost, SetupStops, StartCheck, SaveFolders,
         ToggleJournal, EditConfiguration, CreateLands, ChangeFolder, Continue, Leave,
         setupVars
<1>3. CheckRole => accepted' = accepted \/ accepted' = saved
  BY CheckRoleAccepts DEF Continue, Leave
<1>4. accepted # Nowhere => accepted = saved
  BY DEF SetupInv, AcceptedSaved
<1>5. QED BY <1>1, <1>2, <1>3, <1>4, SavedStays

\* Whatever is configured, created or moved between them, every setup saves
\* the folders of the one before, and every publish is given those.
THEOREM DestinationKeptHolds == SetupSpec => DestinationKept
<1>1. SetupInv /\ [SetupNext]_setupVars =>
         [/\ \A role \in Roles : saved[role] # NoFolder => saved'[role] = saved[role]
          /\ accepted # Nowhere => accepted' = accepted]_setupVars
  BY DestinationStays
<1>2. QED BY <1>1, SetupInvHolds, PTL DEF SetupSpec, DestinationKept
===============================================================================
