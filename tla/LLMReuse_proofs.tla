--------------------------- MODULE LLMReuse_proofs ---------------------------
(***************************************************************************)
(* For any number of callers, attempts, take-overs, failures and crashes:  *)
(* the callers of one content are charged once, told one answer, and a     *)
(* lease is not taken from a caller before it ends.                        *)
(*                                                                         *)
(* The argument: the row's operation is chosen by the first insert and     *)
(* never changes, and whoever got past Begin carries it.  Every charge is  *)
(* made under it, so the unique key lets only one through; and the row,    *)
(* once completed, is never written again.                                 *)
(*                                                                         *)
(* Last, that every call ends: each of its steps lowers a number that the  *)
(* other callers, lapsing leases and crashes never raise.                  *)
(***************************************************************************)
EXTENDS LLMReuse, TLAPS

States == {"none", "in_progress", "completed", "failed_uncertain"}
Others == Callers \ Reusers

\* Types, without the bounds, which RetriesInv and NamesInv add.
Types ==
    /\ row \in [state : States, owner : Callers \cup {NoCaller}, op : Callers \cup {NoCaller},
                response : Callers \cup {NoCaller}]
    /\ unexpired \in BOOLEAN
    /\ charges \in [Callers -> Nat]
    /\ pc \in [Callers -> Pcs]
    /\ loc \in [Callers -> [op : Callers, round : Nat, attempt : Nat,
                            response : Callers \cup {NoCaller}]]

\* The row belongs to reusers, and has an answer exactly when it is completed.
RowShape ==
    /\ row.state # "none" => row.op \in Reusers
    /\ row.state = "in_progress" => row.owner \in Reusers
    /\ row.state = "completed" => row.response \in Reusers
    /\ row.state # "completed" => row.response = NoCaller
    /\ row.state = "completed" => charges[row.op] > 0

\* Reusers are charged under the row's operation only, and once.
ChargedOnce ==
    \A o \in Reusers : charges[o] > 0 => charges[o] = 1 /\ row.state # "none" /\ row.op = o

WorkPcs == {"reclaim", "checks", "call", "provider", "bill", "validate", "complete", "cleanup"}

\* What a reuser knows of the row, by where it is.
ReuserKnows(c) ==
    /\ pc[c] \in WorkPcs => row.state # "none" /\ loc[c].op = row.op
    /\ pc[c] \in {"validate", "complete"} => charges[row.op] > 0 /\ loc[c].response = c
    /\ pc[c] \in {"return", "answered"} => row.state = "completed" /\ loc[c].response = row.response

\* The others bill under an operation of their own and have no row.
OtherKnows(c) == loc[c].op = c /\ pc[c] \notin BeginPcs \cup {"complete"}

ReuseInv ==
    /\ Types /\ RowShape /\ ChargedOnce
    /\ \A c \in Reusers : ReuserKnows(c)
    /\ \A c \in Others : OtherKnows(c)

LEMMA ReuseInit == Init => ReuseInv
<1> SUFFICES ASSUME Init  PROVE ReuseInv
  OBVIOUS
<1>1. Types
  BY DEF Init, NoRow, Types, States, Pcs
<1>2. RowShape /\ ChargedOnce
  BY DEF Init, NoRow, RowShape, ChargedOnce, Reusers
<1>3. \A c \in Callers : ReuserKnows(c) /\ OtherKnows(c)
  BY DEF Init, ReuserKnows, OtherKnows, WorkPcs, BeginPcs
<1> QED BY <1>1, <1>2, <1>3 DEF ReuseInv, Reusers, Others

(***************************************************************************)
(* A caller that moves on, with what it carries.                           *)
(***************************************************************************)
Local == [op : Callers, round : Nat, attempt : Nat, response : Callers \cup {NoCaller}]

\* A step that writes neither the row nor the charges leaves to show only what
\* the caller knows where it arrives.
LEMMA Moving ==
    ASSUME ReuseInv, NEW c \in Callers, NEW at \in Pcs, NEW l \in Local,
           Become(c, at, l), UNCHANGED <<row, charges>>, unexpired' \in BOOLEAN,
           c \in Reusers => ReuserKnows(c)', c \in Others => OtherKnows(c)'
    PROVE  ReuseInv'
<1>1. Types'
  BY DEF ReuseInv, Types, Become, Local
<1>2. RowShape' /\ ChargedOnce'
  BY DEF ReuseInv, RowShape, ChargedOnce
<1>3. \A d \in Callers \ {c} : pc'[d] = pc[d] /\ loc'[d] = loc[d]
  BY DEF Become, ReuseInv, Types
<1>4. \A d \in Reusers : ReuserKnows(d)'
  BY <1>3 DEF ReuseInv, ReuserKnows, Reusers
<1>5. \A d \in Others : OtherKnows(d)'
  BY <1>3 DEF ReuseInv, OtherKnows, Others
<1> QED BY <1>1, <1>2, <1>4, <1>5 DEF ReuseInv

\* The same with nothing new to carry.
LEMMA Going ==
    ASSUME ReuseInv, NEW c \in Callers, NEW at \in Pcs,
           Goto(c, at), UNCHANGED <<row, charges>>, unexpired' \in BOOLEAN,
           c \in Reusers => ReuserKnows(c)', c \in Others => OtherKnows(c)'
    PROVE  ReuseInv'
<1>1. loc[c] \in Local /\ loc' = [loc EXCEPT ![c] = loc[c]]
  BY DEF Goto, ReuseInv, Types, Local
<1>2. Become(c, at, loc[c])
  BY <1>1 DEF Goto, Become
<1> QED BY <1>1, <1>2, Moving
(***************************************************************************)
(* The steps.                                                              *)
(***************************************************************************)
LEMMA KindOfCaller == \A c \in Callers : /\ c \in Reusers <=> Kind[c] = "reuse"
                                         /\ c \in Others <=> Kind[c] # "reuse"
BY DEF Reusers, Others

\* The pc a caller of Begin is at tells that it is a reuser.
LEMMA BeginIsReuse ==
    ASSUME ReuseInv, NEW c \in Callers, pc[c] \in BeginPcs \cup {"complete"}
    PROVE  c \in Reusers
BY DEF ReuseInv, OtherKnows, Others

LEMMA ContentionKeeps ==
    ASSUME ReuseInv, NEW c \in Reusers, Contention(c), UNCHANGED <<row, charges>>,
           unexpired' \in BOOLEAN
    PROVE  ReuseInv'
<1>0. c \in Callers /\ c \notin Others
  BY DEF Reusers, Others
<1>1. CASE loc[c].round < MaxContention
  <2> DEFINE l == [loc[c] EXCEPT !.round = @ + 1]
  <2>1. l \in Local
    BY <1>0 DEF ReuseInv, Types, Local
  <2>2. Become(c, "begin", l)
    BY <1>1 DEF Contention
  <2>3. pc'[c] = "begin"
    BY <1>0, <2>2 DEF Become, ReuseInv, Types
  <2> QED BY <1>0, <2>1, <2>2, <2>3, Moving DEF ReuserKnows, WorkPcs, Pcs, BeginPcs
<1>2. CASE ~(loc[c].round < MaxContention)
  <2>1. Goto(c, "failed")
    BY <1>2 DEF Contention
  <2>2. pc'[c] = "failed"
    BY <1>0, <2>1 DEF Goto, ReuseInv, Types
  <2> QED BY <1>0, <2>1, <2>2, Going DEF ReuserKnows, WorkPcs, Pcs, EndPcs
<1> QED BY <1>1, <1>2

LEMMA FoundIs ==
    ASSUME ReuseInv
    PROVE  /\ Found \in {"insert", "return", "wait", "recover", "reclaim"}
           /\ Found = "return" <=> row.state = "completed"
           /\ Found = "reclaim" <=> row.state = "failed_uncertain"
<1>1. row.state \in States
  BY DEF ReuseInv, Types
<1>2. CASE row.state = "none"
  BY <1>2 DEF Found
<1>3. CASE row.state = "completed"
  BY <1>3 DEF Found
<1>4. CASE row.state = "in_progress"
  BY <1>4 DEF Found
<1>5. CASE row.state = "failed_uncertain"
  BY <1>5 DEF Found
<1> QED BY <1>1, <1>2, <1>3, <1>4, <1>5 DEF States

LEMMA BeginReadKeeps ==
    ASSUME ReuseInv, NEW c \in Callers, BeginRead(c)
    PROVE  ReuseInv'
<1> DEFINE l == [loc[c] EXCEPT !.op = StoredOp(c), !.response = row.response]
<1>1. c \in Reusers /\ c \notin Others
  BY BeginIsReuse DEF BeginRead, BeginPcs, Others
<1>2. StoredOp(c) \in Callers
  BY DEF StoredOp, ReuseInv, RowShape, Reusers
<1>3. l \in Local
  <2>1. loc[c] \in Local /\ row.response \in Callers \cup {NoCaller}
    BY DEF ReuseInv, Types, Local
  <2> QED BY <1>2, <2>1 DEF Local
<1>4. /\ Found \in {"insert", "return", "wait", "recover", "reclaim"}
      /\ Found = "return" <=> row.state = "completed"
      /\ Found = "reclaim" <=> row.state = "failed_uncertain"
  BY FoundIs
<1>5. Become(c, Found, l) /\ UNCHANGED <<row, unexpired, charges>>
  BY DEF BeginRead, store, ledger
<1>6. pc'[c] = Found /\ loc'[c] = l
  BY <1>5 DEF Become, ReuseInv, Types
<1>7. l.op = StoredOp(c) /\ l.response = row.response
  BY DEF ReuseInv, Types
<1>8. ReuserKnows(c)'
  BY <1>4, <1>5, <1>6, <1>7 DEF ReuserKnows, WorkPcs, StoredOp
<1>9. Found \in Pcs
  BY <1>4 DEF Pcs, BeginPcs
<1> HIDE DEF l
<1> QED BY <1>1, <1>3, <1>5, <1>8, <1>9, Moving DEF ReuseInv, Types

\* Only an insert or a reclaim gives the row an owner; the operation is kept.
LEMMA AcquireKeeps ==
    ASSUME ReuseInv, NEW c \in Reusers, NEW op \in Reusers, NEW l \in Local,
           Acquire(c, op), Become(c, "checks", l), l.op = op, UNCHANGED charges,
           row.state = "none" \/ (row.state = "failed_uncertain" /\ row.op = op)
    PROVE  ReuseInv'
<1>0. c \in Callers /\ c \notin Others /\ op \in Callers
  BY DEF Reusers, Others
<1>1. /\ row' = [row EXCEPT !.state = "in_progress", !.owner = c, !.op = op]
      /\ pc' = [pc EXCEPT ![c] = "checks"] /\ loc' = [loc EXCEPT ![c] = l]
      /\ unexpired' = TRUE
  BY DEF Acquire, Become
<1>2. /\ row'.state = "in_progress" /\ row'.op = op /\ row'.owner = c
      /\ row'.response = NoCaller
  BY <1>1 DEF ReuseInv, Types, RowShape
<1>3. Types'
  BY <1>0, <1>1 DEF ReuseInv, Types, States, Local, Pcs
<1>4. RowShape'
  BY <1>2 DEF RowShape
<1>5. ChargedOnce'
  BY <1>2 DEF ReuseInv, ChargedOnce
<1>6. \A d \in Callers \ {c} : pc'[d] = pc[d] /\ loc'[d] = loc[d]
  BY <1>1 DEF ReuseInv, Types
<1>7. pc'[c] = "checks" /\ loc'[c] = l
  BY <1>0, <1>1 DEF ReuseInv, Types
<1>8. ASSUME NEW d \in Reusers  PROVE ReuserKnows(d)'
  <2>1. CASE d = c
    BY <1>2, <1>7, <2>1 DEF ReuserKnows, WorkPcs
  <2>2. CASE d # c
    <3>1. pc'[d] = pc[d] /\ loc'[d] = loc[d]
      BY <1>6, <2>2 DEF Reusers
    <3>2. ReuserKnows(d)
      BY DEF ReuseInv
    <3> QED BY <1>2, <3>1, <3>2 DEF ReuserKnows, WorkPcs
  <2> QED BY <2>1, <2>2
<1>9. \A d \in Others : OtherKnows(d)'
  BY <1>0, <1>6 DEF ReuseInv, OtherKnows, Others
<1> QED BY <1>3, <1>4, <1>5, <1>8, <1>9 DEF ReuseInv

LEMMA InsertKeeps ==
    ASSUME ReuseInv, NEW c \in Callers, Insert(c)
    PROVE  ReuseInv'
<1>1. c \in Reusers
  BY BeginIsReuse DEF Insert, BeginPcs
<1>2. CASE row.state = "none"
  <2> DEFINE l == [loc[c] EXCEPT !.op = c, !.round = 1]
  <2>1. l \in Local /\ l.op = c
    <3>1. loc[c] \in Local
      BY DEF ReuseInv, Types, Local
    <3> QED BY <3>1 DEF Local
  <2>2. Acquire(c, c) /\ Become(c, "checks", l) /\ UNCHANGED charges
    BY <1>2 DEF Insert, ledger
  <2> HIDE DEF l
  <2> QED BY <1>1, <1>2, <2>1, <2>2, AcquireKeeps
<1>3. CASE row.state # "none"
  BY <1>1, <1>3, ContentionKeeps DEF Insert, store, ledger, ReuseInv, Types
<1> QED BY <1>2, <1>3

LEMMA ReclaimKeeps ==
    ASSUME ReuseInv, NEW c \in Callers, Reclaim(c)
    PROVE  ReuseInv'
<1>1. c \in Reusers
  BY BeginIsReuse DEF Reclaim, BeginPcs
<1>2. CASE row.state = "failed_uncertain"
  <2> DEFINE l == [loc[c] EXCEPT !.round = 1]
  <2>1. row.op \in Reusers /\ loc[c].op = row.op
    BY <1>1, <1>2 DEF ReuseInv, RowShape, ReuserKnows, WorkPcs, Reclaim
  <2>2. l \in Local /\ l.op = row.op
    BY <2>1 DEF ReuseInv, Types, Local
  <2>3. Acquire(c, row.op) /\ Become(c, "checks", l) /\ UNCHANGED charges
    BY <1>2 DEF Reclaim, ledger
  <2> HIDE DEF l
  <2> QED BY <1>1, <1>2, <2>1, <2>2, <2>3, AcquireKeeps
<1>3. CASE row.state # "failed_uncertain"
  BY <1>1, <1>3, ContentionKeeps DEF Reclaim, store, ledger, ReuseInv, Types
<1> QED BY <1>2, <1>3

\* A row that is given up: its operation stays, for the next to take over.
LEMMA GiveUpKeeps ==
    ASSUME ReuseInv, NEW c \in Callers, NEW at \in Pcs, NEW l \in Local,
           row.state = "in_progress", row' = [row EXCEPT !.state = "failed_uncertain"],
           Become(c, at, l), UNCHANGED <<unexpired, charges>>,
           at \in {"begin", "failed"}, c \in Others => l.op = c /\ at = "failed"
    PROVE  ReuseInv'
<1>1. row'.state = "failed_uncertain" /\ row'.op = row.op /\ row'.response = NoCaller
  BY DEF ReuseInv, Types, RowShape
<1>2. Types'
  BY DEF ReuseInv, Types, States, Local, Become
<1>3. RowShape' /\ ChargedOnce'
  BY <1>1 DEF ReuseInv, RowShape, ChargedOnce
<1>4. pc'[c] = at /\ loc'[c] = l /\ \A d \in Callers \ {c} : pc'[d] = pc[d] /\ loc'[d] = loc[d]
  BY DEF Become, ReuseInv, Types
<1>5. ASSUME NEW d \in Reusers  PROVE ReuserKnows(d)'
  <2>1. d \in Callers /\ ReuserKnows(d)
    BY DEF ReuseInv, Reusers
  <2> QED BY <1>1, <1>4, <2>1 DEF ReuserKnows, WorkPcs
<1>6. \A d \in Others : OtherKnows(d)'
  BY <1>4 DEF ReuseInv, OtherKnows, Others, BeginPcs
<1> QED BY <1>2, <1>3, <1>5, <1>6 DEF ReuseInv

LEMMA RecoverKeeps ==
    ASSUME ReuseInv, NEW c \in Callers, Recover(c)
    PROVE  ReuseInv'
<1>1. c \in Reusers /\ c \notin Others
  BY BeginIsReuse DEF Recover, BeginPcs, Others
<1>2. CASE Stale
  <2>1. row.state = "in_progress" /\ row' = [row EXCEPT !.state = "failed_uncertain"]
    BY <1>2 DEF Recover, Stale
  <2>2. PICK at \in {"begin", "failed"}, l \in Local : Become(c, at, l)
    <3> DEFINE next == [loc[c] EXCEPT !.round = @ + 1]
    <3>1. loc[c] \in Local /\ next \in Local
      BY DEF ReuseInv, Types, Local
    <3>2. loc' = loc => loc' = [loc EXCEPT ![c] = loc[c]]
      BY DEF ReuseInv, Types
    <3>3. Become(c, "begin", next) \/ Become(c, "failed", loc[c])
      BY <3>2 DEF Recover, Contention, Goto, Become
    <3> HIDE DEF next
    <3> QED BY <3>1, <3>3
  <2>3. at \in Pcs /\ UNCHANGED <<unexpired, charges>>
    BY DEF Pcs, BeginPcs, EndPcs, Recover, ledger
  <2> QED BY <1>1, <2>1, <2>2, <2>3, GiveUpKeeps
<1>3. CASE ~Stale
  BY <1>1, <1>3, ContentionKeeps DEF Recover, ledger, ReuseInv, Types
<1> QED BY <1>2, <1>3

LEMMA CleanUpKeeps ==
    ASSUME ReuseInv, NEW c \in Callers, CleanUp(c)
    PROVE  ReuseInv'
<1>1. Goto(c, "failed") /\ UNCHANGED <<unexpired, charges>> /\ "failed" \in Pcs
  BY DEF CleanUp, ledger, Pcs, EndPcs
<1>2. CASE Owns(c) /\ CanCleanUp(c)
  <2>1. row.state = "in_progress" /\ row' = [row EXCEPT !.state = "failed_uncertain"]
    BY <1>2 DEF CleanUp, Owns
  <2>2. loc[c] \in Local /\ Become(c, "failed", loc[c])
    BY <1>1 DEF ReuseInv, Types, Local, Goto, Become
  <2>3. c \in Others => loc[c].op = c
    BY DEF ReuseInv, OtherKnows
  <2> QED BY <1>1, <2>1, <2>2, <2>3, GiveUpKeeps
<1>3. CASE ~(Owns(c) /\ CanCleanUp(c))
  <2>1. row' = row /\ pc'[c] = "failed" /\ loc' = loc /\ unexpired' \in BOOLEAN
    BY <1>1, <1>3 DEF CleanUp, Goto, ReuseInv, Types
  <2> QED BY <1>1, <2>1, Going DEF ReuserKnows, OtherKnows, WorkPcs, BeginPcs, ReuseInv
<1> QED BY <1>2, <1>3

\* Bill: a charge under the operation the caller carries, unless it is there.
LEMMA BillKeeps ==
    ASSUME ReuseInv, NEW c \in Callers, Bill(c)
    PROVE  ReuseInv'
<1> DEFINE at == IF Kind[c] = "vision" THEN "return" ELSE "validate"
           l == [loc[c] EXCEPT !.response = c, !.attempt = 1]
           op == loc[c].op
<1>1. /\ row' = row /\ unexpired' = unexpired /\ Become(c, at, l)
      /\ charges' = IF charges[op] > 0 THEN charges ELSE [charges EXCEPT ![op] = @ + 1]
  BY DEF Bill, store, Billed
<1>2. l \in Local /\ l.op = op /\ l.response = c /\ op \in Callers
  <2>1. loc[c] \in Local
    BY DEF ReuseInv, Types, Local
  <2> QED BY <2>1 DEF Local
<1>3. pc'[c] = at /\ loc'[c] = l /\ \A d \in Callers \ {c} : pc'[d] = pc[d] /\ loc'[d] = loc[d]
  BY <1>1 DEF Become, ReuseInv, Types
<1> HIDE DEF l, op
<1>4. /\ charges' \in [Callers -> Nat] /\ charges'[op] > 0
      /\ \A o \in Callers : charges'[o] # charges[o] => o = op /\ charges[o] = 0 /\ charges'[o] = 1
  BY <1>1, <1>2 DEF ReuseInv, Types
<1>5. at \in Pcs /\ Types'
  BY <1>1, <1>2, <1>4 DEF ReuseInv, Types, Become, Local, Pcs, BeatPcs
<1>6. CASE c \in Reusers
  <2>1. row.state # "none" /\ op = row.op /\ at = "validate" /\ c \notin Others
    BY <1>6 DEF ReuseInv, ReuserKnows, WorkPcs, Bill, op, Reusers, Others
  <2>2. charges'[row.op] > 0
    BY <1>4, <2>1
  <2>3. RowShape'
    BY <1>1, <2>2 DEF ReuseInv, RowShape
  <2>4. ChargedOnce'
    BY <1>1, <1>4, <2>1 DEF ReuseInv, ChargedOnce, Reusers
  <2>5. ASSUME NEW d \in Reusers  PROVE ReuserKnows(d)'
    BY <1>1, <1>2, <1>3, <2>1, <2>2 DEF ReuseInv, ReuserKnows, WorkPcs, Reusers
  <2>6. \A d \in Others : OtherKnows(d)'
    BY <1>3, <2>1 DEF ReuseInv, OtherKnows, Others
  <2> QED BY <1>5, <2>3, <2>4, <2>5, <2>6 DEF ReuseInv
<1>7. CASE c \in Others
  <2>1. op = c /\ c \notin Reusers
    BY <1>7 DEF ReuseInv, OtherKnows, op, Others
  <2>2. \A o \in Reusers : charges'[o] = charges[o]
    BY <1>4, <2>1 DEF Reusers
  <2>3. RowShape' /\ ChargedOnce'
    BY <1>1, <2>2 DEF ReuseInv, RowShape, ChargedOnce
  <2>4. ASSUME NEW d \in Reusers  PROVE ReuserKnows(d)'
    <3>1. d \in Callers /\ d # c /\ ReuserKnows(d)
      BY <2>1 DEF ReuseInv, Reusers
    <3>2. row.state # "none" => charges'[row.op] = charges[row.op]
      BY <2>2 DEF ReuseInv, RowShape
    <3> QED BY <1>1, <1>3, <3>1, <3>2 DEF ReuserKnows, WorkPcs
  <2>5. \A d \in Others : OtherKnows(d)'
    BY <1>2, <1>3, <2>1 DEF ReuseInv, OtherKnows, Others, BeginPcs
  <2> QED BY <1>5, <2>3, <2>4, <2>5 DEF ReuseInv
<1> QED BY <1>6, <1>7 DEF Reusers, Others

\* Complete: the first publication is the last.
LEMMA CompleteKeeps ==
    ASSUME ReuseInv, NEW c \in Callers, Complete(c)
    PROVE  ReuseInv'
<1>1. c \in Reusers /\ c \notin Others
  BY BeginIsReuse DEF Complete, BeginPcs, Others
<1>2. /\ row.state # "none" /\ loc[c].op = row.op /\ charges[row.op] > 0 /\ loc[c].response = c
      /\ row.op \in Reusers
  BY <1>1 DEF ReuseInv, RowShape, ReuserKnows, WorkPcs, Complete
<1>3. CASE Owns(c)
  <2>1. /\ row' = [row EXCEPT !.state = "completed", !.response = c]
        /\ unexpired' = FALSE /\ Goto(c, "return") /\ charges' = charges
        /\ row.state = "in_progress"
    BY <1>2, <1>3 DEF Complete, ledger, Owns
  <2>2. row'.state = "completed" /\ row'.response = c /\ row'.op = row.op
    BY <2>1 DEF ReuseInv, Types
  <2>3. Types'
    BY <2>1 DEF ReuseInv, Types, States, Goto, Pcs
  <2>4. RowShape' /\ ChargedOnce'
    BY <1>1, <1>2, <2>1, <2>2 DEF ReuseInv, RowShape, ChargedOnce
  <2>5. /\ pc'[c] = "return" /\ loc' = loc
        /\ \A d \in Callers \ {c} : pc'[d] = pc[d]
    BY <2>1 DEF Goto, ReuseInv, Types
  <2>6. ASSUME NEW d \in Reusers  PROVE ReuserKnows(d)'
    <3>1. d \in Callers /\ ReuserKnows(d)
      BY DEF ReuseInv, Reusers
    <3> QED BY <1>2, <2>1, <2>2, <2>5, <3>1 DEF ReuserKnows, WorkPcs
  <2>7. \A d \in Others : OtherKnows(d)'
    BY <1>1, <2>5 DEF ReuseInv, OtherKnows, Others
  <2> QED BY <2>3, <2>4, <2>6, <2>7 DEF ReuseInv
<1>4. CASE ~Owns(c)
  <2>1. Goto(c, "cleanup") /\ UNCHANGED <<row, unexpired, charges, loc>> /\ pc'[c] = "cleanup"
    BY <1>4 DEF Complete, store, ledger, Goto, ReuseInv, Types
  <2> QED BY <1>1, <1>2, <2>1, Going DEF ReuserKnows, WorkPcs, Pcs, ReuseInv, Types
<1> QED BY <1>3, <1>4

\* What is left to a caller that goes from one place to another and writes neither
\* the row nor a charge.
LEMMA OnTheWayKeeps ==
    ASSUME ReuseInv, NEW c \in Callers,
           \/ Start(c) \/ WaitTimesOut(c) \/ BeginFails(c) \/ Checks(c) \/ CallProvider(c)
           \/ ProviderAnswers(c) \/ ProviderRefuses(c) \/ Interrupted(c) \/ BillFails(c)
           \/ Validate(c) \/ CompleteFails(c) \/ Return(c) \/ CleanUpFails(c)
    PROVE  ReuseInv'
<1>1. PICK at \in Pcs :
         /\ Goto(c, at) /\ UNCHANGED <<row, unexpired, charges>>
         /\ \/ at = "failed"
            \/ at = "begin" /\ Kind[c] = "reuse"
            \/ at = "checks" /\ Kind[c] # "reuse"
            \/ at \in {"call", "cleanup", "provider", "bill"} /\ pc[c] \in WorkPcs
            \/ at = "complete" /\ pc[c] = "validate" /\ Kind[c] = "reuse"
            \/ at = "return" /\ Kind[c] # "reuse"
            \/ at = "answered" /\ pc[c] = "return"
  BY DEF Start, WaitTimesOut, BeginFails, Checks, CallProvider, ProviderAnswers, ProviderRefuses,
         Interrupted, BillFails, Validate, CompleteFails, Return, CleanUpFails,
         store, ledger, Pcs, BeginPcs, BeatPcs, EndPcs, WorkPcs
<1>2. pc'[c] = at /\ loc' = loc
  BY <1>1 DEF Goto, ReuseInv, Types
<1>3. ASSUME c \in Reusers  PROVE ReuserKnows(c)'
  <2>1. ReuserKnows(c) /\ Kind[c] = "reuse"
    BY <1>3, KindOfCaller DEF ReuseInv
  <2> QED BY <1>1, <1>2, <2>1 DEF ReuserKnows, WorkPcs
<1>4. ASSUME c \in Others  PROVE OtherKnows(c)'
  <2>1. OtherKnows(c) /\ Kind[c] # "reuse"
    BY <1>4, KindOfCaller DEF ReuseInv
  <2> QED BY <1>1, <1>2, <2>1 DEF OtherKnows, BeginPcs
<1> QED BY <1>1, <1>3, <1>4, Going DEF ReuseInv, Types

LEMMA ProviderErrsKeeps ==
    ASSUME ReuseInv, NEW c \in Callers, ProviderErrs(c)
    PROVE  ReuseInv'
<1>1. PICK at \in {"call", "cleanup"}, n \in Nat : Become(c, at, [loc[c] EXCEPT !.attempt = n])
  <2>1. loc[c].attempt + 1 \in Nat
    BY DEF ReuseInv, Types
  <2>2. \/ Become(c, "call", [loc[c] EXCEPT !.attempt = @ + 1])
        \/ Become(c, "cleanup", [loc[c] EXCEPT !.attempt = 1])
    BY DEF ProviderErrs
  <2> QED BY <2>1, <2>2
<1> DEFINE l == [loc[c] EXCEPT !.attempt = n]
<1>2. /\ UNCHANGED <<row, unexpired, charges>> /\ at \in Pcs /\ pc[c] = "provider"
  BY DEF ProviderErrs, store, Pcs, BeatPcs
<1>3. l \in Local /\ l.op = loc[c].op /\ pc'[c] = at /\ loc'[c] = l
  <2>1. loc[c] \in Local
    BY DEF ReuseInv, Types, Local
  <2>2. l \in Local /\ l.op = loc[c].op
    BY <2>1 DEF Local
  <2> QED BY <1>1, <2>2 DEF Become, ReuseInv, Types
<1>4. c \in Reusers => ReuserKnows(c)'
  BY <1>1, <1>2, <1>3 DEF ReuseInv, ReuserKnows, WorkPcs
<1>5. c \in Others => OtherKnows(c)'
  BY <1>1, <1>2, <1>3 DEF ReuseInv, OtherKnows, BeginPcs
<1> HIDE DEF l
<1> QED BY <1>1, <1>2, <1>3, <1>4, <1>5, Moving DEF ReuseInv, Types, l

LEMMA WaitEndsKeeps ==
    ASSUME ReuseInv, NEW c \in Callers, WaitEnds(c)
    PROVE  ReuseInv'
<1>1. c \in Reusers /\ c \notin Others
  BY BeginIsReuse DEF WaitEnds, BeginPcs, Others
<1>2. UNCHANGED <<row, unexpired, charges>>
  BY DEF WaitEnds, store, ledger
<1>3. CASE row.state = "completed" /\ Become(c, "return", [loc[c] EXCEPT !.response = row.response])
  <2> DEFINE l == [loc[c] EXCEPT !.response = row.response]
  <2>1. l \in Local /\ l.response = row.response /\ pc'[c] = "return" /\ loc'[c] = l
    <3>1. loc[c] \in Local /\ row.response \in Callers \cup {NoCaller}
      BY DEF ReuseInv, Types, Local
    <3>2. l \in Local /\ l.response = row.response
      BY <3>1 DEF Local
    <3> QED BY <1>3, <3>2 DEF Become, ReuseInv, Types
  <2>2. ReuserKnows(c)'
    BY <1>2, <1>3, <2>1 DEF ReuserKnows, WorkPcs
  <2>3. "return" \in Pcs
    BY DEF Pcs
  <2> HIDE DEF l
  <2> QED BY <1>1, <1>2, <1>3, <2>1, <2>2, <2>3, Moving DEF ReuseInv, Types, l
<1>4. CASE row.state = "failed_uncertain" /\ Contention(c)
  BY <1>1, <1>2, <1>4, ContentionKeeps DEF ReuseInv, Types
<1> QED BY <1>3, <1>4 DEF WaitEnds

\* Heartbeats, cancellations and lapsing leases leave the row's fields, the
\* charges and the callers alone.
LEMMA AroundKeeps ==
    ASSUME ReuseInv, UNCHANGED <<row, charges, pc, loc>>, unexpired' \in BOOLEAN
    PROVE  ReuseInv'
BY DEF ReuseInv, Types, RowShape, ChargedOnce, ReuserKnows, OtherKnows

LEMMA CrashKeeps == ASSUME ReuseInv, Crash  PROVE ReuseInv'
<1>1. /\ UNCHANGED <<row, unexpired, charges, loc>>
      /\ pc' = [c \in Callers |-> IF Running(c) THEN "dead" ELSE pc[c]]
  BY DEF Crash, store, ledger
<1>2. pc' \in [Callers -> Pcs] /\ \A c \in Callers : pc'[c] \in {"dead", pc[c]}
  BY <1>1 DEF ReuseInv, Types, Pcs, EndPcs
<1>3. Types' /\ RowShape' /\ ChargedOnce'
  BY <1>1, <1>2 DEF ReuseInv, Types, RowShape, ChargedOnce
<1>4. ASSUME NEW c \in Reusers  PROVE ReuserKnows(c)'
  BY <1>1, <1>2 DEF ReuseInv, ReuserKnows, WorkPcs, Reusers
<1>5. ASSUME NEW c \in Others  PROVE OtherKnows(c)'
  BY <1>1, <1>2 DEF ReuseInv, OtherKnows, BeginPcs, Others
<1> QED BY <1>3, <1>4, <1>5 DEF ReuseInv

LEMMA StepKeeps == ASSUME ReuseInv, NEW c \in Callers, Step(c)  PROVE ReuseInv'
BY BeginReadKeeps, InsertKeeps, ReclaimKeeps, RecoverKeeps, WaitEndsKeeps, ProviderErrsKeeps,
   BillKeeps, CompleteKeeps, CleanUpKeeps, OnTheWayKeeps DEF Step

LEMMA ReuseNext == ReuseInv /\ [Next]_vars => ReuseInv'
<1> SUFFICES ASSUME ReuseInv, [Next]_vars  PROVE ReuseInv'
  OBVIOUS
<1>1. ASSUME NEW c \in Callers, Step(c)  PROVE ReuseInv'
  BY <1>1, StepKeeps
<1>2. ASSUME NEW c \in Callers, Heartbeat(c) \/ HeartbeatFails(c) \/ Cancel(c)  PROVE ReuseInv'
  BY <1>2, AroundKeeps DEF Heartbeat, HeartbeatFails, Cancel, store, ledger, ReuseInv, Types
<1>3. CASE LeaseLapses
  BY <1>3, AroundKeeps DEF LeaseLapses, ledger
<1>4. CASE Crash
  BY <1>4, CrashKeeps
<1>5. CASE UNCHANGED vars
  BY <1>5, AroundKeeps DEF vars, ReuseInv, Types
<1> QED BY <1>1, <1>2, <1>3, <1>4, <1>5 DEF Next

LEMMA ReuseInvariant == Spec => []ReuseInv
BY ReuseInit, ReuseNext, PTL DEF Spec

(***************************************************************************)
(* One content, one charge, one answer.                                    *)
(***************************************************************************)
Charged == {x \in Reusers \X (1..2) : x[2] <= charges[x[1]]}
Told == {<<c, loc[c].response>> : c \in {d \in Reusers : pc[d] = "answered"}}

LEMMA ContentInit == Init => Content!Init
<1> SUFFICES ASSUME Init  PROVE Charged = {} /\ row.response = NoCaller /\ Told = {}
  BY DEF Content!Init, Charged, Told
<1>1. Charged = {}
  BY DEF Init, Charged, Reusers
<1>2. row.response = NoCaller
  BY DEF Init, NoRow
<1>3. Told = {}
  BY DEF Init, Told, Reusers
<1> QED BY <1>1, <1>2, <1>3

\* With no charge but one under the row's operation, the abstract charges are
\* none or that one.
LEMMA ChargedIs ==
    ASSUME ReuseInv
    PROVE  Charged = {} \/ (row.op \in Reusers /\ charges[row.op] = 1 /\ Charged = {<<row.op, 1>>})
<1>1. CASE \E o \in Reusers : charges[o] > 0
  <2>1. row.op \in Reusers /\ charges[row.op] = 1
    BY <1>1 DEF ReuseInv, ChargedOnce
  <2>2. ASSUME NEW x \in Charged  PROVE x = <<row.op, 1>>
    BY <2>1 DEF Charged, ReuseInv, ChargedOnce, Types, Reusers
  <2>3. <<row.op, 1>> \in Charged
    BY <2>1 DEF Charged
  <2> QED BY <2>1, <2>2, <2>3
<1>2. CASE ~\E o \in Reusers : charges[o] > 0
  BY <1>2 DEF Charged, ReuseInv, Types, Reusers
<1> QED BY <1>1, <1>2

Answered == {d \in Reusers : pc[d] = "answered"}

\* A step that leaves the charges, the answer and the callers who got it alone.
LEMMA Stutters ==
    ASSUME ReuseInv, UNCHANGED <<charges, Answered>>, row'.response = row.response,
           \A c \in Answered : loc'[c] = loc[c]
    PROVE  UNCHANGED <<Charged, row.response, Told>>
BY DEF Charged, Told, Answered

\* Most steps of one caller: they lead to no "answered" and carry none away.
LEMMA MovesQuietly ==
    ASSUME ReuseInv, NEW c \in Callers, NEW at, NEW l, Become(c, at, l),
           pc[c] # "answered", at # "answered" \/ c \notin Reusers
    PROVE  UNCHANGED Answered /\ \A d \in Answered : loc'[d] = loc[d]
<1>1. /\ \A d \in Callers \ {c} : pc'[d] = pc[d] /\ loc'[d] = loc[d]
      /\ pc'[c] = at
  BY DEF Become, ReuseInv, Types
<1> QED BY <1>1 DEF Answered, Reusers

LEMMA GoesQuietly ==
    ASSUME ReuseInv, NEW c \in Callers, NEW at, Goto(c, at),
           pc[c] # "answered", at # "answered" \/ c \notin Reusers
    PROVE  UNCHANGED Answered /\ \A d \in Answered : loc'[d] = loc[d]
<1>1. \A d \in Callers \ {c} : pc'[d] = pc[d]
  BY DEF Goto, ReuseInv, Types
<1>2. pc'[c] = at /\ loc' = loc
  BY DEF Goto, ReuseInv, Types
<1> QED BY <1>1, <1>2 DEF Answered, Reusers

LEMMA ContentionQuietly ==
    ASSUME ReuseInv, NEW c \in Callers, Contention(c), pc[c] # "answered"
    PROVE  UNCHANGED Answered /\ \A d \in Answered : loc'[d] = loc[d]
<1>1. CASE loc[c].round < MaxContention
  <2>1. Become(c, "begin", [loc[c] EXCEPT !.round = @ + 1])
    BY <1>1 DEF Contention
  <2> QED BY <2>1, MovesQuietly
<1>2. CASE ~(loc[c].round < MaxContention)
  <2>1. Goto(c, "failed")
    BY <1>2 DEF Contention
  <2> QED BY <2>1, GoesQuietly
<1> QED BY <1>1, <1>2

\* Begin, the provider and the lease: nothing a caller of OneCall would see.
LEMMA BeginStutters ==
    ASSUME ReuseInv, NEW c \in Callers,
           \/ BeginRead(c) \/ Insert(c) \/ Reclaim(c) \/ Recover(c) \/ WaitEnds(c)
    PROVE  UNCHANGED <<Charged, row.response, Told>>
<1>1. pc[c] # "answered" /\ charges' = charges
  BY DEF BeginRead, Insert, Reclaim, Recover, WaitEnds, ledger
<1>2. row'.response = row.response
  BY DEF BeginRead, Insert, Reclaim, Recover, WaitEnds, Acquire, store, ReuseInv, Types
<1>3. \/ Contention(c)
      \/ \E at \in Pcs \ {"answered"}, l \in {loc'[c]} : Become(c, at, l)
  <2>1. ASSUME NEW at \in Pcs, NEW l, Become(c, at, l)  PROVE loc'[c] = l
    BY <2>1 DEF Become, ReuseInv, Types
  <2>2. CASE BeginRead(c)
    <3>1. Found \in Pcs \ {"answered"}
      BY FoundIs DEF Pcs, BeginPcs
    <3> QED BY <2>1, <2>2, <3>1 DEF BeginRead
  <2>3. "checks" \in Pcs \ {"answered"} /\ "return" \in Pcs \ {"answered"}
    BY DEF Pcs
  <2>4. CASE Insert(c) \/ Reclaim(c) \/ WaitEnds(c)
    BY <2>1, <2>3, <2>4 DEF Insert, Reclaim, WaitEnds
  <2>5. CASE Recover(c)
    BY <2>5 DEF Recover
  <2> QED BY <2>2, <2>4, <2>5
<1>4. UNCHANGED Answered /\ \A d \in Answered : loc'[d] = loc[d]
  BY <1>1, <1>3, ContentionQuietly, MovesQuietly
<1> QED BY <1>1, <1>2, <1>4, Stutters

LEMMA CallStutters ==
    ASSUME ReuseInv, NEW c \in Callers,
           \/ Start(c) \/ WaitTimesOut(c) \/ BeginFails(c) \/ Checks(c) \/ CallProvider(c)
           \/ ProviderAnswers(c) \/ ProviderRefuses(c) \/ ProviderErrs(c) \/ Interrupted(c)
           \/ BillFails(c) \/ Validate(c) \/ CompleteFails(c) \/ CleanUp(c) \/ CleanUpFails(c)
    PROVE  UNCHANGED <<Charged, row.response, Told>>
<1>1. pc[c] # "answered" /\ charges' = charges
  BY DEF Start, WaitTimesOut, BeginFails, Checks, CallProvider, ProviderAnswers, ProviderRefuses,
         ProviderErrs, Interrupted, BillFails, Validate, CompleteFails, CleanUp, CleanUpFails,
         ledger, BeginPcs, BeatPcs
<1>2. row'.response = row.response
  BY DEF Start, WaitTimesOut, BeginFails, Checks, CallProvider, ProviderAnswers, ProviderRefuses,
         ProviderErrs, Interrupted, BillFails, Validate, CompleteFails, CleanUp, CleanUpFails,
         store, ReuseInv, Types
<1>3. \/ \E at \in Pcs \ {"answered"} : Goto(c, at)
      \/ ProviderErrs(c)
  BY DEF Start, WaitTimesOut, BeginFails, Checks, CallProvider, ProviderAnswers, ProviderRefuses,
         Interrupted, BillFails, Validate, CompleteFails, CleanUp, CleanUpFails,
         Pcs, BeginPcs, BeatPcs, EndPcs
<1>4. UNCHANGED Answered /\ \A d \in Answered : loc'[d] = loc[d]
  BY <1>1, <1>3, GoesQuietly, MovesQuietly DEF ProviderErrs
<1> QED BY <1>1, <1>2, <1>4, Stutters

LEMMA BillCharges ==
    ASSUME ReuseInv, ReuseInv', NEW c \in Callers, Bill(c)
    PROVE  /\ UNCHANGED <<row.response, Told>>
           /\ Charged' = Charged \/ (Charged = {} /\ \E x \in Reusers \X (1..2) : Charged' = {x})
<1>1. row' = row /\ pc[c] = "bill"
  BY DEF Bill, store
<1>2. UNCHANGED Answered /\ \A d \in Answered : loc'[d] = loc[d]
  <2> DEFINE at == IF Kind[c] = "vision" THEN "return" ELSE "validate"
             l == [loc[c] EXCEPT !.response = c, !.attempt = 1]
  <2>1. Become(c, at, l) /\ at # "answered"
    BY DEF Bill
  <2> HIDE DEF at, l
  <2> QED BY <1>1, <2>1, MovesQuietly
<1>3. UNCHANGED Told
  BY <1>2 DEF Told, Answered
<1>4. CASE Charged = {}
  <2>1. Charged' = {} \/ \E x \in Reusers \X (1..2) : Charged' = {x}
    <3>1. Charged' = {} \/ (row.op \in Reusers /\ Charged' = {<<row.op, 1>>})
      <4>1. (Charged = {} \/ (row.op \in Reusers /\ charges[row.op] = 1 /\ Charged = {<<row.op, 1>>}))'
        BY ChargedIs, PTL
      <4> QED BY <1>1, <4>1
    <3> QED BY <3>1
  <2> QED BY <1>1, <1>3, <1>4, <2>1
<1>5. CASE Charged # {}
  <2>1. row.op \in Reusers /\ charges[row.op] = 1
    BY <1>5, ChargedIs
  <2>2. c \in Reusers => loc[c].op = row.op
    BY <1>1 DEF ReuseInv, ReuserKnows, WorkPcs
  <2>3. c \in Others => loc[c].op \notin Reusers
    BY DEF ReuseInv, OtherKnows, Others
  <2>4. \A o \in Reusers : charges'[o] = charges[o]
    <3>1. loc[c].op \in Callers /\ charges \in [Callers -> Nat]
      BY DEF ReuseInv, Types
    <3>2. \/ charges' = charges
          \/ charges' = [charges EXCEPT ![loc[c].op] = @ + 1] /\ charges[loc[c].op] = 0
      BY <3>1 DEF Bill, Billed
    <3>3. CASE c \in Reusers
      BY <2>1, <2>2, <3>2, <3>3
    <3>4. CASE c \in Others
      BY <2>3, <3>1, <3>2, <3>4 DEF Reusers
    <3> QED BY <3>3, <3>4 DEF Reusers, Others
  <2>5. Charged' = Charged
    BY <2>4 DEF Charged
  <2> QED BY <1>1, <1>3, <2>5
<1> QED BY <1>4, <1>5

LEMMA CompletePublishes ==
    ASSUME ReuseInv, NEW c \in Callers, Complete(c)
    PROVE  /\ UNCHANGED <<Charged, Told>>
           /\ \/ row'.response = row.response
              \/ /\ Charged # {} /\ row.response = NoCaller
                 /\ \E a \in Reusers : row'.response = a
<1>1. c \in Reusers /\ pc[c] = "complete" /\ charges' = charges
  BY BeginIsReuse DEF Complete, BeginPcs, ledger
<1>2. \E at \in {"return", "cleanup"} : Goto(c, at)
  BY DEF Complete
<1>3. UNCHANGED Answered /\ \A d \in Answered : loc'[d] = loc[d]
  BY <1>1, <1>2, GoesQuietly
<1>4. UNCHANGED <<Charged, Told>>
  BY <1>1, <1>3 DEF Charged, Told, Answered
<1>5. CASE Owns(c)
  <2>1. loc[c].response = c /\ row.op \in Reusers /\ charges[row.op] > 0
    BY <1>1, <1>5 DEF ReuseInv, ReuserKnows, RowShape, WorkPcs, Owns
  <2>2. <<row.op, 1>> \in Charged
    BY <2>1 DEF Charged, ReuseInv, ChargedOnce
  <2>3. row'.response = c /\ row.response = NoCaller
    BY <1>5, <2>1 DEF Complete, Owns, ReuseInv, RowShape, Types
  <2> QED BY <1>1, <1>4, <2>2, <2>3
<1>6. CASE ~Owns(c)
  BY <1>4, <1>6 DEF Complete, store
<1> QED BY <1>5, <1>6

LEMMA ReturnTells ==
    ASSUME ReuseInv, NEW c \in Callers, Return(c)
    PROVE  /\ UNCHANGED <<Charged, row.response>>
           /\ Told' = Told \/ (row.response # NoCaller /\ \E d \in Reusers : Told' = Told \cup {<<d, row.response>>})
<1>1. row' = row /\ charges' = charges /\ pc[c] = "return" /\ loc' = loc
  BY DEF Return, store, ledger, Goto
<1>2. UNCHANGED <<Charged, row.response>>
  BY <1>1 DEF Charged
<1>3. CASE Goto(c, "answered") /\ c \in Reusers
  <2>1. /\ pc'[c] = "answered" /\ \A d \in Callers \ {c} : pc'[d] = pc[d]
    BY <1>3 DEF Goto, ReuseInv, Types
  <2>2. Answered' = Answered \cup {c}
    BY <1>3, <2>1 DEF Answered, Reusers
  <2>3. loc[c].response = row.response /\ row.response # NoCaller
    BY <1>1, <1>3, LLMAssumption DEF ReuseInv, ReuserKnows, RowShape, Reusers
  <2>4. Told' = Told \cup {<<c, row.response>>}
    BY <1>1, <2>2, <2>3 DEF Told, Answered
  <2> QED BY <1>2, <1>3, <2>3, <2>4
<1>4. CASE ~(Goto(c, "answered") /\ c \in Reusers)
  <2>1. \E at \in {"answered", "failed"} : Goto(c, at) /\ (at # "answered" \/ c \notin Reusers)
    BY <1>4 DEF Return
  <2>2. UNCHANGED Answered
    BY <1>1, <2>1, GoesQuietly
  <2> QED BY <1>1, <1>2, <2>2 DEF Told, Answered
<1> QED BY <1>3, <1>4

\* Every step of the cache is a step of OneCall, or none.
LEMMA ContentStep == ReuseInv /\ ReuseInv' /\ [Next]_vars
                     => [Content!Next]_<<Charged, row.response, Told>>
<1> SUFFICES ASSUME ReuseInv, ReuseInv', [Next]_vars
             PROVE  [Content!Next]_<<Charged, row.response, Told>>
  OBVIOUS
<1>1. ASSUME NEW c \in Callers, Step(c)  PROVE [Content!Next]_<<Charged, row.response, Told>>
  <2>1. CASE Bill(c)
    BY <2>1, BillCharges DEF Content!Next, Content!Charge, Charged, Told
  <2>2. CASE Complete(c)
    BY <2>2, CompletePublishes DEF Content!Next, Content!Publish, Charged, Told
  <2>3. CASE Return(c)
    BY <2>3, ReturnTells DEF Content!Next, Content!Tell, Charged, Told
  <2> QED BY <1>1, <2>1, <2>2, <2>3, BeginStutters, CallStutters DEF Step
<1>2. ASSUME NEW c \in Callers, Heartbeat(c) \/ HeartbeatFails(c) \/ Cancel(c)
      PROVE  UNCHANGED <<Charged, row.response, Told>>
  BY <1>2 DEF Heartbeat, HeartbeatFails, Cancel, store, ledger, Charged, Told
<1>3. CASE LeaseLapses \/ UNCHANGED vars
  BY <1>3 DEF LeaseLapses, ledger, vars, Charged, Told
<1>4. CASE Crash
  <2>1. UNCHANGED <<row, charges, loc>>
    BY <1>4 DEF Crash, store, ledger
  <2>2. UNCHANGED Answered
    BY <1>4 DEF Crash, Answered, Running, EndPcs, Reusers
  <2> QED BY <2>1, <2>2, Stutters
<1> QED BY <1>1, <1>2, <1>3, <1>4 DEF Next

\* However many callers share a content, and whatever leases lapse, statements
\* fail and processes die: it is charged once, published once after that, and
\* every caller that is answered got that answer (Begin, Complete and
\* recordUsage implement OneCall).
THEOREM OneContentOneCharge == Spec => ContentChargedOnce
<1>1. Init => Content!Init
  BY ContentInit
<1>2. ReuseInv /\ ReuseInv' /\ [Next]_vars => [Content!Next]_<<Charged, row.response, Told>>
  BY ContentStep
<1> QED BY <1>1, <1>2, ReuseInvariant, PTL DEF Spec, ContentChargedOnce, Content!Spec, Charged, Told

\* While a lease runs, the row changes only by its holder's hand.
LEMMA RowChanges ==
    ASSUME ReuseInv, NEW d \in Callers, Step(d), row.state = "in_progress", unexpired
    PROVE  row' = row \/ row'.state = "completed" \/ (CleanUp(d) /\ Owns(d))
<1>1. CASE \/ Start(d) \/ BeginRead(d) \/ WaitEnds(d) \/ WaitTimesOut(d) \/ BeginFails(d)
           \/ Checks(d) \/ CallProvider(d) \/ ProviderAnswers(d) \/ ProviderRefuses(d)
  BY <1>1 DEF Start, BeginRead, WaitEnds, WaitTimesOut, BeginFails, Checks, CallProvider,
              ProviderAnswers, ProviderRefuses, store
<1>2. CASE \/ ProviderErrs(d) \/ Interrupted(d) \/ Bill(d) \/ BillFails(d) \/ Validate(d)
           \/ CompleteFails(d) \/ Return(d) \/ CleanUpFails(d)
  BY <1>2 DEF ProviderErrs, Interrupted, Bill, BillFails, Validate, CompleteFails, Return,
              CleanUpFails, store
<1>3. CASE Insert(d) \/ Reclaim(d) \/ Recover(d)
  BY <1>3 DEF Insert, Reclaim, Recover, Stale, store
<1>4. CASE Complete(d)
  BY <1>4 DEF Complete, store, ReuseInv, Types
<1>5. CASE CleanUp(d)
  BY <1>5 DEF CleanUp
<1> QED BY <1>1, <1>2, <1>3, <1>4, <1>5 DEF Step

\* A caller at work whose lease has not run out keeps the row until it publishes or
\* leaves: what another caller read before does not help it (recoverStaleLease
\* looks at the lease again, Insert and Reclaim at the state).
THEOREM LeaseIsKept == Spec => FreshLeaseKept
<1>1. ASSUME ReuseInv, [Next]_vars, NEW c \in Callers, Holds(c), unexpired
      PROVE  Holds(c)' \/ ~Running(c)' \/ row'.state = "completed"
  <2>1. row.state = "in_progress" /\ row.owner = c /\ Running(c)
    BY <1>1 DEF Holds, Owns
  <2>2. row' = row \/ row'.state = "completed" \/ CleanUp(c)
    <3>1. ASSUME NEW d \in Callers, Step(d)
          PROVE  row' = row \/ row'.state = "completed" \/ (CleanUp(d) /\ Owns(d))
      BY <1>1, <2>1, <3>1, RowChanges
    <3>2. ASSUME NEW d \in Callers, Heartbeat(d) \/ HeartbeatFails(d) \/ Cancel(d)  PROVE row' = row
      BY <3>2 DEF Heartbeat, HeartbeatFails, Cancel, store
    <3>3. CASE LeaseLapses \/ Crash \/ UNCHANGED vars
      BY <3>3 DEF LeaseLapses, Crash, vars, store
    <3> QED BY <1>1, <2>1, <3>1, <3>2, <3>3 DEF Next, Owns
  <2>3. CASE row' = row
    BY <2>1, <2>3 DEF Holds, Owns
  <2>4. CASE CleanUp(c)
    <3>1. pc'[c] = "failed"
      BY <1>1, <2>4 DEF CleanUp, Goto, ReuseInv, Types
    <3> QED BY <3>1 DEF Running, EndPcs
  <2> QED BY <2>2, <2>3, <2>4
<1>2. ReuseInv /\ [Next]_vars => [LeaseKept]_vars
  BY <1>1 DEF LeaseKept
<1> QED BY <1>2, ReuseInvariant, PTL DEF Spec, FreshLeaseKept

-----------------------------------------------------------------------------
(***************************************************************************)
(* The bounds of the retries.                                              *)
(***************************************************************************)
InBounds(l) == l.round \in 1 .. MaxContention /\ l.attempt \in 1 .. MaxAttempts
RetriesInv == \A c \in Callers : InBounds(loc[c])
\* Who is known, and what happened at most.
NamesInv ==
    /\ failed \subseteq Callers /\ cancelled \subseteq Callers
    /\ faults \in 0 .. MaxFaults /\ lapses \in 0 .. MaxLapses /\ crashes \in 0 .. MaxCrashes

LEMMA RetriesInit == Init => RetriesInv /\ NamesInv
BY LLMAssumption DEF Init, RetriesInv, NamesInv, InBounds

LEMMA BecomeInBounds ==
    ASSUME Types, RetriesInv, NEW c \in Callers, NEW at, NEW l, Become(c, at, l), InBounds(l)
    PROVE  RetriesInv'
<1>1. \A d \in Callers : loc'[d] = IF d = c THEN l ELSE loc[d]
  BY DEF Become, Types
<1> QED BY <1>1 DEF RetriesInv, InBounds

LEMMA GotoInBounds ==
    ASSUME RetriesInv, UNCHANGED loc
    PROVE  RetriesInv'
BY DEF RetriesInv, InBounds

LEMMA ContentionInBounds ==
    ASSUME Types, RetriesInv, NEW c \in Callers, Contention(c)
    PROVE  RetriesInv'
<1>1. CASE loc[c].round < MaxContention
  <2> DEFINE l == [loc[c] EXCEPT !.round = loc[c].round + 1]
  <2>1. InBounds(l)
    BY <1>1, LLMAssumption DEF Types, RetriesInv, InBounds
  <2>2. Become(c, "begin", l)
    BY <1>1 DEF Contention
  <2> HIDE DEF l
  <2> QED BY <2>1, <2>2, BecomeInBounds
<1>2. CASE ~(loc[c].round < MaxContention)
  BY <1>2, GotoInBounds DEF Contention, Goto
<1> QED BY <1>1, <1>2

\* No retry goes beyond its limit,
LEMMA RetriesStep ==
    ASSUME Types, RetriesInv, [Next]_vars
    PROVE  RetriesInv'
<1>0. MaxContention \in Nat \ {0} /\ MaxAttempts \in Nat \ {0}
  BY LLMAssumption
<1>1. CASE UNCHANGED loc
  BY <1>1, GotoInBounds
<1>2. ASSUME NEW c \in Callers, Step(c) PROVE RetriesInv'
  <2>0. /\ loc[c] \in Local /\ loc[c].round \in 1 .. MaxContention /\ loc[c].attempt \in 1 .. MaxAttempts
        /\ Attempts(c) \in Nat /\ Attempts(c) <= MaxAttempts
    BY <1>0 DEF Types, RetriesInv, InBounds, Local, Attempts
  <2>1. \A at, l : Become(c, at, l) /\ InBounds(l) => RetriesInv'
    BY BecomeInBounds
  <2>2. CASE BeginRead(c)
    <3> DEFINE l == [loc[c] EXCEPT !.op = StoredOp(c), !.response = row.response]
    <3>1. InBounds(l) /\ Become(c, Found, l)
      BY <2>0, <2>2 DEF BeginRead, InBounds, Local
    <3> HIDE DEF l
    <3> QED BY <2>1, <3>1
  <2>3. CASE Insert(c)
    <3> DEFINE l == [loc[c] EXCEPT !.op = c, !.round = 1]
    <3>1. InBounds(l) /\ (Contention(c) \/ Become(c, "checks", l))
      BY <1>0, <2>0, <2>3 DEF Insert, InBounds, Local
    <3> HIDE DEF l
    <3> QED BY <2>1, <3>1, ContentionInBounds
  <2>4. CASE Reclaim(c)
    <3> DEFINE l == [loc[c] EXCEPT !.round = 1]
    <3>1. InBounds(l) /\ (Contention(c) \/ Become(c, "checks", l))
      BY <1>0, <2>0, <2>4 DEF Reclaim, InBounds, Local
    <3> HIDE DEF l
    <3> QED BY <2>1, <3>1, ContentionInBounds
  <2>5. CASE Recover(c)
    BY <2>5, ContentionInBounds DEF Recover
  <2>6. CASE WaitEnds(c)
    <3> DEFINE l == [loc[c] EXCEPT !.response = row.response]
    <3>1. InBounds(l) /\ (Contention(c) \/ Become(c, "return", l))
      BY <2>0, <2>6 DEF WaitEnds, InBounds, Local
    <3> HIDE DEF l
    <3> QED BY <2>1, <3>1, ContentionInBounds
  <2>7. CASE ProviderErrs(c)
    <3>1. CASE loc[c].attempt < Attempts(c)
      <4> DEFINE l == [loc[c] EXCEPT !.attempt = loc[c].attempt + 1]
      <4>1. InBounds(l) /\ Become(c, "call", l)
        BY <1>0, <2>0, <2>7, <3>1 DEF ProviderErrs, InBounds, Local
      <4> HIDE DEF l
      <4> QED BY <2>1, <4>1
    <3>2. CASE ~(loc[c].attempt < Attempts(c))
      <4> DEFINE l == [loc[c] EXCEPT !.attempt = 1]
      <4>1. InBounds(l) /\ Become(c, "cleanup", l)
        BY <1>0, <2>0, <2>7, <3>2 DEF ProviderErrs, InBounds, Local
      <4> HIDE DEF l
      <4> QED BY <2>1, <4>1
    <3> QED BY <3>1, <3>2
  <2>8. CASE Bill(c)
    <3> DEFINE at == IF Kind[c] = "vision" THEN "return" ELSE "validate"
               l == [loc[c] EXCEPT !.response = c, !.attempt = 1]
    <3>1. InBounds(l) /\ Become(c, at, l)
      BY <1>0, <2>0, <2>8 DEF Bill, InBounds, Local
    <3> HIDE DEF l, at
    <3> QED BY <2>1, <3>1
  <2>9. CASE ~(\/ BeginRead(c) \/ Insert(c) \/ Reclaim(c) \/ Recover(c) \/ WaitEnds(c) \/ ProviderErrs(c) \/ Bill(c))
    BY <1>1, <1>2, <2>9, Zenon
       DEF Step, Goto, Start, WaitTimesOut, BeginFails, Checks, CallProvider, ProviderAnswers, ProviderRefuses,
           Interrupted, BillFails, Validate, Complete, CompleteFails, Return, CleanUp, CleanUpFails
  <2> QED BY <2>2, <2>3, <2>4, <2>5, <2>6, <2>7, <2>8, <2>9
<1>3. CASE \E c \in Callers : Heartbeat(c) \/ HeartbeatFails(c) \/ Cancel(c)
  BY <1>1, <1>3 DEF Heartbeat, HeartbeatFails, Cancel
<1>4. CASE LeaseLapses \/ Crash \/ UNCHANGED vars
  BY <1>1, <1>4 DEF LeaseLapses, Crash, vars
<1> QED BY <1>2, <1>3, <1>4 DEF Next

\* and nobody else appears.
LEMMA NamesStep ==
    ASSUME Types, NamesInv, [Next]_vars
    PROVE  NamesInv'
<1>0. MaxFaults \in Nat /\ MaxLapses \in Nat /\ MaxCrashes \in Nat
  BY LLMAssumption
<1> DEFINE Counts == faults' \in 0 .. MaxFaults /\ lapses' \in 0 .. MaxLapses /\ crashes' \in 0 .. MaxCrashes
<1>1. (UNCHANGED bounds => Counts) /\ (Fault => Counts)
  BY <1>0 DEF NamesInv, bounds, Fault
<1>2. UNCHANGED ledger => failed' \subseteq Callers
  BY DEF NamesInv, ledger
<1>3. cancelled \subseteq Callers /\ (UNCHANGED cancelled => cancelled' \subseteq Callers)
  BY DEF NamesInv
<1> HIDE DEF Counts
<1>4. ASSUME NEW c \in Callers, Step(c) PROVE NamesInv'
  <2>1. loc[c].op \in Callers /\ failed \subseteq Callers
    BY DEF Types, NamesInv
  <2>2. UNCHANGED cancelled
    BY <1>4 DEF Step, Start, BeginRead, Insert, Reclaim, Recover, WaitEnds, WaitTimesOut, BeginFails, Checks, CallProvider,
           ProviderAnswers, ProviderRefuses, ProviderErrs, Interrupted, Bill, BillFails, Validate, Complete,
           CompleteFails, Return, CleanUp, CleanUpFails
  <2>3. failed' \in {failed, failed \cup {loc[c].op}}
    <3>1. CASE ProviderErrs(c)
      BY <3>1 DEF ProviderErrs
    <3>2. CASE ~ProviderErrs(c)
      BY <1>4, <3>2 DEF Step, Start, BeginRead, Insert, Reclaim, Recover, WaitEnds, WaitTimesOut, BeginFails, Checks,
             CallProvider, ProviderAnswers, ProviderRefuses, Interrupted, Bill, BillFails, Validate, Complete,
             CompleteFails, Return, CleanUp, CleanUpFails, ledger
    <3> QED BY <3>1, <3>2
  <2>4. UNCHANGED bounds \/ Fault
    BY <1>4, Zenon DEF Step, Start, BeginRead, Insert, Reclaim, Recover, WaitEnds, WaitTimesOut, BeginFails, Checks, CallProvider,
           ProviderAnswers, ProviderRefuses, ProviderErrs, Interrupted, Bill, BillFails, Validate, Complete,
           CompleteFails, Return, CleanUp, CleanUpFails
  <2> QED BY <1>1, <1>3, <2>1, <2>2, <2>3, <2>4 DEF NamesInv, Counts
<1>5. CASE \E c \in Callers : Heartbeat(c) \/ HeartbeatFails(c) \/ Cancel(c)
  <2>1. UNCHANGED ledger /\ (UNCHANGED bounds \/ Fault) /\ cancelled' \subseteq Callers
    BY <1>3, <1>5 DEF Heartbeat, HeartbeatFails, Cancel
  <2> QED BY <1>1, <1>2, <2>1 DEF NamesInv, Counts
<1>6. CASE LeaseLapses \/ Crash
  <2>1. Counts
    BY <1>0, <1>6 DEF LeaseLapses, Crash, NamesInv, Counts
  <2>2. UNCHANGED ledger /\ UNCHANGED cancelled
    BY <1>6 DEF LeaseLapses, Crash
  <2> QED BY <1>2, <1>3, <2>1, <2>2 DEF NamesInv, Counts
<1>7. CASE UNCHANGED vars
  BY <1>7 DEF vars, NamesInv
<1> QED BY <1>4, <1>5, <1>6, <1>7 DEF Next

\* Whatever fails, lapses or crashes: the row, the charges and every caller are well formed; a
\* caller carries an operation of its own or of the row's, and neither its rounds of Begin nor its
\* calls of the provider go beyond maxBeginContention and the three attempts
\* (llmreuse/store.go:35 and :120, llm/client.go:274).
THEOREM CallsTypeCorrect == Spec => []TypeOK
<1> DEFINE Inv == ReuseInv /\ RetriesInv /\ NamesInv
<1>1. Init => Inv
  BY ReuseInit, RetriesInit
<1>2. Inv /\ [Next]_vars => Inv'
  <2>1. ReuseInv => Types
    BY DEF ReuseInv
  <2> QED BY <2>1, ReuseNext, RetriesStep, NamesStep
<1>3. Inv => TypeOK
  <2> SUFFICES ASSUME Inv PROVE TypeOK
    OBVIOUS
  <2> DEFINE Locals == [op : Callers, round : 1 .. MaxContention, attempt : 1 .. MaxAttempts,
                        response : Callers \cup {NoCaller}]
  <2>1. \A c \in Callers : loc[c] \in Locals
    BY DEF ReuseInv, Types, RetriesInv, InBounds
  <2>2. loc \in [Callers -> Locals]
    <3>1. DOMAIN loc = Callers /\ loc = [c \in DOMAIN loc |-> loc[c]]
      BY DEF ReuseInv, Types
    <3> HIDE DEF Locals
    <3> QED BY <2>1, <3>1
  <2> QED BY <2>2 DEF ReuseInv, Types, States, NamesInv, TypeOK
<1> QED BY <1>1, <1>2, <1>3, PTL DEF Spec

-----------------------------------------------------------------------------
(***************************************************************************)
(* The steps a call has left.                                              *)
(***************************************************************************)
\* Two steps at most for a round of Begin, two for an attempt of the provider; whoever got the lease, or
\* waits for its holder, does not begin anew.
RoundsLeft(l) == MaxContention - l.round
AttemptsLeft(l) == MaxAttempts - l.attempt
BeforeLease == 2 * MaxAttempts + 7
LeftAt(at, l) ==
    CASE at \in EndPcs                                -> 0
      [] at \in {"return", "cleanup"}                 -> 1
      [] at = "complete"                              -> 2
      [] at = "validate"                              -> 3
      [] at = "bill"                                  -> 4
      [] at = "provider"                              -> 2 * AttemptsLeft(l) + 5
      [] at = "call"                                  -> 2 * AttemptsLeft(l) + 6
      [] at = "checks"                                -> 2 * AttemptsLeft(l) + 7
      [] at = "begin"                                 -> 2 * RoundsLeft(l) + BeforeLease + 1
      [] at = "idle"                                  -> 2 * RoundsLeft(l) + BeforeLease + 2
      [] OTHER                                        -> 2 * RoundsLeft(l) + BeforeLease
CallLeft(c) == LeftAt(pc[c], loc[c])

\* A caller's step lowers what is left of its call, and no step of another raises it.
EveryCallCounts ==
    \A c \in Callers : /\ CallLeft(c) \in Nat /\ CallLeft(c)' <= CallLeft(c)
                       /\ Step(c) => CallLeft(c)' < CallLeft(c)

LEMMA LeftFacts ==
    ASSUME NEW at, NEW l, InBounds(l)
    PROVE  /\ LeftAt(at, l) \in Nat
           /\ at \in EndPcs => LeftAt(at, l) = 0
           /\ at \in {"return", "cleanup"} => LeftAt(at, l) = 1
           /\ at = "complete" => LeftAt(at, l) = 2
           /\ at = "validate" => LeftAt(at, l) = 3
           /\ at = "bill" => LeftAt(at, l) = 4
           /\ at = "provider" => LeftAt(at, l) = 2 * AttemptsLeft(l) + 5
           /\ at = "call" => LeftAt(at, l) = 2 * AttemptsLeft(l) + 6
           /\ at = "checks" => LeftAt(at, l) = 2 * AttemptsLeft(l) + 7
           /\ at = "begin" => LeftAt(at, l) = 2 * RoundsLeft(l) + BeforeLease + 1
           /\ at = "idle" => LeftAt(at, l) = 2 * RoundsLeft(l) + BeforeLease + 2
           /\ at \in BeginPcs \ {"begin"} => LeftAt(at, l) = 2 * RoundsLeft(l) + BeforeLease
           /\ AttemptsLeft(l) \in 0 .. MaxAttempts - 1 /\ RoundsLeft(l) \in Nat
           /\ BeforeLease \in Nat /\ BeforeLease = 2 * MaxAttempts + 7 /\ MaxAttempts \in Nat
<1>1. /\ AttemptsLeft(l) \in 0 .. MaxAttempts - 1 /\ RoundsLeft(l) \in Nat
      /\ BeforeLease \in Nat /\ BeforeLease = 2 * MaxAttempts + 7 /\ MaxAttempts \in Nat
  BY LLMAssumption DEF InBounds, AttemptsLeft, RoundsLeft, BeforeLease
<1>2. LeftAt(at, l) \in {0, 1, 2, 3, 4, 2 * AttemptsLeft(l) + 5, 2 * AttemptsLeft(l) + 6, 2 * AttemptsLeft(l) + 7,
                         2 * RoundsLeft(l) + BeforeLease + 1, 2 * RoundsLeft(l) + BeforeLease + 2,
                         2 * RoundsLeft(l) + BeforeLease}
  BY DEF LeftAt
<1>3. LeftAt(at, l) \in Nat
  BY <1>1, <1>2
<1> QED
  BY <1>1, <1>3 DEF LeftAt, EndPcs, BeginPcs

LEMMA GotoLowers ==
    ASSUME Types, RetriesInv, NEW c \in Callers, NEW at, Goto(c, at), LeftAt(at, loc[c]) < LeftAt(pc[c], loc[c])
    PROVE  CallLeft(c)' < CallLeft(c)
<1>1. pc'[c] = at /\ loc'[c] = loc[c]
  BY DEF Goto, Types
<1> QED BY <1>1 DEF CallLeft

LEMMA BecomeLowers ==
    ASSUME Types, RetriesInv, NEW c \in Callers, NEW at, NEW l, Become(c, at, l), LeftAt(at, l) < LeftAt(pc[c], loc[c])
    PROVE  CallLeft(c)' < CallLeft(c)
<1>1. pc'[c] = at /\ loc'[c] = l
  BY DEF Become, Types
<1> QED BY <1>1 DEF CallLeft

\* A round that came to nothing leaves one round less.
LEMMA ContentionLowers ==
    ASSUME Types, RetriesInv, NEW c \in Callers, pc[c] \in BeginPcs \ {"begin"}, Contention(c)
    PROVE  CallLeft(c)' < CallLeft(c)
<1>0. InBounds(loc[c]) /\ loc[c].round \in 1 .. MaxContention /\ MaxContention \in Nat
  BY LLMAssumption DEF RetriesInv, InBounds
<1>1. CASE loc[c].round < MaxContention
  <2> DEFINE l == [loc[c] EXCEPT !.round = loc[c].round + 1]
             k == loc[c]
  <2>1. Become(c, "begin", l) /\ InBounds(l) /\ RoundsLeft(l) = RoundsLeft(k) - 1 /\ InBounds(k)
    BY <1>0, <1>1 DEF Contention, InBounds, RoundsLeft, Types
  <2>2. LeftAt("begin", l) = 2 * RoundsLeft(l) + BeforeLease + 1 /\ RoundsLeft(l) \in Nat /\ BeforeLease \in Nat
    <3> HIDE DEF l
    <3> QED BY <2>1, LeftFacts
  <2>3. LeftAt(pc[c], k) = 2 * RoundsLeft(k) + BeforeLease /\ RoundsLeft(k) \in Nat
    BY <1>0, LeftFacts
  <2> HIDE DEF l, k
  <2>4. LeftAt("begin", l) < LeftAt(pc[c], k)
    BY <2>1, <2>2, <2>3
  <2> QED BY <2>1, <2>4, BecomeLowers DEF k
<1>2. CASE ~(loc[c].round < MaxContention)
  <2>1. Goto(c, "failed")
    BY <1>2 DEF Contention
  <2>2. LeftAt("failed", loc[c]) = 0 /\ LeftAt(pc[c], loc[c]) > 0
    <3>1. LeftAt(pc[c], loc[c]) = 2 * RoundsLeft(loc[c]) + BeforeLease /\ RoundsLeft(loc[c]) \in Nat
          /\ BeforeLease = 2 * MaxAttempts + 7 /\ MaxAttempts \in Nat
      BY <1>0, LeftFacts
    <3>2. LeftAt("failed", loc[c]) = 0
      BY <1>0, LeftFacts DEF EndPcs
    <3> QED BY <3>1, <3>2
  <2> QED BY <2>1, <2>2, GotoLowers
<1> QED BY <1>1, <1>2

\* Where a caller goes without a new round or attempt, there is less left.
Onward(at, then) ==
    \/ at \in BeginPcs \cup BeatPcs \cup {"idle", "checks", "return", "cleanup"} /\ then \in EndPcs
    \/ at \in BeatPcs \cup {"checks"} /\ then = "cleanup"
    \/ at = "idle" /\ then \in {"begin", "checks"}
    \/ at = "begin" /\ then \in {"insert", "return", "wait", "recover", "reclaim"}
    \/ at = "wait" /\ then = "return"
    \/ at \in {"insert", "reclaim"} /\ then = "checks"
    \/ at = "checks" /\ then = "call"
    \/ at = "call" /\ then = "provider"
    \/ at = "provider" /\ then = "bill"
    \/ at = "bill" /\ then \in {"validate", "return"}
    \/ at = "validate" /\ then \in {"complete", "return"}
    \/ at = "complete" /\ then = "return"

LEMMA OnwardLowers ==
    ASSUME NEW at, NEW then, NEW l, NEW m, InBounds(l), InBounds(m), Onward(at, then),
           at \in {"idle", "begin", "checks", "call"} => m.round = l.round /\ m.attempt = l.attempt
    PROVE  LeftAt(then, m) < LeftAt(at, l)
<1> DEFINE a == AttemptsLeft(l)
           b == AttemptsLeft(m)
           r == RoundsLeft(l)
           q == RoundsLeft(m)
           x == LeftAt(at, l)
           y == LeftAt(then, m)
<1>1. /\ a \in 0 .. MaxAttempts - 1 /\ r \in Nat /\ b \in 0 .. MaxAttempts - 1 /\ q \in Nat
      /\ BeforeLease = 2 * MaxAttempts + 7 /\ MaxAttempts \in Nat /\ BeforeLease \in Nat
  BY LeftFacts
<1>2. at \in {"idle", "begin", "checks", "call"} => a = b /\ r = q
  BY DEF AttemptsLeft, RoundsLeft
<1>3. /\ at \in {"return", "cleanup"} => x = 1
      /\ at = "complete" => x = 2
      /\ at = "validate" => x = 3
      /\ at = "bill" => x = 4
      /\ at = "provider" => x = 2 * a + 5
      /\ at = "call" => x = 2 * a + 6
      /\ at = "checks" => x = 2 * a + 7
      /\ at = "begin" => x = 2 * r + BeforeLease + 1
      /\ at = "idle" => x = 2 * r + BeforeLease + 2
      /\ at \in {"insert", "reclaim", "recover", "wait"} => x = 2 * r + BeforeLease
  BY LeftFacts DEF BeginPcs
<1>4. /\ then \in EndPcs => y = 0
      /\ then \in {"return", "cleanup"} => y = 1
      /\ then = "complete" => y = 2
      /\ then = "validate" => y = 3
      /\ then = "bill" => y = 4
      /\ then = "provider" => y = 2 * b + 5
      /\ then = "call" => y = 2 * b + 6
      /\ then = "checks" => y = 2 * b + 7
      /\ then = "begin" => y = 2 * q + BeforeLease + 1
      /\ then \in {"insert", "reclaim", "recover", "wait"} => y = 2 * q + BeforeLease
  BY LeftFacts DEF BeginPcs
<1> SUFFICES y < x
  OBVIOUS
<1> HIDE DEF a, b, r, q, x, y
<1>5. CASE at \in BeginPcs \cup BeatPcs \cup {"idle", "checks", "return", "cleanup"} /\ then \in EndPcs
  BY <1>1, <1>3, <1>4, <1>5 DEF BeginPcs, BeatPcs
<1>6. CASE at \in BeatPcs \cup {"checks"} /\ then = "cleanup"
  BY <1>1, <1>3, <1>4, <1>6 DEF BeatPcs
<1>7. CASE at \in {"idle", "begin", "wait", "insert", "reclaim"}
  BY <1>1, <1>2, <1>3, <1>4, <1>5, <1>7 DEF Onward, BeatPcs, EndPcs
<1>8. CASE at \in {"checks", "call", "provider", "bill", "validate", "complete", "return", "cleanup"}
  <2>1. CASE then \in EndPcs \/ then = "cleanup"
    <3>1. at \in {"return", "cleanup"} => then \in EndPcs
      BY <2>1 DEF Onward, BeatPcs, BeginPcs, EndPcs
    <3>2. at \in BeatPcs \cup {"checks", "return", "cleanup"}
      BY <1>8 DEF BeatPcs
    <3> QED BY <1>5, <1>6, <2>1, <3>1, <3>2
  <2>2. CASE ~(then \in EndPcs \/ then = "cleanup")
    <3>1. \/ at = "checks" /\ then = "call"
          \/ at = "call" /\ then = "provider"
          \/ at = "provider" /\ then = "bill"
          \/ at = "bill" /\ then \in {"validate", "return"}
          \/ at = "validate" /\ then \in {"complete", "return"}
          \/ at = "complete" /\ then = "return"
      BY <1>8, <2>2 DEF Onward
    <3> QED BY <1>1, <1>2, <1>3, <1>4, <3>1
  <2> QED BY <2>1, <2>2
<1>10. CASE at = "recover"
  BY <1>1, <1>3, <1>4, <1>5, <1>10 DEF Onward, BeatPcs, EndPcs, BeginPcs
<1>9. at \in BeginPcs \cup BeatPcs \cup {"idle", "checks", "return", "cleanup"}
  BY DEF Onward, BeginPcs, BeatPcs
<1> QED BY <1>7, <1>8, <1>9, <1>10 DEF BeginPcs, BeatPcs

LEMMA GoesOn ==
    ASSUME Types, RetriesInv, NEW c \in Callers, NEW at, Goto(c, at), Onward(pc[c], at)
    PROVE  CallLeft(c)' < CallLeft(c)
BY GotoLowers, OnwardLowers DEF RetriesInv

LEMMA StepLowers ==
    ASSUME Types, RetriesInv, NEW c \in Callers, Step(c)
    PROVE  CallLeft(c)' < CallLeft(c)
<1>0. /\ loc[c] \in Local /\ InBounds(loc[c]) /\ MaxContention \in Nat \ {0} /\ MaxAttempts \in Nat \ {0}
      /\ Attempts(c) \in Nat /\ Attempts(c) <= MaxAttempts
  BY LLMAssumption DEF Types, RetriesInv, Local, Attempts
<1>1. \A at : Goto(c, at) /\ Onward(pc[c], at) => CallLeft(c)' < CallLeft(c)
  BY GoesOn
<1>2. \A at, l : /\ Become(c, at, l) /\ InBounds(l) /\ Onward(pc[c], at)
                 /\ (pc[c] \in {"idle", "begin", "checks", "call"} => l.round = loc[c].round /\ l.attempt = loc[c].attempt)
                 => CallLeft(c)' < CallLeft(c)
  BY <1>0, OnwardLowers, BecomeLowers
<1>3. pc[c] \in BeginPcs \ {"begin"} /\ Contention(c) => CallLeft(c)' < CallLeft(c)
  BY ContentionLowers
<1>4. CASE BeginRead(c)
  <2> DEFINE l == [loc[c] EXCEPT !.op = StoredOp(c), !.response = row.response]
  <2>1. /\ Become(c, Found, l) /\ InBounds(l) /\ l.round = loc[c].round /\ l.attempt = loc[c].attempt /\ pc[c] = "begin"
    BY <1>0, <1>4 DEF BeginRead, InBounds, Local
  <2>2. Found \in {"insert", "return", "wait", "recover", "reclaim"}
    BY DEF Types, States, Found
  <2>3. Onward("begin", Found)
    BY <2>2 DEF Onward
  <2> HIDE DEF l
  <2> QED BY <1>2, <2>1, <2>3
<1>5. CASE Insert(c) \/ Reclaim(c)
  <2>1. pc[c] \in {"insert", "reclaim"} /\ Onward(pc[c], "checks") /\ pc[c] \in BeginPcs \ {"begin"}
    BY <1>5 DEF Insert, Reclaim, Onward, BeginPcs
  <2>2. Contention(c) \/ Become(c, "checks", [loc[c] EXCEPT !.op = c, !.round = 1])
        \/ Become(c, "checks", [loc[c] EXCEPT !.round = 1])
    BY <1>5 DEF Insert, Reclaim
  <2>3. InBounds([loc[c] EXCEPT !.op = c, !.round = 1]) /\ InBounds([loc[c] EXCEPT !.round = 1])
    BY <1>0 DEF InBounds, Local
  <2> QED BY <1>2, <1>3, <2>1, <2>2, <2>3
<1>6. CASE Recover(c)
  BY <1>3, <1>6 DEF Recover, BeginPcs
<1>7. CASE WaitEnds(c)
  <2>1. pc[c] = "wait" /\ Onward(pc[c], "return") /\ pc[c] \in BeginPcs \ {"begin"}
    BY <1>7 DEF WaitEnds, Onward, BeginPcs
  <2>2. Contention(c) \/ Become(c, "return", [loc[c] EXCEPT !.response = row.response])
    BY <1>7 DEF WaitEnds
  <2>3. InBounds([loc[c] EXCEPT !.response = row.response])
    BY <1>0 DEF InBounds, Local
  <2> QED BY <1>2, <1>3, <2>1, <2>2, <2>3
<1>8. CASE ProviderErrs(c)
  <2>1. pc[c] = "provider" /\ Onward(pc[c], "cleanup")
    BY <1>8 DEF ProviderErrs, Onward, BeatPcs
  <2>2. CASE loc[c].attempt < Attempts(c)
    <3> DEFINE l == [loc[c] EXCEPT !.attempt = loc[c].attempt + 1]
               k == loc[c]
    <3>1. Become(c, "call", l) /\ InBounds(l) /\ AttemptsLeft(l) = AttemptsLeft(k) - 1 /\ InBounds(k)
      BY <1>0, <1>8, <2>2 DEF ProviderErrs, InBounds, Local, AttemptsLeft
    <3> HIDE DEF l, k
    <3>2. /\ LeftAt("call", l) = 2 * AttemptsLeft(l) + 6 /\ LeftAt("provider", k) = 2 * AttemptsLeft(k) + 5
          /\ AttemptsLeft(l) \in Nat /\ AttemptsLeft(k) \in Nat
      BY <1>0, <3>1, LeftFacts
    <3>3. LeftAt("call", l) < LeftAt("provider", k)
      BY <3>1, <3>2
    <3> QED BY <2>1, <3>1, <3>3, BecomeLowers DEF k
  <2>3. CASE ~(loc[c].attempt < Attempts(c))
    <3>1. Become(c, "cleanup", [loc[c] EXCEPT !.attempt = 1]) /\ InBounds([loc[c] EXCEPT !.attempt = 1])
      BY <1>0, <1>8, <2>3 DEF ProviderErrs, InBounds, Local
    <3> QED BY <1>2, <2>1, <3>1
  <2> QED BY <2>2, <2>3
<1>9. CASE Bill(c)
  <2> DEFINE at == IF Kind[c] = "vision" THEN "return" ELSE "validate"
             l == [loc[c] EXCEPT !.response = c, !.attempt = 1]
  <2>1. InBounds(l) /\ Become(c, at, l) /\ pc[c] = "bill"
    BY <1>0, <1>9 DEF Bill, InBounds, Local
  <2>2. Onward("bill", at)
    BY DEF Onward
  <2> HIDE DEF l, at
  <2> QED BY <1>2, <2>1, <2>2
<1>10. CASE Start(c) \/ WaitTimesOut(c) \/ BeginFails(c) \/ Checks(c) \/ CallProvider(c) \/ ProviderAnswers(c)
             \/ ProviderRefuses(c) \/ Interrupted(c)
  <2>1. \E at : Goto(c, at) /\ Onward(pc[c], at)
    BY <1>10 DEF Start, WaitTimesOut, BeginFails, Checks, CallProvider, ProviderAnswers, ProviderRefuses, Interrupted,
           Onward, BeginPcs, BeatPcs, EndPcs
  <2> QED BY <1>1, <2>1
<1>11. CASE BillFails(c) \/ Validate(c) \/ Complete(c) \/ CompleteFails(c) \/ Return(c) \/ CleanUp(c) \/ CleanUpFails(c)
  <2>1. \E at : Goto(c, at) /\ Onward(pc[c], at)
    BY <1>11 DEF BillFails, Validate, Complete, CompleteFails, Return, CleanUp, CleanUpFails,
           Onward, BeginPcs, BeatPcs, EndPcs
  <2> QED BY <1>1, <2>1
<1> QED BY <1>4, <1>5, <1>6, <1>7, <1>8, <1>9, <1>10, <1>11 DEF Step

\* The others leave a caller where it is, or are the crash that ends it.
LEMMA OthersKeep ==
    ASSUME Types, RetriesInv, [Next]_vars, NEW c \in Callers, ~Step(c)
    PROVE  CallLeft(c)' <= CallLeft(c)
<1>0. CallLeft(c) \in Nat /\ InBounds(loc[c])
  BY LeftFacts DEF RetriesInv, CallLeft
<1>1. CASE pc'[c] = pc[c] /\ loc'[c] = loc[c]
  <2>1. CallLeft(c)' = CallLeft(c)
    BY <1>1 DEF CallLeft
  <2> QED BY <1>0, <2>1
<1>2. CASE Crash
  <2>1. loc'[c] = loc[c] /\ (pc'[c] = pc[c] \/ pc'[c] = "dead")
    BY <1>2 DEF Crash, Types
  <2>2. CASE pc'[c] = "dead"
    <3>1. CallLeft(c)' = 0
      BY <2>1, <2>2 DEF CallLeft, LeftAt, EndPcs
    <3> QED BY <1>0, <3>1
  <2> QED BY <1>1, <2>1, <2>2
<1>3. CASE UNCHANGED <<pc, loc>>
  BY <1>1, <1>3
<1>4. ASSUME NEW d \in Callers, d # c, Step(d) PROVE CallLeft(c)' <= CallLeft(c)
  <2>1. \/ \E at : Goto(d, at)
        \/ \E at, l : Become(d, at, l)
    BY <1>4, Zenon DEF Step, Start, BeginRead, Insert, Reclaim, Recover, WaitEnds, WaitTimesOut, BeginFails, Checks,
           CallProvider, ProviderAnswers, ProviderRefuses, ProviderErrs, Interrupted, Bill, BillFails, Validate,
           Complete, CompleteFails, Return, CleanUp, CleanUpFails, Contention
  <2>2. pc'[c] = pc[c] /\ loc'[c] = loc[c]
    BY <1>4, <2>1 DEF Goto, Become, Types
  <2> QED BY <1>1, <2>2
<1>5. CASE \E d \in Callers : Heartbeat(d) \/ HeartbeatFails(d) \/ Cancel(d)
  BY <1>3, <1>5 DEF Heartbeat, HeartbeatFails, Cancel
<1> QED BY <1>2, <1>3, <1>4, <1>5 DEF Next, vars, LeaseLapses

\* Every call comes to its end in a number of steps of its own that is known when it starts: what
\* other callers do with the row, lapsing leases and failing statements never make it begin anew.
\* Rounds of Begin are counted (maxBeginContention), a wait that ends without an answer uses one, and whoever
\* has got the lease never returns to Begin (store.go, client.go).
THEOREM EveryCallIsBounded == Spec => [][EveryCallCounts]_vars
<1> DEFINE Inv == ReuseInv /\ RetriesInv
<1>1. Init => Inv
  BY ReuseInit, RetriesInit
<1>2. ReuseInv => Types
  BY DEF ReuseInv
<1>3. Inv /\ [Next]_vars => Inv'
  BY <1>2, ReuseNext, RetriesStep
<1>4. Inv /\ [Next]_vars => EveryCallCounts
  <2> SUFFICES ASSUME Inv, [Next]_vars, NEW c \in Callers
               PROVE  /\ CallLeft(c) \in Nat /\ CallLeft(c)' <= CallLeft(c)
                      /\ Step(c) => CallLeft(c)' < CallLeft(c)
    BY DEF EveryCallCounts
  <2>1. CallLeft(c) \in Nat
    BY LeftFacts DEF RetriesInv, CallLeft
  <2>2. Step(c) => CallLeft(c)' < CallLeft(c)
    BY <1>2, StepLowers
  <2>3. ~Step(c) => CallLeft(c)' <= CallLeft(c)
    BY <1>2, OthersKeep
  <2>4. RetriesInv'
    BY <1>3
  <2>5. CallLeft(c)' \in Nat
    <3>1. \A at, l : InBounds(l) => LeftAt(at, l) \in Nat
      BY LeftFacts
    <3> QED BY <2>4, <3>1 DEF RetriesInv, InBounds, CallLeft
  <2> QED BY <2>1, <2>2, <2>3, <2>5
<1> QED BY <1>1, <1>3, <1>4, PTL DEF Spec
=============================================================================
