----------------------------- MODULE ScriptEngine -----------------------------
(***************************************************************************)
(* The script machine that lnwallet's scripts are written for (txscript,   *)
(* outside the repository): as many operations as those scripts use.  A    *)
(* stack element is a tagged tuple.  A number on the stack is true when it *)
(* is not 0, and so is everything else.                                    *)
(***************************************************************************)
EXTENDS Integers, Sequences, SequencesExt

Num(n) == <<"num", n>>
Hash(e) == <<"hash", e>>
Preimage(x, size) == <<"preimage", x, size>>
Key(k) == <<"key", k>>
Sig(k, tx) == <<"sig", k, tx>>

\* Operations of a script: push an element, or the name of an opcode.
Push(e) == <<"push", e>>
Op(name) == <<name>>

\* Sequence numbers: the largest one, and those that lock nothing.
MaxSequence == 2147483647
SequenceLockTimeMask == 65536
Locks(sequence) == sequence # MaxSequence

AsBool(e) == e # Num(0)
Top(s) == Last(s)
Below(s) == s[Len(s) - 1]
Drop(s, n) == SubSeq(s, 1, Len(s) - n)

\* The machine: its stack, the conditions it is inside of, whether it is well.
Machine(stack) == [stack |-> stack, conds |-> <<>>, ok |-> TRUE]
Running(m) == \A i \in DOMAIN m.conds : m.conds[i]

Becomes(m, stack) == [m EXCEPT !.stack = stack]
Requires(m, cond) == [m EXCEPT !.ok = @ /\ cond]

\* OP_IF, OP_ELSE and OP_ENDIF are looked at in a branch not taken as well.
Flow(m, op) ==
  CASE op = "OP_IF" /\ Running(m) ->
         [m EXCEPT !.stack = Drop(@, 1), !.conds = Append(@, AsBool(Top(m.stack)))]
    [] op = "OP_IF" /\ ~Running(m) -> [m EXCEPT !.conds = Append(@, FALSE)]
    [] op = "OP_ELSE" ->
         [m EXCEPT !.conds = Append(Drop(@, 1),
            ~Last(@) /\ \A i \in 1..(Len(@) - 1) : @[i])]
    [] op = "OP_ENDIF" -> [m EXCEPT !.conds = Drop(@, 1)]

CheckMultiSig(s, tx) ==
  /\ s[Len(s)] = Num(2) /\ s[Len(s) - 3] = Num(2)
  /\ \A i \in {1, 2} : s[Len(s) - 6 + i] = Sig(s[Len(s) - 3 + i][2], tx)

EqualVerify(m) ==
  Requires(Becomes(m, Drop(m.stack, 2)), Top(m.stack) = Below(m.stack))

\* A check of a signature by the key on top over the transaction that spends.
SigOk(m, tx) == Below(m.stack) = Sig(Top(m.stack)[2], tx)

LockTimeOk(m, tx) == tx.lockTime >= Top(m.stack)[2] /\ tx.sequence # MaxSequence
SequenceOk(m, tx) ==
  /\ tx.version >= 2 /\ Locks(tx.sequence)
  /\ tx.sequence % SequenceLockTimeMask >= Top(m.stack)[2] % SequenceLockTimeMask

SizeOf(e) == IF e[1] = "preimage" THEN e[3] ELSE 33

Execute(m, op, tx) ==
  CASE op[1] = "push" -> Becomes(m, Append(m.stack, op[2]))
    [] op[1] = "OP_DROP" -> Becomes(m, Drop(m.stack, 1))
    [] op[1] = "OP_2DROP" -> Becomes(m, Drop(m.stack, 2))
    [] op[1] = "OP_SWAP" ->
         Becomes(m, Drop(m.stack, 2) \o <<Top(m.stack), Below(m.stack)>>)
    [] op[1] = "OP_SIZE" -> Becomes(m, Append(m.stack, Num(SizeOf(Top(m.stack)))))
    [] op[1] = "OP_SHA256" ->
         Becomes(m, Append(Drop(m.stack, 1), Hash(Top(m.stack))))
    [] op[1] = "OP_EQUALVERIFY" -> EqualVerify(m)
    [] op[1] = "OP_CHECKSIG" ->
         Becomes(m, Append(Drop(m.stack, 2), Num(IF SigOk(m, tx) THEN 1 ELSE 0)))
    [] op[1] = "OP_CHECKSIGVERIFY" ->
         Requires(Becomes(m, Drop(m.stack, 2)), SigOk(m, tx))
    [] op[1] = "OP_CHECKMULTISIG" ->
         Becomes(m, Append(Drop(m.stack, 7),
                           Num(IF CheckMultiSig(m.stack, tx) THEN 1 ELSE 0)))
    [] op[1] = "OP_CHECKLOCKTIMEVERIFY" -> Requires(m, LockTimeOk(m, tx))
    [] op[1] = "OP_CHECKSEQUENCEVERIFY" -> Requires(m, SequenceOk(m, tx))

\* How many elements an operation finds on the stack, at the least.
Needs(op) ==
  CASE op[1] \in {"push", "OP_ELSE", "OP_ENDIF"} -> 0
    [] op[1] \in {"OP_IF", "OP_DROP", "OP_SIZE", "OP_SHA256",
                  "OP_CHECKLOCKTIMEVERIFY", "OP_CHECKSEQUENCEVERIFY"} -> 1
    [] op[1] = "OP_CHECKMULTISIG" -> 7
    [] OTHER -> 2

Step(m, op, tx) ==
  IF ~m.ok THEN m
  ELSE IF op[1] \in {"OP_ELSE", "OP_ENDIF"} \/ (op[1] = "OP_IF" /\ ~Running(m))
       THEN Flow(m, op[1])
  ELSE IF ~Running(m) THEN m
  ELSE IF Len(m.stack) < Needs(op) THEN [m EXCEPT !.ok = FALSE]
  ELSE IF op[1] = "OP_IF" THEN Flow(m, op[1])
  ELSE Execute(m, op, tx)

Ends(m) == m.ok /\ Len(m.stack) = 1 /\ AsBool(Top(m.stack))

\* The machine after the whole script.
Executed(script, stack, tx) ==
  LET after[i \in 0..Len(script)] ==
        IF i = 0 THEN Machine(stack) ELSE Step(after[i - 1], script[i], tx)
  IN  after[Len(script)]

\* A witness is accepted when its last element is the script that the output
\* pays to and the script, run on the rest, leaves one true element.
Accepts(script, witness, tx) ==
  /\ witness # <<>> /\ Last(witness) = script
  /\ Ends(Executed(script, Front(witness), tx))

\* Version 0 key hash programs: the witness is a signature and the key.
AcceptsKeyHash(keyHash, witness, tx) ==
  /\ Len(witness) = 2 /\ Hash(witness[2]) = keyHash
  /\ witness[1] = Sig(witness[2][2], tx)
===============================================================================
