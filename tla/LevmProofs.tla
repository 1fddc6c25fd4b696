----------------------------- MODULE LevmProofs -----------------------------
(* Proofs of the claims of Levm, for every program and every setup.          *)
EXTENDS Levm, TLAPS

-----------------------------------------------------------------------------
(***************************************************************************)
(* Sequences.                                                              *)
(***************************************************************************)
LEMMA Emptiness ==
  ASSUME NEW S
  PROVE  /\ <<>> \in Seq(S) /\ Len(<<>>) = 0
         /\ \A s \in Seq(S) : s # <<>> => Len(s) \in Nat \ {0}
  OBVIOUS

LEMMA Indexed ==
  ASSUME NEW S, NEW s \in Seq(S)
  PROVE  Len(s) \in Nat /\ s \in [1 .. Len(s) -> S] /\ DOMAIN s = 1 .. Len(s)
  OBVIOUS

LEMMA Appended ==
  ASSUME NEW S, NEW s \in Seq(S), NEW x \in S
  PROVE  /\ Append(s, x) \in Seq(S) /\ Append(s, x) # <<>>
         /\ Len(Append(s, x)) = Len(s) + 1 /\ Append(s, x)[Len(s) + 1] = x
         /\ \A i \in 1 .. Len(s) : Append(s, x)[i] = s[i]
  OBVIOUS

LEMMA Sliced ==
  ASSUME NEW S, NEW s, NEW m \in Int, NEW n \in Int, \A i \in m .. n : s[i] \in S
  PROVE  /\ SubSeq(s, m, n) \in Seq(S)
         /\ Len(SubSeq(s, m, n)) = IF m <= n THEN n - m + 1 ELSE 0
         /\ \A i \in 1 .. n - m + 1 : SubSeq(s, m, n)[i] = s[m + i - 1]
  OBVIOUS

----------------------------------------------------------------------------
(* Frames                                                                    *)

\* All that the flag of a frame takes: the field is there, and it is a Boolean.
HasFlag(f) == "is_static" \in DOMAIN f /\ f.is_static \in BOOLEAN

\* g comes from f by changes of other fields.
SameFlag(f, g) == HasFlag(g) /\ g.is_static = f.is_static

\* No field but the flag itself changes the flag.
LEMMA FieldsKeepFlag ==
  ASSUME NEW f, HasFlag(f), NEW v
  PROVE  /\ SameFlag(f, f)
         /\ SameFlag(f, [f EXCEPT !.pc = v])
         /\ SameFlag(f, [f EXCEPT !.stack = v])
         /\ SameFlag(f, [f EXCEPT !.memory = v])
         /\ SameFlag(f, [f EXCEPT !.transient_storage = v])
         /\ SameFlag(f, Push(f, v))
         /\ SameFlag(f, increment_pc_by(f, v))
<1> USE DEF HasFlag, SameFlag
<1>1. SameFlag(f, f)
  OBVIOUS
<1>2. SameFlag(f, [f EXCEPT !.pc = v])
  OBVIOUS
<1>3. SameFlag(f, [f EXCEPT !.stack = v])
  OBVIOUS
<1>4. SameFlag(f, [f EXCEPT !.memory = v])
  OBVIOUS
<1>5. SameFlag(f, [f EXCEPT !.transient_storage = v])
  OBVIOUS
<1>6. SameFlag(f, Push(f, v))
  BY DEF Push
<1>7. SameFlag(f, increment_pc_by(f, v))
  BY DEF increment_pc_by
<1> QED
  BY <1>1, <1>2, <1>3, <1>4, <1>5, <1>6, <1>7

\* Nor does a sequence of changes.
LEMMA SameFlagTransitive ==
  ASSUME NEW f, NEW g, NEW h, SameFlag(f, g), SameFlag(g, h)
  PROVE  SameFlag(f, h)
BY DEF SameFlag

\* The frame that an arm starts from.
LEMMA PoppedKeepsFlag ==
  ASSUME HasFlag(frame)
  PROVE  SameFlag(frame, Fetched) /\ \A k : SameFlag(frame, Popped(k))
<1>1. SameFlag(frame, Fetched)
  BY FieldsKeepFlag, ZenonT(60) DEF Fetched
<1>2. HasFlag(Fetched)
  BY <1>1 DEF SameFlag
<1>3. \A k : SameFlag(Fetched, Popped(k))
  BY <1>2, FieldsKeepFlag, ZenonT(60) DEF Popped
<1> QED
  BY <1>1, <1>3, SameFlagTransitive

----------------------------------------------------------------------------
(* The inductive invariant                                                   *)

\* A frame below a static one is static, and so is the current one.
StaticInv ==
  /\ HasFlag(frame)
  /\ call_frames \in Seq(Range(call_frames))
  /\ \A i \in 1 .. Len(call_frames) :
       /\ HasFlag(call_frames[i])
       /\ call_frames[i].is_static =>
            /\ frame.is_static
            /\ \A j \in i .. Len(call_frames) : call_frames[j].is_static

\* A turn of the loop that stays in the frame and writes nothing.
Quiet ==
  /\ db' = db
  /\ call_frames' = call_frames
  /\ SameFlag(frame, frame')

\* The arms that compute, read and jump.
LEMMA ComputingArms ==
  ASSUME HasFlag(frame),
         Compute \/ Exp \/ PushKnown \/ Unfinished \/ BlockHash \/ PushBytes \/ Dup \/ Swap \/ Pop
  PROVE  Quiet
<1>1. SameFlag(frame, frame) /\ SameFlag(frame, Fetched) /\ \A k : SameFlag(frame, Popped(k))
  BY PoppedKeepsFlag, FieldsKeepFlag, ZenonT(60)
<1>2. \A f, v : SameFlag(frame, f) => SameFlag(frame, Push(f, v))
  BY FieldsKeepFlag, SameFlagTransitive, ZenonT(60) DEF SameFlag
<1>3. \A f, v : SameFlag(frame, f) => SameFlag(frame, increment_pc_by(f, v))
  BY FieldsKeepFlag, SameFlagTransitive, ZenonT(60) DEF SameFlag
<1>4. \A f, v : SameFlag(frame, f) => SameFlag(frame, [f EXCEPT !.stack = v])
  BY FieldsKeepFlag, SameFlagTransitive, ZenonT(60) DEF SameFlag
<1> USE DEF Quiet, Charged, Popping, Continue, Break, Panic
<1>5. CASE Compute
  BY <1>1, <1>2, <1>5 DEF Compute
<1>6. CASE Exp
  BY <1>1, <1>2, <1>6 DEF Exp
<1>7. CASE PushKnown
  BY <1>1, <1>2, <1>7 DEF PushKnown
<1>8. CASE Unfinished
  BY <1>1, <1>8 DEF Unfinished
<1>9. CASE BlockHash
  BY <1>1, <1>2, <1>9 DEF BlockHash
<1>10. CASE PushBytes
  BY <1>1, <1>2, <1>3, <1>10 DEF PushBytes
<1>11. CASE Dup
  BY <1>1, <1>2, <1>11 DEF Dup
<1>12. CASE Swap
  BY <1>1, <1>4, <1>12 DEF Swap
<1>13. CASE Pop
  BY <1>1, <1>13 DEF Pop
<1> QED
  BY <1>5, <1>6, <1>7, <1>8, <1>9, <1>10, <1>11, <1>12, <1>13

\* Jumps, and the arms that read and write memory, logs and transient storage.
LEMMA MemoryArms ==
  ASSUME HasFlag(frame),
         \/ Jump \/ Jumpi \/ Jumpdest \/ CallDataLoad \/ CopyData \/ Keccak256 \/ Mload \/ Mstore
         \/ Mcopy \/ Log \/ Sload \/ Tload \/ Tstore \/ Stop \/ Unknown
  PROVE  Quiet
<1>1. SameFlag(frame, frame) /\ SameFlag(frame, Fetched) /\ \A k : SameFlag(frame, Popped(k))
  BY PoppedKeepsFlag, FieldsKeepFlag, ZenonT(60)
<1>2. \A f, v : SameFlag(frame, f) => SameFlag(frame, Push(f, v))
  BY FieldsKeepFlag, SameFlagTransitive, ZenonT(60) DEF SameFlag
<1>3. \A f, v : SameFlag(frame, f) => SameFlag(frame, [f EXCEPT !.pc = v])
  BY FieldsKeepFlag, SameFlagTransitive, ZenonT(60) DEF SameFlag
<1>4. \A f, v : SameFlag(frame, f) => SameFlag(frame, [f EXCEPT !.memory = v])
  BY FieldsKeepFlag, SameFlagTransitive, ZenonT(60) DEF SameFlag
<1>5. \A f, v : SameFlag(frame, f) => SameFlag(frame, [f EXCEPT !.transient_storage = v])
  BY FieldsKeepFlag, SameFlagTransitive, ZenonT(60) DEF SameFlag
<1>6. \A f, v, w : SameFlag(frame, f) => SameFlag(frame, [f EXCEPT !.memory = v, !.logs = w])
  BY DEF SameFlag, HasFlag
<1> USE DEF Quiet, Charged, Popping, Continue, Break, Panic
<1>7. CASE Jump
  BY <1>1, <1>3, <1>7 DEF Jump
<1>8. CASE Jumpi
  <2>1. \/ Panic \/ Break(Fetched) \/ Continue(Popped(2), 10)
        \/ \E v : Continue([Popped(2) EXCEPT !.pc = v], 10)
    <3> HIDE DEF Continue, Break, Panic
    <3> QED BY <1>8, ZenonT(60) DEF Jumpi
  <2> QED
    BY <1>1, <1>3, <2>1
<1>9. CASE Jumpdest
  BY <1>1, <1>9 DEF Jumpdest
<1>10. CASE CallDataLoad
  BY <1>1, <1>2, <1>10 DEF CallDataLoad
<1>11. CASE CopyData
  <2>1. \/ Panic \/ Break(Popped(3))
        \/ \E cost : Continue(Popped(3), cost)
        \/ \E cost, v : Continue([Popped(3) EXCEPT !.memory = v], cost)
    <3> USE DEF Popping
    <3> HIDE DEF Continue, Break, Panic
    <3> QED BY <1>11, ZenonT(60) DEF CopyData
  <2> QED
    BY <1>1, <1>4, <2>1
<1>12. CASE Keccak256
  <2>1. \/ Panic \/ Break(Popped(2))
        \/ \E cost, u, v : Continue([Push(Popped(2), u) EXCEPT !.memory = v], cost)
    <3> HIDE DEF Continue, Break, Panic
    <3> QED BY <1>12, ZenonT(60) DEF Keccak256
  <2> QED
    BY <1>1, <1>2, <1>4, <2>1
<1>13. CASE Mload
  BY <1>1, <1>2, <1>4, <1>13 DEF Mload
<1>14. CASE Mstore
  BY <1>1, <1>4, <1>14 DEF Mstore
<1>15. CASE Mcopy
  <2>1. Panic \/ \E cost, v : Continue([Popped(3) EXCEPT !.memory = v], cost)
    <3> HIDE DEF Continue, Break, Panic
    <3> QED BY <1>15, ZenonT(60) DEF Mcopy
  <2> QED
    BY <1>1, <1>4, <2>1
<1>16. CASE Log
  <2>1. \/ Panic
        \/ \E k : Break(Popped(k))
        \/ \E cost, k, v, w : Continue([Popped(k) EXCEPT !.memory = v, !.logs = w], cost)
    <3> HIDE DEF Continue, Break, Panic
    <3> DEFINE size == stack[1] + stack[2]
               entry == [address |-> frame.msg_sender,
                         topics |-> SubSeq(stack, 3, 2 + opcode.n),
                         data |-> load_range(frame.memory, stack[1], stack[2])]
               grown == resize(frame.memory, size)
               logs == Append(frame.logs, entry)
               cost == 375 + 375 * opcode.n + 8 * stack[2] + expansion_cost(frame.memory, size)
               left == 2 + opcode.n
    <3>1. \/ Panic \/ Break(Popped(left))
          \/ Continue([Popped(left) EXCEPT !.memory = grown, !.logs = logs], cost)
      BY <1>16, ZenonT(60) DEF Log
    <3> HIDE DEF size, entry, grown, logs, cost, left
    <3> QED BY <3>1, ZenonT(60)
  <2>2. \A k, v, w : SameFlag(frame, [Popped(k) EXCEPT !.memory = v, !.logs = w])
    BY <1>1, <1>6, ZenonT(60)
  <2>3. ASSUME NEW cost, NEW k, NEW v, NEW w,
               Continue([Popped(k) EXCEPT !.memory = v, !.logs = w], cost)
        PROVE  Quiet
    BY <2>2, <2>3, ZenonT(60)
  <2> QED
    BY <1>1, <2>1, <2>3, ZenonT(60)
<1>17. CASE Sload
  BY <1>1, <1>2, <1>17 DEF Sload
<1>18. CASE Tload
  BY <1>1, <1>2, <1>18 DEF Tload
<1>19. CASE Tstore
  <2>1. \/ Panic \/ Break(Fetched)
        \/ \E v : Continue([Popped(2) EXCEPT !.transient_storage = v], 100)
    <3> HIDE DEF Continue, Break, Panic
    <3> QED BY <1>19, ZenonT(60) DEF Tstore
  <2> QED
    BY <1>1, <1>5, <2>1
<1>20. CASE Stop \/ Unknown
  BY <1>1, <1>20 DEF Stop, Unknown
<1> QED
  BY <1>7, <1>8, <1>9, <1>10, <1>11, <1>12, <1>13, <1>14, <1>15, <1>16, <1>17, <1>18, <1>19,
     <1>20

\* A turn that enters a callee, static when its caller is.
Enters ==
  /\ db' = db
  /\ HasFlag(frame')
  /\ frame.is_static => frame'.is_static
  /\ \E caller : SameFlag(frame, caller) /\ call_frames' = Append(call_frames, caller)

\* What the four calls share: the frame of the callee gets the flag it is given.
LEMMA GenericCall ==
  ASSUME HasFlag(frame),
         NEW k, NEW gas, NEW value, NEW msg_sender, NEW to, NEW code_address, NEW delegate,
         NEW is_static \in BOOLEAN, frame.is_static => is_static,
         NEW args_offset, NEW args_size, NEW ret_offset, NEW ret_size,
         generic_call(Popped(k), gas, value, msg_sender, to, code_address, delegate, is_static,
                      args_offset, args_size, ret_offset, ret_size)
  PROVE  Quiet \/ Enters
<1>1. SameFlag(frame, frame) /\ SameFlag(frame, Popped(k))
  BY PoppedKeepsFlag, FieldsKeepFlag, ZenonT(60)
<1>2. \A v : SameFlag(frame, Push(Popped(k), v))
  BY <1>1, FieldsKeepFlag, SameFlagTransitive, ZenonT(60) DEF SameFlag
<1>3. \A u, v, w : SameFlag(frame, [Popped(k) EXCEPT !.memory = u, !.return_data_offset = v,
                                                     !.return_data_size = w])
  BY <1>1 DEF SameFlag, HasFlag
<1>4. \A code, data : LET callee == CallFrame(gas, msg_sender, to, code_address, delegate, code,
                                              value, data, is_static)
                      IN  HasFlag(callee) /\ callee.is_static = is_static
  BY DEF CallFrame, HasFlag
<1> QED
  BY <1>1, <1>2, <1>3, <1>4, ZenonT(60) DEF generic_call, Quiet, Enters

\* The calls.
LEMMA CallArms ==
  ASSUME HasFlag(frame), Call \/ CallCode \/ DelegateCall \/ StaticCall
  PROVE  Quiet \/ Enters
<1>1. SameFlag(frame, frame) /\ \A k : SameFlag(frame, Popped(k))
  BY PoppedKeepsFlag, FieldsKeepFlag, ZenonT(60)
<1>2. frame.is_static \in BOOLEAN /\ TRUE \in BOOLEAN
  BY DEF HasFlag
<1>3. Panic => Quiet
  BY <1>1 DEF Panic, Quiet
<1>4. CASE Call
  <2>1. (\E k : Break(Popped(k))) => Quiet
    BY <1>1 DEF Break, Quiet
  <2> QED
    BY <1>2, <1>3, <1>4, <2>1, GenericCall DEF Call, Popping
<1>5. CASE CallCode
  BY <1>2, <1>3, <1>5, GenericCall DEF CallCode
<1>6. CASE DelegateCall
  BY <1>2, <1>3, <1>6, GenericCall DEF DelegateCall
<1>7. CASE StaticCall
  BY <1>2, <1>3, <1>7, GenericCall, ZenonT(60) DEF StaticCall
<1> QED
  BY <1>4, <1>5, <1>6, <1>7

\* A turn that returns to the frame that waits.
Leaves ==
  /\ db' = db
  /\ call_frames # <<>>
  /\ SameFlag(call_frames[Len(call_frames)], frame')
  /\ call_frames' = SubSeq(call_frames, 1, Len(call_frames) - 1)

LEMMA ReturnArm ==
  ASSUME StaticInv, Return
  PROVE  Quiet \/ Leaves
<1>1. SameFlag(frame, frame) /\ \A k : SameFlag(frame, Popped(k))
  BY PoppedKeepsFlag, FieldsKeepFlag, ZenonT(60) DEF StaticInv
<1>2. \A f, v : SameFlag(frame, f) => SameFlag(frame, Push(f, v))
  BY FieldsKeepFlag, SameFlagTransitive, ZenonT(60) DEF SameFlag
<1>3. \A f, v : SameFlag(frame, f) => SameFlag(frame, [f EXCEPT !.memory = v])
  BY FieldsKeepFlag, SameFlagTransitive, ZenonT(60) DEF SameFlag
<1>4. ASSUME call_frames # <<>>
      PROVE  HasFlag(call_frames[Len(call_frames)])
  <2>1. Len(call_frames) \in 1 .. Len(call_frames)
    BY <1>4, Indexed, Emptiness DEF StaticInv
  <2> QED
    BY <2>1 DEF StaticInv
<1>5. ASSUME NEW parent, HasFlag(parent), NEW u, NEW v
      PROVE  SameFlag(parent, [Push(parent, u) EXCEPT !.returndata = v,
                                 !.return_data_offset = NONE, !.return_data_size = NONE])
  <2>1. SameFlag(parent, Push(parent, u))
    BY <1>5, FieldsKeepFlag, ZenonT(60)
  <2> QED
    BY <2>1 DEF SameFlag, HasFlag
<1>6. \/ Panic \/ Break(Popped(2))
      \/ \E u, v : Break([Push(Popped(2), u) EXCEPT !.memory = v])
      \/ /\ call_frames # <<>> /\ db' = db
         /\ \E u, v : frame' = [Push(call_frames[Len(call_frames)], u) EXCEPT
                                 !.returndata = v,
                                 !.return_data_offset = NONE, !.return_data_size = NONE]
         /\ call_frames' = SubSeq(call_frames, 1, Len(call_frames) - 1)
  BY ZenonT(60) DEF Return, Popping
<1>7. CASE Panic \/ Break(Popped(2)) \/ \E u, v : Break([Push(Popped(2), u) EXCEPT !.memory = v])
  BY <1>1, <1>2, <1>3, <1>7 DEF Panic, Break, Quiet
<1>8. CASE /\ call_frames # <<>> /\ db' = db
           /\ \E u, v : frame' = [Push(call_frames[Len(call_frames)], u) EXCEPT
                                   !.returndata = v,
                                   !.return_data_offset = NONE, !.return_data_size = NONE]
           /\ call_frames' = SubSeq(call_frames, 1, Len(call_frames) - 1)
  <2>1. SameFlag(call_frames[Len(call_frames)], frame')
    <3>1. PICK u, v : frame' = [Push(call_frames[Len(call_frames)], u) EXCEPT !.returndata = v,
                                  !.return_data_offset = NONE, !.return_data_size = NONE]
      BY <1>8, ZenonT(60)
    <3>2. PICK parent : parent = call_frames[Len(call_frames)]
      OBVIOUS
    <3>3. HasFlag(parent)
      BY <1>4, <1>8, <3>2
    <3>4. SameFlag(parent, [Push(parent, u) EXCEPT !.returndata = v,
                              !.return_data_offset = NONE, !.return_data_size = NONE])
      BY <1>5, <3>3, ZenonT(60)
    <3> QED
      BY <3>1, <3>2, <3>4
  <2> QED
    BY <1>8, <2>1 DEF Leaves
<1> QED
  BY <1>6, <1>7, <1>8, ZenonT(60)

\* A sequence is one of its own elements.
LEMMA OwnRange ==
  ASSUME NEW S, NEW s \in Seq(S)
  PROVE  s \in Seq(Range(s))
<1>1. Len(s) \in Nat /\ DOMAIN s = 1 .. Len(s) /\ s \in [1 .. Len(s) -> S]
  BY Indexed
<1>2. s \in [1 .. Len(s) -> Range(s)]
  BY <1>1 DEF Range
<1> QED
  BY <1>1, <1>2

\* Every turn of the loop keeps the flags of the frames in order.
LEMMA StaticStep ==
  ASSUME StaticInv, [Next]_vars
  PROVE  /\ StaticInv'
         /\ (\E f \in {frame} \union Range(call_frames) : f.is_static) => db' = db
<1>1. HasFlag(frame)
  BY DEF StaticInv
<1>2. Len(call_frames) \in Nat /\ DOMAIN call_frames = 1 .. Len(call_frames)
  BY Indexed DEF StaticInv
<1>3. CASE Quiet
  BY <1>3 DEF Quiet, StaticInv, SameFlag
<1>4. CASE Enters
  <2>1. PICK caller : SameFlag(frame, caller) /\ call_frames' = Append(call_frames, caller)
    BY <1>4 DEF Enters
  <2> DEFINE S == Range(call_frames) \union {caller}
  <2>2. call_frames \in Seq(S) /\ caller \in S
    BY <1>2 DEF StaticInv
  <2>3. /\ call_frames' \in Seq(S)
        /\ Len(call_frames') = Len(call_frames) + 1
        /\ \A i \in 1 .. Len(call_frames) : call_frames'[i] = call_frames[i]
        /\ call_frames'[Len(call_frames) + 1] = caller
    BY <2>1, <2>2, Appended
  <2>4. call_frames' \in Seq(Range(call_frames'))
    BY <2>3, OwnRange
  <2>5. ASSUME NEW i \in 1 .. Len(call_frames')
        PROVE  /\ HasFlag(call_frames'[i])
               /\ call_frames'[i].is_static =>
                    /\ frame'.is_static
                    /\ \A j \in i .. Len(call_frames') : call_frames'[j].is_static
    <3>1. CASE i \in 1 .. Len(call_frames)
      <4>1. HasFlag(call_frames[i]) /\ call_frames'[i] = call_frames[i]
        BY <2>3, <3>1 DEF StaticInv
      <4>2. ASSUME call_frames[i].is_static
            PROVE  /\ frame'.is_static
                   /\ \A j \in i .. Len(call_frames') : call_frames'[j].is_static
        <5>1. frame.is_static /\ \A j \in i .. Len(call_frames) : call_frames[j].is_static
          BY <3>1, <4>2 DEF StaticInv
        <5>2. frame'.is_static /\ caller.is_static
          BY <1>4, <2>1, <5>1 DEF Enters, SameFlag
        <5> QED
          BY <1>2, <2>3, <3>1, <5>1, <5>2
      <4> QED
        BY <4>1, <4>2
    <3>2. CASE i = Len(call_frames) + 1
      <4>1. HasFlag(caller) /\ call_frames'[i] = caller /\ caller.is_static = frame.is_static
        BY <2>1, <2>3, <3>2 DEF SameFlag
      <4>2. \A j \in i .. Len(call_frames') : j = i
        BY <1>2, <2>3, <3>2
      <4> QED
        BY <1>4, <4>1, <4>2 DEF Enters
    <3> QED
      BY <1>2, <2>3, <3>1, <3>2
  <2> QED
    BY <1>4, <2>4, <2>5 DEF StaticInv, Enters
<1>5. CASE Leaves
  <2> DEFINE n == Len(call_frames)
             S == Range(call_frames)
  <2>1. n \in Nat \ {0} /\ n \in Int /\ n - 1 \in Int
    BY <1>5, Emptiness DEF Leaves, StaticInv
  <2>2. \A i \in 1 .. n - 1 : call_frames[i] \in S
    BY <1>2, <2>1 DEF Range
  <2>3. /\ call_frames' \in Seq(S)
        /\ Len(call_frames') = n - 1
        /\ \A i \in 1 .. n - 1 : call_frames'[i] = call_frames[i]
    <3>1. call_frames' = SubSeq(call_frames, 1, n - 1)
      BY <1>5 DEF Leaves
    <3> HIDE DEF n, S
    <3>2. /\ SubSeq(call_frames, 1, n - 1) \in Seq(S)
          /\ Len(SubSeq(call_frames, 1, n - 1)) = IF 1 <= n - 1 THEN n - 1 - 1 + 1 ELSE 0
          /\ \A i \in 1 .. n - 1 - 1 + 1 : SubSeq(call_frames, 1, n - 1)[i] = call_frames[1 + i - 1]
      BY <2>1, <2>2, Sliced
    <3>3. (IF 1 <= n - 1 THEN n - 1 - 1 + 1 ELSE 0) = n - 1 /\ n - 1 - 1 + 1 = n - 1
      BY <2>1
    <3>4. \A i \in 1 .. n - 1 : 1 + i - 1 = i
      BY <2>1
    <3> QED
      BY <3>1, <3>2, <3>3, <3>4
  <2>4. call_frames' \in Seq(Range(call_frames'))
    BY <2>3, OwnRange
  <2>5. HasFlag(frame') /\ frame'.is_static = call_frames[n].is_static
    BY <1>5 DEF Leaves, SameFlag
  <2> HIDE DEF S
  <2>6. ASSUME NEW i \in 1 .. n - 1
        PROVE  /\ HasFlag(call_frames[i])
               /\ call_frames[i].is_static =>
                    /\ call_frames[n].is_static
                    /\ \A j \in i .. n - 1 : call_frames[j].is_static
    <3>1. i \in 1 .. n /\ n \in i .. n /\ \A j \in i .. n - 1 : j \in i .. n
      BY <2>1
    <3> QED
      BY <3>1 DEF StaticInv
  <2> HIDE DEF n
  <2>7. \A i \in 1 .. n - 1 : \A j \in i .. n - 1 : j \in 1 .. n - 1
    BY <2>1
  <2> QED
    BY <1>5, <2>3, <2>4, <2>5, <2>6, <2>7 DEF StaticInv, Leaves
<1>6. CASE Sstore
  <2>1. CASE Panic
    <3>1. Quiet
      BY <1>1, <2>1, FieldsKeepFlag, ZenonT(60) DEF Panic, Quiet
    <3> QED
      BY <1>3, <3>1
  <2>2. CASE ~frame.is_static /\ frame' = Popped(2) /\ call_frames' = call_frames
    <3>1. SameFlag(frame, frame')
      BY <1>1, <2>2, PoppedKeepsFlag
    <3>2. StaticInv'
      BY <2>2, <3>1 DEF StaticInv, SameFlag
    <3>3. ~ \E f \in {frame} \union Range(call_frames) : f.is_static
      BY <1>2, <2>2 DEF StaticInv, Range
    <3> QED
      BY <3>2, <3>3
  <2> QED
    BY <1>6, <2>1, <2>2 DEF Sstore
<1>7. CASE Done \/ UNCHANGED vars
  <2>1. Quiet
    BY <1>1, <1>7, FieldsKeepFlag, ZenonT(60) DEF Done, vars, Quiet
  <2> QED
    BY <1>3, <2>1
<1> QED
  BY <1>1, <1>3, <1>4, <1>5, <1>6, <1>7, ComputingArms, MemoryArms, CallArms, ReturnArm
     DEF Next, Step

\* Below a STATICCALL nothing is written, whatever calls are made there: for any
\* code, in the contract called and in those it calls in turn (vm.rs: CALL, CALLCODE
\* and DELEGATECALL hand the flag on, SSTORE looks at the flag of its own frame).
THEOREM StaticIsUnchanged == Spec => StaticUnchanged
<1> DEFINE Unwritten == (\E f \in {frame} \union Range(call_frames) : f.is_static) => db' = db
<1>1. Init => StaticInv
  <2> SUFFICES ASSUME Init PROVE StaticInv
    OBVIOUS
  <2>1. PICK setup \in Setups :
          /\ call_frames = <<>>
          /\ frame = [new_from_bytecode(setup.bytecode) EXCEPT !.calldata = setup.calldata]
    BY ZenonT(60) DEF Init
  <2>2. HasFlag(frame)
    BY <2>1 DEF new_from_bytecode, CallFrame, HasFlag
  <2>3. call_frames \in Seq(Range(call_frames)) /\ Len(call_frames) = 0
    BY <2>1, Emptiness
  <2> QED
    BY <2>2, <2>3 DEF StaticInv
<1>2. StaticInv /\ [Next]_vars => StaticInv' /\ Unwritten
  BY StaticStep
<1>3. StaticInv /\ [Next]_vars => [Unwritten]_vars
  BY <1>2
<1>4. StaticUnchanged <=> [][Unwritten]_vars
  BY DEF StaticUnchanged
<1> QED
  BY <1>1, <1>2, <1>3, <1>4, PTL DEF Spec
=============================================================================
