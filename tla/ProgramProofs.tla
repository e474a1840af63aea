---------------------------- MODULE ProgramProofs -----------------------------
(***************************************************************************)
(* What holds of the interpreter and of the life of an object in Program,  *)
(* for any object, methods, programs and sizes: DepthBounded of Interp and *)
(* TablesExact of Program.                                                 *)
(*                                                                         *)
(* A step of execute() does one of four things to the frames: it spends a  *)
(* tick of the current one (Ran), takes it away (frame_return()), puts one *)
(* in front of them (frame_start()), or changes the current one without    *)
(* spending anything (a handler is entered).  The last is why an error     *)
(* must never be under way without a frame: the current frame would be     *)
(* nobody's.                                                               *)
(*                                                                         *)
(* The tables of the object change when a method is compiled, deleted or   *)
(* returns; what it used is discarded when it is neither installed nor in  *)
(* a frame any more.                                                       *)
(***************************************************************************)
EXTENDS TablesProofs

---------------------------------------------------------------------------
(* Sequences of frames                                                     *)

FrameOK(f) ==
  {"ticks", "method"} \subseteq DOMAIN f /\ f.ticks \in 1 .. METHOD_TICKS
FramesOK(fs) ==
  /\ fs \in Seq({fs[i] : i \in DOMAIN fs})
  /\ \A i \in DOMAIN fs : FrameOK(fs[i])

\* The current frame has a tick less and the same method, and the others are as
\* they were.
Ran(fs, gs) ==
  /\ fs # <<>> /\ fs[1].ticks > 1
  /\ gs = [fs EXCEPT ![1] = gs[1]]
  /\ {"ticks", "method"} \subseteq DOMAIN gs[1]
  /\ gs[1].ticks = fs[1].ticks - 1 /\ gs[1].method = fs[1].method

Limited ==
  /\ FramesOK(frames)
  /\ Len(frames) <= MAX_CALL_DEPTH + 1
  /\ raised # NotRaised => frames # <<>>

\* Frames are within their limits when each one is.
LEMMA FramesAre ==
  ASSUME NEW fs, NEW S, fs \in Seq(S), \A i \in 1 .. Len(fs) : FrameOK(fs[i])
  PROVE  FramesOK(fs)
<1>1. DOMAIN fs = 1 .. Len(fs) /\ Len(fs) \in Nat
  OBVIOUS
<1>2. fs = [i \in 1 .. Len(fs) |-> fs[i]]
  OBVIOUS
<1>3. fs \in [1 .. Len(fs) -> {fs[i] : i \in DOMAIN fs}]
  BY <1>1, <1>2
<1>4. fs \in Seq({fs[i] : i \in DOMAIN fs})
  BY <1>1, <1>3, SeqDef
<1> QED
  BY <1>1, <1>4 DEF FramesOK

\* The current frame is replaced by another.
LEMMA HeadReplaced ==
  ASSUME NEW fs, FramesOK(fs), fs # <<>>, NEW f, FrameOK(f)
  PROVE  /\ FramesOK([fs EXCEPT ![1] = f])
         /\ Len([fs EXCEPT ![1] = f]) = Len(fs)
         /\ [fs EXCEPT ![1] = f] # <<>>
<1> DEFINE S == {fs[i] : i \in DOMAIN fs}
           gs == [fs EXCEPT ![1] = f]
<1>1. fs \in Seq(S) /\ Len(fs) \in Nat /\ DOMAIN fs = 1 .. Len(fs)
  BY DEF FramesOK
<1>2. Len(fs) >= 1
  BY <1>1, EmptySeq
<1>3. fs \in Seq(S \cup {f})
  <2>1. S \subseteq S \cup {f}
    OBVIOUS
  <2> QED
    BY <1>1, <2>1
<1>4. gs \in Seq(S \cup {f}) /\ Len(gs) = Len(fs)
  BY <1>1, <1>2, <1>3, ExceptSeq
<1>5. \A i \in 1 .. Len(gs) : FrameOK(gs[i])
  BY <1>1, <1>2, <1>4 DEF FramesOK
<1>6. gs # <<>>
  BY <1>2, <1>4
<1> QED
  BY <1>4, <1>5, <1>6, FramesAre

\* frame_return(): the current frame goes.
LEMMA HeadGone ==
  ASSUME NEW fs, FramesOK(fs), fs # <<>>
  PROVE  FramesOK(Tail(fs)) /\ Len(Tail(fs)) = Len(fs) - 1
<1> DEFINE S == {fs[i] : i \in DOMAIN fs}
<1>1. fs \in Seq(S) /\ Len(fs) \in Nat /\ DOMAIN fs = 1 .. Len(fs)
  BY DEF FramesOK
<1>2. /\ Tail(fs) \in Seq(S) /\ Len(Tail(fs)) = Len(fs) - 1
      /\ \A i \in 1 .. Len(Tail(fs)) : Tail(fs)[i] = fs[i + 1]
  BY <1>1, HeadTailProperties
<1>3. \A i \in 1 .. Len(Tail(fs)) : FrameOK(Tail(fs)[i])
  BY <1>1, <1>2 DEF FramesOK
<1> QED
  BY <1>2, <1>3, FramesAre

\* frame_start(): a frame is put in front.
LEMMA HeadAdded ==
  ASSUME NEW fs, FramesOK(fs), NEW f, FrameOK(f)
  PROVE  FramesOK(<<f>> \o fs) /\ Len(<<f>> \o fs) = Len(fs) + 1
<1> DEFINE S == {fs[i] : i \in DOMAIN fs} \cup {f}
<1>1. fs \in Seq(S) /\ Len(fs) \in Nat /\ DOMAIN fs = 1 .. Len(fs)
  <2>1. fs \in Seq({fs[i] : i \in DOMAIN fs})
    BY DEF FramesOK
  <2>2. {fs[i] : i \in DOMAIN fs} \subseteq S
    OBVIOUS
  <2> QED
    BY <2>1, <2>2
<1>2. <<f>> \in Seq(S) /\ Len(<<f>>) = 1 /\ <<f>>[1] = f
  OBVIOUS
<1>3. /\ <<f>> \o fs \in Seq(S) /\ Len(<<f>> \o fs) = 1 + Len(fs)
      /\ \A i \in 1 .. 1 + Len(fs) :
           (<<f>> \o fs)[i] = IF i <= 1 THEN <<f>>[i] ELSE fs[i - 1]
  BY <1>1, <1>2, ConcatProperties
<1>4. \A i \in 1 .. Len(<<f>> \o fs) : FrameOK((<<f>> \o fs)[i])
  BY <1>1, <1>2, <1>3 DEF FramesOK
<1>5. FramesOK(<<f>> \o fs)
  BY <1>3, <1>4, FramesAre
<1> QED
  BY <1>1, <1>3, <1>5

\* Frames are not empty, and the current one is the first.
LEMMA Current ==
  ASSUME FramesOK(frames), frames # <<>>
  PROVE  /\ cur_frame = frames[1] /\ FrameOK(cur_frame)
         /\ Len(frames) \in Nat /\ Len(frames) >= 1 /\ 1 \in DOMAIN frames
         /\ DOMAIN frames = 1 .. Len(frames)
<1>1. frames \in Seq({frames[i] : i \in DOMAIN frames})
  BY DEF FramesOK
<1>2. Len(frames) \in Nat /\ Len(frames) >= 1 /\ DOMAIN frames = 1 .. Len(frames)
  BY <1>1, EmptySeq
<1>3. cur_frame = frames[1]
  BY <1>1, <1>2 DEF cur_frame
<1> QED
  BY <1>2, <1>3 DEF FramesOK

---------------------------------------------------------------------------
(* What the pieces of the actions do to the frames                         *)

\* An opcode that leaves the frames but for the position and the ticks of
\* the last keeps the limits.
LEMMA RanIsLimited ==
  ASSUME Limited, Ran(frames, frames')
  PROVE  FramesOK(frames') /\ Len(frames') = Len(frames) /\ frames' # <<>>
<1> USE DEF Limited
<1>1. FrameOK(frames[1])
  BY Current DEF Ran
<1>2. FrameOK(frames'[1])
  BY <1>1, LimitsAssumption DEF Ran, FrameOK
<1> QED
  BY <1>2, HeadReplaced DEF Ran

\* The frames after an opcode that goes on at some position
LEMMA AtPcRuns ==
  ASSUME Limited, frames # <<>>, cur_frame.ticks > 1, NEW pc
  PROVE  Ran(frames, AtPc(pc)) /\ FramesOK(AtPc(pc))
           /\ Len(AtPc(pc)) = Len(frames) /\ AtPc(pc) # <<>>
<1> USE DEF Limited
<1> DEFINE f == [[frames[1] EXCEPT !.ticks = @ - 1] EXCEPT !.pc = pc]
<1>1. cur_frame = frames[1] /\ FrameOK(frames[1]) /\ 1 \in DOMAIN frames
  BY Current
<1>2. Spent[1] = [frames[1] EXCEPT !.ticks = @ - 1] /\ 1 \in DOMAIN Spent
  BY <1>1 DEF Spent
<1>3. AtPc(pc) = [frames EXCEPT ![1] = f]
  BY <1>1, <1>2 DEF AtPc, Spent
<1>4. AtPc(pc)[1] = f
  BY <1>1, <1>3
<1>5. /\ {"ticks", "method"} \subseteq DOMAIN f /\ f.ticks = frames[1].ticks - 1
      /\ f.method = frames[1].method
  BY <1>1 DEF FrameOK
<1>6. Ran(frames, AtPc(pc))
  BY <1>1, <1>3, <1>4, <1>5 DEF Ran
<1>7. FrameOK(f)
  BY <1>1, <1>5, LimitsAssumption DEF FrameOK
<1> QED
  BY <1>3, <1>6, <1>7, HeadReplaced

\* A tick spent at the same place: an error begins.
LEMMA SpentRuns ==
  ASSUME Limited, frames # <<>>, cur_frame.ticks > 1
  PROVE  Ran(frames, Spent)
<1> USE DEF Limited
<1>1. cur_frame = frames[1] /\ FrameOK(frames[1]) /\ 1 \in DOMAIN frames
  BY Current
<1>2. Spent = [frames EXCEPT ![1] = [frames[1] EXCEPT !.ticks = @ - 1]]
  BY <1>1 DEF Spent
<1>3. Spent[1] = [frames[1] EXCEPT !.ticks = @ - 1]
  BY <1>1, <1>2
<1> QED
  BY <1>1, <1>2, <1>3 DEF Ran, FrameOK

\* A change of the current frame that keeps its ticks and its method, after AtPc
LEMMA FieldRuns ==
  ASSUME Limited, frames # <<>>, cur_frame.ticks > 1, NEW pc,
         NEW f, NEW field, field \notin {"ticks", "method"}, NEW v,
         f = [AtPc(pc)[1] EXCEPT ![field] = v]
  PROVE  Ran(frames, [AtPc(pc) EXCEPT ![1] = f])
<1> USE DEF Limited
<1>1. /\ Ran(frames, AtPc(pc)) /\ FramesOK(AtPc(pc))
      /\ Len(AtPc(pc)) = Len(frames)
  BY AtPcRuns
<1>2. 1 \in DOMAIN frames
  BY Current
<1>3. AtPc(pc) = [frames EXCEPT ![1] = AtPc(pc)[1]] /\ 1 \in DOMAIN AtPc(pc)
  BY <1>1, <1>2 DEF Ran
<1>4. /\ {"ticks", "method"} \subseteq DOMAIN f /\ f.ticks = AtPc(pc)[1].ticks
      /\ f.method = AtPc(pc)[1].method
  BY <1>1 DEF Ran
<1>5. [AtPc(pc) EXCEPT ![1] = f] = [frames EXCEPT ![1] = f]
  BY <1>2, <1>3
<1>6. [AtPc(pc) EXCEPT ![1] = f][1] = f
  BY <1>3
<1> QED
  BY <1>1, <1>4, <1>5, <1>6 DEF Ran

---------------------------------------------------------------------------
(* The opcodes                                                             *)

\* Opcodes that go on, or throw
Trying ==
  /\ Ran(frames, frames')
  /\ raised = NotRaised

\* An opcode spends a tick of the current frame.
LEMMA ExecutesRuns ==
  ASSUME Limited, NEW op, Executes(op)
  PROVE  /\ frames # <<>> /\ cur_frame.ticks > 1 /\ raised = NotRaised
         /\ \A pc : Ran(frames, AtPc(pc))
         /\ Ran(frames, Spent)
  BY AtPcRuns, SpentRuns DEF Executes

\* The pieces that the opcodes are made of
LEMMA PiecesRun ==
  ASSUME Limited, NEW op, Executes(op)
  PROVE  /\ Advance => Ran(frames, frames')
         /\ \A pc : Goto(pc) => Ran(frames, frames')
         /\ \A e : Throw(e) => Ran(frames, frames')
         /\ \A e : Bad(e) => Ran(frames, frames')
         /\ \A d : Gives(d) => Ran(frames, frames')
         /\ \A m, n : CaseJump(m, n) => Ran(frames, frames')
         /\ \A n, ok, d, e : Operator(n, ok, d, e) => Ran(frames, frames')
         /\ Join => Ran(frames, frames')
<1>1. \A pc : Goto(pc) => Ran(frames, frames')
  BY ExecutesRuns DEF Goto
<1>2. Advance => Ran(frames, frames')
  BY <1>1 DEF Advance
<1>3. \A e : Throw(e) => Ran(frames, frames')
  BY ExecutesRuns DEF Throw
<1> QED
  BY <1>1, <1>2, <1>3 DEF Bad, Gives, CaseJump, Operator, Join

\* The opcodes of statements go on, or throw.
LEMMA StatementsTry ==
  ASSUME Limited,
         \/ Comment \/ PopOp \/ SetLocal \/ SetObjVar \/ Branch \/ Jump
         \/ ForRange \/ ForList \/ Switch \/ Default \/ CaseValue \/ CaseRange
         \/ Break \/ Continue
  PROVE  Trying
<1>1. CASE Comment
  BY <1>1, PiecesRun, ExecutesRuns DEF Comment, Trying
<1>2. CASE PopOp
  BY <1>2, PiecesRun, ExecutesRuns DEF PopOp, Trying
<1>3. CASE SetLocal
  BY <1>3, PiecesRun, ExecutesRuns DEF SetLocal, Trying
<1>4. CASE SetObjVar
  BY <1>4, PiecesRun, ExecutesRuns DEF SetObjVar, Trying
<1>5. CASE Branch
  BY <1>5, PiecesRun, ExecutesRuns DEF Branch, Trying
<1>6. CASE Jump
  BY <1>6, PiecesRun, ExecutesRuns DEF Jump, Trying
<1>7. CASE ForRange
  BY <1>7, PiecesRun, ExecutesRuns DEF ForRange, Trying
<1>8. CASE ForList
  BY <1>8, PiecesRun, ExecutesRuns DEF ForList, Trying
<1>9. CASE Switch
  BY <1>9, PiecesRun, ExecutesRuns DEF Switch, Trying
<1>10. CASE Default
  BY <1>10, PiecesRun, ExecutesRuns DEF Default, Trying
<1>11. CASE CaseValue
  BY <1>11, PiecesRun, ExecutesRuns DEF CaseValue, Trying
<1>12. CASE CaseRange
  BY <1>12, PiecesRun, ExecutesRuns DEF CaseRange, Trying
<1>13. CASE Break
  BY <1>13, PiecesRun, ExecutesRuns DEF Break, Trying
<1>14. CASE Continue
  BY <1>14, PiecesRun, ExecutesRuns DEF Continue, Trying
<1> QED
  BY <1>1, <1>2, <1>3, <1>4, <1>5, <1>6, <1>7, <1>8, <1>9, <1>10, <1>11,
     <1>12, <1>13, <1>14

\* The opcodes that change specifiers and handlers of the current frame
LEMMA GuardsTry ==
  ASSUME Limited, Catch \/ Guard \/ PopSpecifier \/ HandlerEnd
  PROVE  Trying
<1>1. \A op, pc, field, v :
        Executes(op) /\ field \notin {"ticks", "method"} =>
          Ran(frames, [AtPc(pc) EXCEPT ![1] = [AtPc(pc)[1] EXCEPT ![field] = v]])
  BY ExecutesRuns, FieldRuns
<1>2. CASE Catch
  BY <1>1, <1>2, ExecutesRuns DEF Catch, PushSpecifier, Trying
<1>3. CASE Guard
  <2>1. PICK op \in {"CRITICAL", "PROPAGATE"} :
          Executes(op) /\ PushSpecifier(op, NoError)
    BY <1>3 DEF Guard
  <2> QED
    BY <1>1, <2>1, ExecutesRuns DEF PushSpecifier, Trying
<1>4. CASE PopSpecifier
  BY <1>1, <1>4, ExecutesRuns DEF PopSpecifier, Trying
<1>5. CASE HandlerEnd
  BY <1>1, <1>5, ExecutesRuns DEF HandlerEnd, Trying
<1> QED
  BY <1>2, <1>3, <1>4, <1>5

\* So do those of expressions,
LEMMA ExpressionsTry ==
  ASSUME Limited,
         \/ Literal \/ Name \/ GetLocal \/ GetObjVar \/ StartArgs
         \/ Pass \/ ListOp \/ FrobOp \/ Index \/ ShortCircuitOp
  PROVE  Trying
<1>1. CASE Literal
  BY <1>1, PiecesRun, ExecutesRuns DEF Literal, Trying
<1>2. CASE Name
  BY <1>2, PiecesRun, ExecutesRuns DEF Name, Trying
<1>3. CASE GetLocal
  BY <1>3, PiecesRun, ExecutesRuns DEF GetLocal, Trying
<1>4. CASE GetObjVar
  BY <1>4, PiecesRun, ExecutesRuns DEF GetObjVar, Trying
<1>5. CASE StartArgs
  BY <1>5, PiecesRun, ExecutesRuns DEF StartArgs, Trying
<1>6. CASE Pass
  BY <1>6, PiecesRun, ExecutesRuns DEF Pass, TakesArgs, Trying
<1>7. CASE ListOp
  BY <1>7, PiecesRun, ExecutesRuns DEF ListOp, TakesArgs, Trying
<1>8. CASE FrobOp
  BY <1>8, PiecesRun, ExecutesRuns DEF FrobOp, Trying
<1>9. CASE Index
  BY <1>9, PiecesRun, ExecutesRuns DEF Index, Trying
<1>10. CASE ShortCircuitOp
  BY <1>10, PiecesRun, ExecutesRuns DEF ShortCircuitOp, Trying
<1> QED
  BY <1>1, <1>2, <1>3, <1>4, <1>5, <1>6, <1>7, <1>8, <1>9, <1>10

\* and those of functions and operators.
LEMMA OperationsTry ==
  ASSUME Limited, Operation
  PROVE  Trying
<1>1. CASE Not \/ Negate \/ Multiply \/ Subtract
  BY <1>1, PiecesRun, ExecutesRuns DEF Not, Negate, Multiply, Subtract, Trying
<1>2. CASE Divide
  BY <1>2, PiecesRun, ExecutesRuns DEF Divide, Trying
<1>3. CASE Add
  BY <1>3, PiecesRun, ExecutesRuns DEF Add, Trying
<1>4. CASE SpliceAdd
  BY <1>4, PiecesRun, ExecutesRuns DEF SpliceAdd, Trying
<1>5. CASE Equal
  BY <1>5, PiecesRun, ExecutesRuns DEF Equal, Trying
<1>6. CASE Compare
  BY <1>6, PiecesRun, ExecutesRuns DEF Compare, Trying
<1>7. CASE In
  BY <1>7, PiecesRun, ExecutesRuns DEF In, Trying
<1> QED
  BY <1>1, <1>2, <1>3, <1>4, <1>5, <1>6, <1>7 DEF Operation

\* Functions whose method goes on after them
LEMMA FunctionsTry ==
  ASSUME Limited, ThisOp \/ HandlerOp \/ Listlen \/ DelMethod
  PROVE  Trying
<1>1. CASE ThisOp
  BY <1>1, PiecesRun, ExecutesRuns DEF ThisOp, TakesArgs, Trying
<1>2. CASE HandlerOp
  <2>1. PICK op \in {"error", "traceback"} : Executes(op)
    BY <1>2 DEF HandlerOp, TakesArgs
  <2> QED
    BY <1>2, <2>1, PiecesRun, ExecutesRuns DEF HandlerOp, Trying
<1>3. CASE Listlen
  BY <1>3, PiecesRun, ExecutesRuns DEF Listlen, TakesArgs, Trying
<1>4. CASE DelMethod
  BY <1>4, PiecesRun, ExecutesRuns DEF DelMethod, TakesArgs, Trying
<1> QED
  BY <1>1, <1>2, <1>3, <1>4

---------------------------------------------------------------------------
(* Calls and returns                                                       *)

\* A new frame is within its limits.
LEMMA NewFrame ==
  ASSUME NEW method, NEW n, NEW m
  PROVE  FrameOK(Frame(method, n, m))
  BY LimitsAssumption DEF FrameOK, Frame

\* An opcode that goes on or throws keeps the limits.
LEMMA TryingKeeps ==
  ASSUME Limited, Trying
  PROVE  Limited'
  BY RanIsLimited DEF Limited, Trying

\* A call either throws, or puts a frame in front of at most MAX_CALL_DEPTH.
LEMMA SendMessageKeeps ==
  ASSUME Limited, NEW op, Executes(op),
         NEW dbref, NEW message, NEW s, NEW stack_start, NEW arg_start,
         SendMessage(dbref, message, s, stack_start, arg_start)
  PROVE  Limited'
<1> DEFINE i == FindMethodLocal(object, message)
           f == Frame(MethodAt(object, i), stack_start, arg_start)
<1>1. \/ Ran(frames, frames')
      \/ /\ ~DepthExceeded /\ raised' = raised
         /\ frames' = <<f>> \o AtPc(NextPc)
  BY PiecesRun DEF SendMessage
<1>2. CASE Ran(frames, frames')
  BY <1>2, RanIsLimited DEF Limited
<1>3. CASE /\ ~DepthExceeded /\ raised' = raised
           /\ frames' = <<f>> \o AtPc(NextPc)
  <2>1. FramesOK(AtPc(NextPc)) /\ Len(AtPc(NextPc)) = Len(frames)
    BY AtPcRuns, ExecutesRuns
  <2>2. FramesOK(frames') /\ Len(frames') = Len(frames) + 1
    BY <1>3, <2>1, NewFrame, HeadAdded
  <2>3. raised' = NotRaised
    BY <1>3, ExecutesRuns
  <2>4. Len(frames) <= MAX_CALL_DEPTH /\ Len(frames) \in Nat
    BY <1>3, Current, ExecutesRuns, LimitsAssumption DEF DepthExceeded, Limited
  <2> QED
    BY <2>2, <2>3, <2>4, LimitsAssumption DEF Limited
<1> QED
  BY <1>1, <1>2, <1>3

\* Messages, which may begin a frame, keep the limits.
LEMMA MessagesKeep ==
  ASSUME Limited, Message \/ ExprMessage
  PROVE  Limited'
<1>1. CASE Message
  BY <1>1, SendMessageKeeps, PiecesRun, ExecutesRuns, TryingKeeps
     DEF Message, TakesArgs, Trying
<1>2. CASE ExprMessage
  BY <1>2, SendMessageKeeps, PiecesRun, ExecutesRuns, TryingKeeps
     DEF ExprMessage, TakesArgs, Trying
<1> QED
  BY <1>1, <1>2

\* When the current frame goes, an error goes on in its caller if there is one.
LEMMA ReturnKeeps ==
  ASSUME Limited, frames # <<>>, NEW left, FrameReturn(left), NEW r,
         raised' = NotRaised \/ raised' = InCaller(r)
  PROVE  Limited'
<1>1. frames' = Tail(frames)
  BY DEF FrameReturn
<1>2. FramesOK(frames') /\ Len(frames') = Len(frames) - 1 /\ Len(frames) \in Nat
  BY <1>1, HeadGone, Current DEF Limited
<1>3. raised' # NotRaised => frames' # <<>>
  BY <1>1 DEF InCaller
<1> QED
  BY <1>2, <1>3, LimitsAssumption DEF Limited

\* What ends a frame or raises an error keeps the limits.
LEMMA ReturnsKeep ==
  ASSUME Limited, Return \/ ReturnExpr \/ ThrowOp \/ Rethrow \/ OutOfTicks
  PROVE  Limited'
<1>1. CASE Return
  BY <1>1, ReturnKeeps, ExecutesRuns DEF Return
<1>2. CASE ReturnExpr
  BY <1>2, ReturnKeeps, ExecutesRuns DEF ReturnExpr
<1>3. CASE ThrowOp
  <2>1. Executes("throw")
    BY <1>3 DEF ThrowOp, TakesArgs
  <2>2. CASE \E e : Bad(e)
    BY <2>1, <2>2, PiecesRun, ExecutesRuns, TryingKeeps DEF Trying
  <2>3. CASE \E r : FrameReturn(<<>>) /\ raised' = InCaller(r)
    BY <2>1, <2>3, ReturnKeeps, ExecutesRuns
  <2> QED
    BY <1>3, <2>2, <2>3 DEF ThrowOp
<1>4. CASE Rethrow
  <2>1. Executes("rethrow")
    BY <1>4 DEF Rethrow, TakesArgs
  <2>2. CASE \E e : Bad(e)
    BY <2>1, <2>2, PiecesRun, ExecutesRuns, TryingKeeps DEF Trying
  <2>3. CASE \E r : FrameReturn(<<>>) /\ raised' = InCaller(r)
    BY <2>1, <2>3, ReturnKeeps, ExecutesRuns
  <2> QED
    BY <1>4, <2>2, <2>3 DEF Rethrow
<1>5. CASE OutOfTicks
  BY <1>5, ReturnKeeps DEF OutOfTicks
<1> QED
  BY <1>1, <1>2, <1>3, <1>4, <1>5

\* The frame whose specifier handles the error goes on with the ticks it had.
LEMMA HandleErrorKeeps ==
  ASSUME Limited, raised # NotRaised,
         NEW spec, NEW rest, NEW traceback, HandleError(spec, rest, traceback)
  PROVE  Limited'
<1>1. frames # <<>> /\ FrameOK(cur_frame) /\ Len(frames) \in Nat
  BY Current DEF Limited
<1>3. PICK f : FrameOK(f) /\ frames' = <<f>> \o Tail(frames)
  <2> DEFINE f == [cur_frame EXCEPT !.pc = spec.pc, !.specifiers = rest]
             g == [f EXCEPT !.handler_info =
                    <<[error |-> raised.error, traceback |-> traceback]>> \o @]
  <2>1. frames' = <<f>> \o Tail(frames) \/ frames' = <<g>> \o Tail(frames)
    BY DEF HandleError
  <2>2. FrameOK(f) /\ FrameOK(g)
    BY <1>1 DEF FrameOK
  <2> QED
    BY <2>1, <2>2
<1>4. FramesOK(Tail(frames)) /\ Len(Tail(frames)) = Len(frames) - 1
  BY <1>1, HeadGone DEF Limited
<1>5. FramesOK(frames') /\ Len(frames') = Len(Tail(frames)) + 1
  BY <1>3, <1>4, HeadAdded
<1>6. raised' = NotRaised
  BY DEF HandleError
<1> QED
  BY <1>1, <1>4, <1>5, <1>6 DEF Limited

\* The propagation of an error keeps the limits.
LEMMA PropagateErrorKeeps ==
  ASSUME Limited, PropagateError
  PROVE  Limited'
<1>1. raised # NotRaised /\ frames # <<>>
  BY DEF PropagateError, Limited
<1>2. CASE \E spec, rest, traceback : HandleError(spec, rest, traceback)
  BY <1>1, <1>2, HandleErrorKeeps
<1>3. CASE \E r : FrameReturn(<<>>) /\ raised' = InCaller(r)
  BY <1>1, <1>3, ReturnKeeps
<1> QED
  BY <1>2, <1>3 DEF PropagateError

\* The begin of a task keeps the limits.
LEMMA TaskKeeps ==
  ASSUME Limited, NEW message, Task(message)
  PROVE  Limited'
<1> DEFINE f == Frame(MethodAt(object, FindMethodLocal(object, message)), 0, 0)
<1>1. frames' = <<f>> /\ raised' = NotRaised
  BY DEF Task
<1>2. frames' \in Seq({f}) /\ Len(frames') = 1 /\ frames'[1] = f
  BY <1>1
<1>3. FramesOK(frames')
  BY <1>2, NewFrame, FramesAre
<1> QED
  BY <1>1, <1>2, <1>3, LimitsAssumption DEF Limited

---------------------------------------------------------------------------
(* The interpreter                                                         *)

\* Every step of the interpreter keeps the limits.
LEMMA ExecuteKeeps ==
  ASSUME Limited, Execute
  PROVE  Limited'
<1>1. CASE Statement
  BY <1>1, StatementsTry, GuardsTry, ReturnsKeep, TryingKeeps DEF Statement
<1>2. CASE Expr
  BY <1>2, ExpressionsTry, MessagesKeep, TryingKeeps DEF Expr
<1>3. CASE Operation
  BY <1>3, OperationsTry, TryingKeeps
<1>4. CASE Call
  BY <1>4, FunctionsTry, ReturnsKeep, TryingKeeps DEF Call
<1>5. CASE OutOfTicks
  BY <1>5, ReturnsKeep
<1>6. CASE PropagateError
  BY <1>6, PropagateErrorKeeps
<1> QED
  BY <1>1, <1>2, <1>3, <1>4, <1>5, <1>6 DEF Execute

\* The limits hold at first.
LEMMA InitLimited ==
  ASSUME InitExecute
  PROVE  Limited
<1>1. frames = <<>> /\ raised = NotRaised
  BY DEF InitExecute
<1>2. FramesOK(<<>>)
  BY EmptySeq DEF FramesOK
<1> QED
  BY <1>1, <1>2, LimitsAssumption DEF Limited

\* They bound the depth of calls.
LEMMA LimitedBounds ==
  ASSUME Limited
  PROVE  DepthBounded
  BY DEF Limited, DepthBounded, FramesOK, FrameOK

\* execute() and frame_start(): whatever the methods of an object are, and
\* however the object changes between tasks, no task has more than
\* MAX_CALL_DEPTH + 1 frames or a frame without a tick left.
THEOREM InterpreterBounded == Spec => []DepthBounded
<1>1. InitExecute => Limited
  BY InitLimited
<1>2. Limited /\ [Next]_vars => Limited'
  <2> SUFFICES ASSUME Limited, [Next]_vars PROVE Limited'
    OBVIOUS
  <2>1. CASE Execute
    BY <2>1, ExecuteKeeps
  <2>2. CASE \E m : Task(m)
    BY <2>2, TaskKeeps
  <2>3. CASE UNCHANGED execVars
    BY <2>3 DEF execVars, Limited, FramesOK
  <2> QED
    BY <2>1, <2>2, <2>3 DEF Next, vars
<1>3. Limited => DepthBounded
  BY LimitedBounds
<1> QED
  BY <1>1, <1>2, <1>3, PTL DEF Spec

\* The same in the life of an object, through compilation, storage and deletion
\* of its methods, for any compiler.
THEOREM ProgramBounded == ProgramSpec => []DepthBounded
<1>1. Init => Limited
  BY InitLimited DEF Init
<1>2. Limited /\ [NextProgram]_allVars => Limited'
  <2> SUFFICES ASSUME Limited, [NextProgram]_allVars PROVE Limited'
    OBVIOUS
  <2>1. CASE Running
    BY <2>1, ExecuteKeeps DEF Running
  <2>2. CASE Run
    BY <2>2, TaskKeeps DEF Run
  <2>3. CASE UNCHANGED execVars
    BY <2>3 DEF execVars, Limited, FramesOK
  <2> QED
    BY <2>1, <2>2, <2>3
    DEF NextProgram, Compile, Store, Delete, Done, allVars, vars
<1>3. Limited => DepthBounded
  BY LimitedBounds
<1> QED
  BY <1>1, <1>2, <1>3, PTL DEF ProgramSpec

---------------------------------------------------------------------------
(* The tables, and the methods that the frames hold                        *)

\* The object is right for the methods that are installed, and for the ones that
\* the frames hold.
Holding ==
  NoItem \notin Held(frames) /\ Right(object, Held(frames), <<>>, <<>>)

\* An instruction leaves the methods of the frames alone.
LEMMA HeldRan ==
  ASSUME NEW fs, FramesOK(fs), NEW gs, Ran(fs, gs)
  PROVE  Held(gs) = Held(fs)
<1>1. 1 \in DOMAIN fs /\ DOMAIN gs = DOMAIN fs
  <2>1. fs \in Seq({fs[i] : i \in DOMAIN fs}) /\ fs # <<>>
    BY DEF FramesOK, Ran
  <2>2. 1 \in DOMAIN fs
    BY <2>1, EmptySeq
  <2> QED
    BY <2>2 DEF Ran
<1>2. \A i \in DOMAIN fs : gs[i].method = fs[i].method
  BY <1>1 DEF Ran
<1> QED
  BY <1>1, <1>2 DEF Held

\* The methods of the frames, when the current one returns
LEMMA HeldTail ==
  ASSUME NEW fs, FramesOK(fs), fs # <<>>
  PROVE  Held(fs) = Held(Tail(fs)) \cup {fs[1].method}
<1> DEFINE S == {fs[i] : i \in DOMAIN fs}
           n == Len(fs)
<1>1. fs \in Seq(S) /\ n \in Nat /\ DOMAIN fs = 1 .. n /\ n >= 1
  <2>1. fs \in Seq(S)
    BY DEF FramesOK
  <2> QED
    BY <2>1, EmptySeq
<1>2. /\ DOMAIN Tail(fs) = 1 .. n - 1
      /\ \A i \in 1 .. n - 1 : Tail(fs)[i] = fs[i + 1]
  <2>1. /\ Tail(fs) \in Seq(S) /\ Len(Tail(fs)) = Len(fs) - 1
        /\ \A i \in 1 .. Len(Tail(fs)) : Tail(fs)[i] = fs[i + 1]
    BY <1>1, HeadTailProperties
  <2> QED
    BY <2>1
<1> HIDE DEF n
<1>3. \A x \in Held(fs) : x \in Held(Tail(fs)) \cup {fs[1].method}
  <2> TAKE x \in Held(fs)
  <2>1. PICK i \in 1 .. n : x = fs[i].method
    BY <1>1 DEF Held
  <2>2. i = 1 \/ (i - 1 \in 1 .. n - 1 /\ i = (i - 1) + 1)
    BY <1>1
  <2> QED
    BY <1>2, <2>1, <2>2 DEF Held
<1>4. \A x \in Held(Tail(fs)) : x \in Held(fs)
  <2> TAKE x \in Held(Tail(fs))
  <2>1. PICK i \in 1 .. n - 1 : x = fs[i + 1].method
    BY <1>2 DEF Held
  <2>2. i + 1 \in 1 .. n
    BY <1>1
  <2> QED
    BY <1>1, <2>1, <2>2 DEF Held
<1>5. fs[1].method \in Held(fs)
  BY <1>1 DEF Held
<1> QED
  BY <1>3, <1>4, <1>5

\* The methods of the frames, when one starts
LEMMA HeldAdded ==
  ASSUME NEW fs, FramesOK(fs), NEW f, FrameOK(f)
  PROVE  Held(<<f>> \o fs) = Held(fs) \cup {f.method}
<1> DEFINE gs == <<f>> \o fs
           S == {fs[i] : i \in DOMAIN fs}
           R == S \cup {f}
<1>1. fs \in Seq(S) /\ fs \in Seq(R) /\ <<f>> \in Seq(R)
  <2>1. fs \in Seq(S) /\ S \subseteq R
    BY DEF FramesOK
  <2> QED
    BY <2>1
<1>2. /\ gs \in Seq(R) /\ Len(gs) = Len(<<f>>) + Len(fs)
      /\ \A i \in 1 .. Len(<<f>>) + Len(fs) :
           gs[i] = IF i <= Len(<<f>>) THEN <<f>>[i] ELSE fs[i - Len(<<f>>)]
  <2> HIDE DEF R
  <2> QED
    BY ONLY <1>1, ConcatProperties
<1>3. FramesOK(gs) /\ gs # <<>>
  <2>1. FramesOK(gs) /\ Len(gs) = Len(fs) + 1
    BY HeadAdded
  <2> QED
    BY <2>1, HeadAdded, EmptySeq, <1>1
<1>4. gs[1] = f
  BY <1>1, <1>2
<1>5. Tail(gs) = fs
  <2>1. /\ Tail(gs) \in Seq(R) /\ Len(Tail(gs)) = Len(gs) - 1
        /\ \A i \in 1 .. Len(Tail(gs)) : Tail(gs)[i] = gs[i + 1]
    BY <1>2, <1>3, HeadTailProperties
  <2>2. Len(<<f>>) = 1 /\ Len(fs) \in Nat
    BY <1>1
  <2>3. Len(Tail(gs)) = Len(fs)
    BY <1>2, <2>1, <2>2
  <2> HIDE DEF gs
  <2>4. \A i \in 1 .. Len(Tail(gs)) : Tail(gs)[i] = fs[i]
    <3> TAKE i \in 1 .. Len(Tail(gs))
    <3>1. i + 1 \in 1 .. 1 + Len(fs) /\ ~(i + 1 <= 1) /\ i + 1 - 1 = i
      BY <2>2, <2>3
    <3> QED
      BY <1>2, <2>1, <2>2, <3>1
  <2> QED
    BY <1>1, <2>1, <2>3, <2>4, SeqEqual
<1> QED
  BY <1>3, <1>4, <1>5, HeldTail

---------------------------------------------------------------------------
(* The pieces of the actions *)

\* The object is as it was, or one of its variables has another value.
Reassigned ==
  \/ object' = object
  \/ \E name, val :
       HasVar(object, name) /\ object' = AssignVar(object, name, val)

\* Assigning a variable touches no method and no counted table.
LEMMA ReassignedKeeps ==
  ASSUME HashOK, Limited, Holding, Reassigned, Held(frames') = Held(frames)
  PROVE  Holding'
<1>1. CASE object' = object
  BY <1>1 DEF Holding
<1>2. CASE \E name, val : HasVar(object, name) /\ object' = AssignVar(object, name, val)
  <2>1. PICK name, val : HasVar(object, name) /\ object' = AssignVar(object, name, val)
    BY <1>2
  <2>2. Right(object, Held(frames), <<>>, <<>>)
    BY DEF Holding
  <2>3. TableLinked(object'.vars) /\ object' = [object EXCEPT !.vars = object'.vars]
    BY <2>1, <2>2, AssignVarKeeps DEF Right
  <2>4. /\ IsObject(object') /\ object'.methods = object.methods
        /\ object'.strings = object.strings /\ object'.idents = object.idents
    BY <2>2, <2>3 DEF Right, IsObject
  <2>5. Right(object', Held(frames), <<>>, <<>>)
    BY <2>2, <2>3, <2>4 DEF Right, KeptWith
  <2> QED
    BY <2>5 DEF Holding
<1> QED
  BY <1>1, <1>2 DEF Reassigned

\* The same, for an instruction of the current frame
LEMMA RanKeeps ==
  ASSUME HashOK, Limited, Holding, Reassigned, Ran(frames, frames')
  PROVE  Holding'
  BY HeldRan, ReassignedKeeps DEF Limited

\* frame_return(): the method goes if nothing has it any more.
LEMMA ReturnHolds ==
  ASSUME HashOK, Limited, Holding, frames # <<>>, NEW left, FrameReturn(left)
  PROVE  Holding'
<1> DEFINE m == cur_frame.method
           held == Held(Tail(frames))
           t == object.methods
<1>1. frames' = Tail(frames) /\ object' = LetGo
  BY DEF FrameReturn
<1>2. cur_frame = frames[1]
  BY Current DEF Limited
<1>3. Held(frames) = held \cup {m}
  BY <1>2, HeldTail DEF Limited
<1>4. NoItem \notin held /\ m # NoItem /\ Right(object, held \cup {m}, <<>>, <<>>)
  BY <1>3 DEF Holding
<1>5. (\E i \in DOMAIN t.tab : MethodAt(object, i) = m) <=> m \in InstalledIn(t)
  <2>1. ASSUME NEW i \in DOMAIN t.tab, t.tab[i].item = m
        PROVE  m \in InstalledIn(t)
    <3>1. i \in Live(t)
      BY <1>4, <2>1 DEF Live
    <3>2. <<t.tab[i].name, t.tab[i].item>> \in Contents(t)
      BY <3>1 DEF Contents
    <3>3. <<t.tab[i].name, t.tab[i].item>>[2] = m
      BY <2>1
    <3> QED
      BY <3>2, <3>3 DEF InstalledIn
  <2>2. ASSUME m \in InstalledIn(t)
        PROVE  \E i \in DOMAIN t.tab : t.tab[i].item = m
    BY <2>2 DEF InstalledIn, Contents, Live
  <2> QED
    BY <2>1, <2>2 DEF MethodAt
<1>6. object' = IF m \in InstalledIn(t) THEN object ELSE MethodDiscard(object, m, held)
  BY <1>1, <1>5 DEF LetGo
<1> HIDE DEF m, held
<1>7. Right(object', held, <<>>, <<>>)
  BY <1>4, <1>6, ReleaseKeeps
<1> QED
  BY <1>1, <1>4, <1>7 DEF Holding, held

\* A method that is found is held by a new frame.
LEMMA StartHolds ==
  ASSUME HashOK, Holding, NEW name, NEW i, i = FindMethodLocal(object, name), i # 0,
         UNCHANGED object, Held(frames') = Held(frames) \cup {MethodAt(object, i)}
  PROVE  Holding'
<1> DEFINE t == object.methods
           m == MethodAt(object, i)
<1>1. Right(object, Held(frames), <<>>, <<>>) /\ NoItem \notin Held(frames)
  BY DEF Holding
<1>2. PICK N, V : Linked(t, N, V)
  BY <1>1 DEF Right, MethodTable, TableLinked
<1>3. m \in InstalledIn(t)
  <2>1. <<name, t.tab[i].item>> \in Contents(t)
    BY <1>2, FindInContents DEF FindMethodLocal
  <2>2. <<name, t.tab[i].item>>[2] = m
    BY DEF MethodAt
  <2> QED
    BY <2>1, <2>2 DEF InstalledIn
<1>4. m # NoItem
  BY <1>3, NoItemInstalled
<1>5. InstalledIn(t) \cup (Held(frames) \cup {m}) = InstalledIn(t) \cup Held(frames)
  BY <1>3
<1> HIDE DEF m, t
<1>6. Right(object, Held(frames) \cup {m}, <<>>, <<>>)
  BY <1>1, <1>5 DEF Right, t
<1> QED
  BY <1>1, <1>4, <1>6 DEF Holding, m

\* A message that is sent, or fails to be
LEMMA SendMessageHolds ==
  ASSUME HashOK, Limited, Holding, NEW op, Executes(op),
         NEW dbref, NEW message, NEW s, NEW stack_start, NEW arg_start,
         SendMessage(dbref, message, s, stack_start, arg_start)
  PROVE  Holding'
<1> DEFINE i == FindMethodLocal(object, message)
           f == Frame(MethodAt(object, i), stack_start, arg_start)
<1>1. /\ UNCHANGED object
      /\ \/ Ran(frames, frames')
         \/ i # 0 /\ frames' = <<f>> \o AtPc(NextPc)
  BY PiecesRun DEF SendMessage
<1>2. CASE Ran(frames, frames')
  BY <1>1, <1>2, RanKeeps DEF Reassigned
<1>3. CASE i # 0 /\ frames' = <<f>> \o AtPc(NextPc)
  <2>1. FramesOK(AtPc(NextPc)) /\ Ran(frames, AtPc(NextPc))
    BY AtPcRuns, ExecutesRuns
  <2>2. Held(AtPc(NextPc)) = Held(frames)
    BY <2>1, HeldRan DEF Limited
  <2>3. FrameOK(f) /\ f.method = MethodAt(object, i)
    BY NewFrame DEF Frame
  <2> HIDE DEF f
  <2>4. Held(frames') = Held(frames) \cup {f.method}
    BY <1>3, <2>1, <2>2, <2>3, HeldAdded
  <2> QED
    BY <1>1, <1>3, <2>3, <2>4, StartHolds
<1> QED
  BY <1>1, <1>2, <1>3

\* An error goes to the handler of the frame, or to the caller.
LEMMA HandleErrorHolds ==
  ASSUME HashOK, Limited, Holding, raised # NotRaised,
         NEW spec, NEW rest, NEW traceback, HandleError(spec, rest, traceback)
  PROVE  Holding'
<1>1. frames # <<>> /\ FrameOK(cur_frame) /\ cur_frame = frames[1]
  BY Current DEF Limited
<1>2. PICK f : FrameOK(f) /\ f.method = cur_frame.method /\ frames' = <<f>> \o Tail(frames)
  <2> DEFINE f == [cur_frame EXCEPT !.pc = spec.pc, !.specifiers = rest]
             g == [f EXCEPT !.handler_info =
                    <<[error |-> raised.error, traceback |-> traceback]>> \o @]
  <2>1. frames' = <<f>> \o Tail(frames) \/ frames' = <<g>> \o Tail(frames)
    BY DEF HandleError
  <2>2. /\ FrameOK(f) /\ FrameOK(g)
        /\ f.method = cur_frame.method /\ g.method = cur_frame.method
    BY <1>1 DEF FrameOK
  <2> QED
    BY <2>1, <2>2
<1>3. FramesOK(Tail(frames))
  BY <1>1, HeadGone DEF Limited
<1>4. Held(frames') = Held(frames)
  <2>1. Held(frames') = Held(Tail(frames)) \cup {f.method}
    BY <1>2, <1>3, HeldAdded
  <2>2. Held(frames) = Held(Tail(frames)) \cup {frames[1].method}
    BY <1>1, HeldTail DEF Limited
  <2> QED
    BY <1>1, <1>2, <2>1, <2>2
<1>5. Reassigned
  BY DEF HandleError, Reassigned
<1> QED
  BY <1>4, <1>5, ReassignedKeeps

---------------------------------------------------------------------------
(* Each opcode, and each step of Program                                   *)

\* The opcodes of statements change the object by assignment only.
LEMMA StatementsAssign ==
  ASSUME \/ Comment \/ PopOp \/ SetLocal \/ SetObjVar \/ Branch \/ Jump
         \/ ForRange \/ ForList \/ Switch \/ Default \/ CaseValue \/ CaseRange
         \/ Break \/ Continue
  PROVE  Reassigned
<1> USE DEF Reassigned
<1>1. CASE Comment \/ PopOp \/ SetLocal \/ Branch \/ Jump
  BY <1>1 DEF Comment, PopOp, SetLocal, Branch, Jump, Quiet
<1>2. CASE SetObjVar
  BY <1>2 DEF SetObjVar
<1>3. CASE ForRange \/ ForList \/ Switch \/ Default
  BY <1>3 DEF ForRange, ForList, Switch, Default, Quiet
<1>4. CASE CaseValue \/ CaseRange
  BY <1>4 DEF CaseValue, CaseRange, Quiet
<1>5. CASE Break \/ Continue
  BY <1>5 DEF Break, Continue, Quiet
<1> QED
  BY <1>1, <1>2, <1>3, <1>4, <1>5

\* So do the ones of catch, and of critical and propagating expressions,
LEMMA GuardsAssign ==
  ASSUME Catch \/ Guard \/ PopSpecifier \/ HandlerEnd
  PROVE  Reassigned
  BY DEF Catch, Guard, PopSpecifier, HandlerEnd, Quiet, Reassigned

\* the ones of expressions,
LEMMA ExpressionsAssign ==
  ASSUME \/ Literal \/ Name \/ GetLocal \/ GetObjVar \/ StartArgs
         \/ Pass \/ ListOp \/ FrobOp \/ Index \/ ShortCircuitOp
  PROVE  Reassigned
<1> USE DEF Reassigned
<1>1. CASE Literal \/ Name \/ GetLocal \/ GetObjVar
  BY <1>1 DEF Literal, Name, GetLocal, GetObjVar, Quiet
<1>2. CASE StartArgs \/ Pass \/ ListOp \/ FrobOp
  BY <1>2 DEF StartArgs, Pass, ListOp, FrobOp
<1>3. CASE Index \/ ShortCircuitOp
  BY <1>3 DEF Index, ShortCircuitOp, Quiet
<1> QED
  BY <1>1, <1>2, <1>3

\* the operators,
LEMMA OperationsAssign ==
  ASSUME Operation
  PROVE  Reassigned
<1>1. \A n, ok, d, e : Operator(n, ok, d, e) => Reassigned
  BY DEF Operator, Reassigned
<1>2. Join => Reassigned
  BY DEF Join, AnticipateObjVar, Reassigned
<1>3. CASE Not \/ Negate \/ Multiply \/ Subtract
  BY <1>1, <1>3 DEF Not, Negate, Multiply, Subtract
<1>4. CASE Divide \/ Equal \/ In
  BY <1>1, <1>4 DEF Divide, Equal, In
<1>5. CASE Compare
  BY <1>1, <1>5 DEF Compare
<1>6. CASE Add
  BY <1>1, <1>2, <1>6 DEF Add
<1>7. CASE SpliceAdd
  BY <1>2, <1>7 DEF SpliceAdd, Reassigned
<1> QED
  BY <1>3, <1>4, <1>5, <1>6, <1>7 DEF Operation

\* and the functions.
LEMMA FunctionsAssign ==
  ASSUME ThisOp \/ HandlerOp \/ Listlen
  PROVE  Reassigned
  BY DEF ThisOp, HandlerOp, Listlen, Bad, Reassigned

\* An opcode that ends in an error or not
LEMMA TryingHolds ==
  ASSUME HashOK, Limited, Holding, Reassigned, Trying
  PROVE  Holding'
  BY RanKeeps DEF Trying

\* The opcodes that send a message
LEMMA MessagesHold ==
  ASSUME HashOK, Limited, Holding, Message \/ ExprMessage
  PROVE  Holding'
<1>1. ASSUME NEW op, Executes(op), NEW e, Throw(e), UNCHANGED object
      PROVE  Holding'
  BY <1>1, PiecesRun, RanKeeps DEF Reassigned
<1>2. CASE Message
  BY <1>1, <1>2, SendMessageHolds DEF Message, TakesArgs
<1>3. CASE ExprMessage
  BY <1>1, <1>3, SendMessageHolds DEF ExprMessage, TakesArgs
<1> QED
  BY <1>2, <1>3

\* The ways in which a frame ends
LEMMA ReturnsHold ==
  ASSUME HashOK, Limited, Holding,
         Return \/ ReturnExpr \/ ThrowOp \/ Rethrow \/ OutOfTicks
  PROVE  Holding'
<1>1. ASSUME NEW op, Executes(op), NEW e, Bad(e)
      PROVE  Holding'
  BY <1>1, PiecesRun, RanKeeps DEF Bad, Reassigned
<1>2. ASSUME NEW op, Executes(op), NEW left, FrameReturn(left)
      PROVE  Holding'
  BY <1>2, ExecutesRuns, ReturnHolds
<1>3. CASE Return \/ ReturnExpr
  BY <1>2, <1>3 DEF Return, ReturnExpr
<1>4. CASE ThrowOp
  BY <1>1, <1>2, <1>4 DEF ThrowOp, TakesArgs
<1>5. CASE Rethrow
  BY <1>1, <1>2, <1>5 DEF Rethrow, TakesArgs
<1>6. CASE OutOfTicks
  BY <1>6, ReturnHolds DEF OutOfTicks
<1> QED
  BY <1>3, <1>4, <1>5, <1>6

\* The method that a running method deletes may be held.
LEMMA DelMethodHolds ==
  ASSUME HashOK, Limited, Holding, DelMethod
  PROVE  Holding'
<1>1. Executes("del_method")
  BY DEF DelMethod, TakesArgs
<1>2. CASE \E e : Bad(e)
  BY <1>1, <1>2, PiecesRun, RanKeeps DEF Bad, Reassigned
<1>3. CASE /\ Gives(Integer(1))
           /\ object' = ObjectDelMethod(object, Val(Args[1]), Held(frames))
  <2>1. Held(frames') = Held(frames)
    BY <1>1, <1>3, PiecesRun, HeldRan DEF Limited
  <2>2. Right(object, Held(frames), <<>>, <<>>) /\ IsFiniteSet(DOMAIN <<>>)
    BY NoneFinite DEF Holding
  <2>3. Right(object', Held(frames), <<>>, <<>>)
    BY <1>3, <2>2, DelKeeps
  <2> QED
    BY <2>1, <2>3 DEF Holding
<1> QED
  BY <1>2, <1>3 DEF DelMethod

\* propagate_error()
LEMMA PropagateErrorHolds ==
  ASSUME HashOK, Limited, Holding, PropagateError
  PROVE  Holding'
<1>1. raised # NotRaised /\ frames # <<>>
  BY DEF PropagateError, Limited
<1>2. CASE \E spec, rest, traceback : HandleError(spec, rest, traceback)
  BY <1>1, <1>2, HandleErrorHolds
<1>3. CASE FrameReturn(<<>>)
  BY <1>1, <1>3, ReturnHolds
<1> QED
  BY <1>2, <1>3 DEF PropagateError

\* A step of execute()
LEMMA ExecuteHolds ==
  ASSUME HashOK, Limited, Holding, Execute
  PROVE  Holding'
<1>1. CASE Statement
  BY <1>1, StatementsTry, GuardsTry, StatementsAssign, GuardsAssign, ReturnsHold,
     TryingHolds DEF Statement
<1>2. CASE Expr
  BY <1>2, ExpressionsTry, ExpressionsAssign, MessagesHold, TryingHolds DEF Expr
<1>3. CASE Operation
  BY <1>3, OperationsTry, OperationsAssign, TryingHolds
<1>4. CASE ThisOp \/ HandlerOp \/ Listlen
  BY <1>4, FunctionsTry, FunctionsAssign, TryingHolds
<1>5. CASE DelMethod \/ ThrowOp \/ Rethrow
  BY <1>5, DelMethodHolds, ReturnsHold
<1>6. CASE OutOfTicks
  BY <1>6, ReturnsHold
<1>7. CASE PropagateError
  BY <1>7, PropagateErrorHolds
<1> QED
  BY <1>1, <1>2, <1>3, <1>4, <1>5, <1>6, <1>7 DEF Execute, Call

\* task()
LEMMA TaskHolds ==
  ASSUME HashOK, Holding, NEW message, Task(message)
  PROVE  Holding'
<1> DEFINE i == FindMethodLocal(object, message)
           f == Frame(MethodAt(object, i), 0, 0)
<1>1. frames = <<>> /\ i # 0 /\ frames' = <<f>> /\ UNCHANGED object
  BY DEF Task
<1>2. f.method = MethodAt(object, i)
  BY DEF Frame
<1> HIDE DEF f
<1>3. Held(frames) = {} /\ Held(frames') = {f.method}
  <2>1. DOMAIN frames = {} /\ DOMAIN frames' = {1} /\ frames'[1] = f
    BY <1>1
  <2> QED
    BY <2>1 DEF Held
<1> QED
  BY <1>1, <1>2, <1>3, StartHolds

---------------------------------------------------------------------------
(* The life of an object *)

\* What is still to be compiled: what the compiler makes of it is complete.
ToCompile(methods) ==
  \E S : /\ methods \in Seq(S)
         /\ \A m \in S : Compiles(m[2]) => Complete(Globals(m[2]))

\* What a step keeps: Holding, and while methods are being compiled there is no
\* frame and the variables have the values they start with, so that storing the
\* object meets no string value.
Kept ==
  /\ Limited /\ Holding
  /\ ToCompile(todo)
  /\ phase = "compile" =>
       frames = <<>> /\ \E N : NoIdent \in N /\ Linked(object.vars, N, Fresh)

\* At first the object has its parameters and no method.
LEMMA InitKept ==
  ASSUME HashOK, Init
  PROVE  Kept
<1>1. Limited /\ frames = <<>>
  BY InitLimited DEF Init, InitExecute
<1>2. Held(frames) = {}
  BY <1>1 DEF Held
<1>3. Holding /\ \E N : NoIdent \in N /\ Linked(object.vars, N, Fresh)
  BY <1>2, FirstIsRight DEF Init, Holding
<1>4. ToCompile(todo)
  <2> DEFINE methods == Programs[prog].methods
             S == {methods[k] : k \in 1 .. Len(methods)}
  <2>1. prog \in DOMAIN Programs /\ todo = methods
    BY DEF Init
  <2>2. /\ IsSequence(methods)
        /\ \A k \in DOMAIN methods :
             Compiles(methods[k][2]) => Complete(Globals(methods[k][2]))
    BY <2>1, GlobalsAssumption
  <2> HIDE DEF methods
  <2>3. Len(methods) \in Nat /\ methods = [k \in 1 .. Len(methods) |-> methods[k]]
    BY <2>2 DEF IsSequence
  <2>4. methods \in [1 .. Len(methods) -> S] /\ DOMAIN methods = 1 .. Len(methods)
    BY <2>3
  <2>5. \A m \in S : Compiles(m[2]) => Complete(Globals(m[2]))
    BY <2>2, <2>4
  <2> HIDE DEF S
  <2>6. methods \in Seq(S)
    BY <2>3, <2>4, LenOf
  <2> QED
    BY <2>1, <2>5, <2>6 DEF ToCompile
<1> QED
  BY <1>1, <1>3, <1>4 DEF Kept

\* A method is compiled and installed in place of the one with its name.
LEMMA CompileKeeps ==
  ASSUME HashOK, Kept, Compile
  PROVE  Kept'
<1> DEFINE name == todo[1][1]
           source == todo[1][2]
           new == Generate(source, object)
           m == [new.method EXCEPT !.name = name]
<1>1. /\ phase = "compile" /\ todo # <<>> /\ frames = <<>>
      /\ todo' = Tail(todo) /\ phase' = phase /\ UNCHANGED execVars
      /\ object' = IF Compiles(source)
                   THEN ObjectAddMethod(new.object, name, new.method, {}) ELSE object
  BY DEF Compile, Kept
<1>2. PICK S : /\ todo \in Seq(S)
               /\ \A x \in S : Compiles(x[2]) => Complete(Globals(x[2]))
  BY DEF Kept, ToCompile
<1>3. todo[1] \in S /\ Tail(todo) \in Seq(S)
  BY <1>1, <1>2, EmptySeq
<1>4. Limited'
  BY <1>1 DEF Kept, Limited, FramesOK, execVars
<1>5. Held(frames) = {} /\ Held(frames') = {}
  BY <1>1 DEF Held, execVars
<1>6. Right(object, {}, <<>>, <<>>)
  BY <1>5 DEF Kept, Holding
<1>7. Right(object', {}, <<>>, <<>>) /\ object'.vars = object.vars
  <2>1. CASE ~Compiles(source)
    BY <1>1, <1>6, <2>1
  <2>2. CASE Compiles(source)
    <3>1. Complete(Globals(source))
      BY <1>2, <1>3, <2>2
    <3>2. PICK I : object.idents \in Entries(I)
      BY <1>6 DEF Right, KeptWith, CountedWith
    <3>3. IsObject(object)
      BY <1>6 DEF Right
    <3>4. new = FinalPass(Globals(source), object)
      BY DEF Generate
    <3>5. /\ \E strings, idents : Makes(object, new.object, m, strings, idents)
          /\ m.name = name /\ m # NoItem
      <4> HIDE DEF source, name
      <4> QED
        BY <3>1, <3>2, <3>3, FinalPassIs DEF Generate
    <3> HIDE DEF new, name, source
    <3>6. /\ Right(new.object, {}, StringsOf(m), IdentsOf(m))
          /\ new.object.vars = object.vars
          /\ IsFiniteSet(DOMAIN StringsOf(m)) /\ IsFiniteSet(DOMAIN IdentsOf(m))
      <4> HIDE DEF m
      <4> QED
        BY <1>6, <3>5, MadeKeeps
    <3>7. object' = ObjectAddMethod(new.object, name, new.method, {})
      BY <1>1, <2>2
    <3>8. m = [new.method EXCEPT !.name = name]
      OBVIOUS
    <3> DEFINE method == new.method
               o == new.object
               p == ObjectAddMethod(o, name, method, {})
    <3> HIDE DEF m, method, o, p
    <3>10. m = [method EXCEPT !.name = name] /\ m.name = name /\ m # NoItem
      BY <3>5, <3>8 DEF method
    <3>11. /\ Right(o, {}, StringsOf(m), IdentsOf(m))
           /\ IsFiniteSet(DOMAIN StringsOf(m)) /\ IsFiniteSet(DOMAIN IdentsOf(m))
      BY <3>6 DEF o
    <3>12. p = ObjectAddMethod(o, name, method, {})
      BY DEF p
    <3>9. Right(p, {}, <<>>, <<>>) /\ p.vars = o.vars
      BY <3>10, <3>11, <3>12, AddKeeps
    <3> QED
      BY <3>6, <3>7, <3>9 DEF method, o, p
  <2> QED
    BY <2>1, <2>2
<1>8. Holding'
  BY <1>5, <1>7 DEF Holding
<1>9. ToCompile(todo)'
  BY <1>1, <1>2, <1>3 DEF ToCompile
<1>10. frames' = <<>> /\ \E N : NoIdent \in N /\ Linked(object'.vars, N, Fresh)
  BY <1>1, <1>7 DEF Kept, execVars
<1> QED
  BY <1>4, <1>8, <1>9, <1>10 DEF Kept

\* The object is written and read back.
LEMMA StoreKeeps ==
  ASSUME HashOK, Kept, PackRoundTrip, Store
  PROVE  Kept'
<1>1. frames = <<>> /\ NoStringValues
  BY FreshVars DEF Store, Kept
<1>2. object' = object
  BY <1>1 DEF Store, PackRoundTrip
<1>3. UNCHANGED <<todo, execVars>> /\ phase' = "stored"
  BY DEF Store
<1> QED
  BY <1>2, <1>3 DEF Kept, Limited, Holding, FramesOK, execVars

\* A method is deleted.
LEMMA DeleteKeeps ==
  ASSUME HashOK, Kept, Delete
  PROVE  Kept'
<1>1. /\ frames = <<>> /\ UNCHANGED <<todo, execVars>> /\ phase' = "ran"
  BY DEF Delete
<1>2. PICK name : object' = ObjectDelMethod(object, name, {})
  BY DEF Delete
<1>3. Held(frames) = {} /\ Held(frames') = {}
  BY <1>1 DEF Held, execVars
<1>4. Right(object, {}, <<>>, <<>>) /\ IsFiniteSet(DOMAIN <<>>)
  BY <1>3, NoneFinite DEF Kept, Holding
<1>5. Right(object', {}, <<>>, <<>>)
  BY <1>2, <1>4, DelKeeps
<1>6. Holding'
  BY <1>3, <1>5 DEF Holding
<1> QED
  BY <1>1, <1>6 DEF Kept, Limited, FramesOK, execVars

\* Whatever is compiled, run, stored and deleted, each entry of the string and
\* identifier tables is counted once for each use by a method that is installed or
\* in a frame, and each slot of the method and variable tables is on its thread,
\* if the hash of a name is a number and an object that is stored comes back
\* (PackRoundTrip): object_discard_string(), object_discard_ident() and the like
\* are called as often as object_add_string() and object_add_ident() were.
THEOREM TablesStayExact ==
  ASSUME HashOK
  PROVE  ProgramSpec /\ []PackRoundTrip => []TablesExact
<1>1. Init => Kept
  BY InitKept
<1>2. Kept /\ PackRoundTrip /\ [NextProgram]_allVars => Kept'
  <2> SUFFICES ASSUME Kept, PackRoundTrip, [NextProgram]_allVars PROVE Kept'
    OBVIOUS
  <2>1. CASE Compile
    BY <2>1, CompileKeeps
  <2>2. CASE Store
    BY <2>2, StoreKeeps
  <2>3. CASE Run
    BY <2>3, TaskKeeps, TaskHolds DEF Run, Kept
  <2>4. CASE Running
    BY <2>4, ExecuteKeeps, ExecuteHolds DEF Running, Kept, progVars
  <2>5. CASE Delete
    BY <2>5, DeleteKeeps
  <2>6. CASE UNCHANGED allVars
    BY <2>6 DEF allVars, vars, execVars, progVars, Kept, Limited, FramesOK, Holding
  <2> QED
    BY <2>1, <2>2, <2>3, <2>4, <2>5, <2>6 DEF NextProgram, Done
<1>3. Kept => TablesExact
  BY RightIsExact DEF Kept, Holding
<1> QED
  BY <1>1, <1>2, <1>3, PTL DEF ProgramSpec
=============================================================================
