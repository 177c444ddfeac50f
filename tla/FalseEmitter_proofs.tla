-------------------------- MODULE FalseEmitter_proofs --------------------------
(***************************************************************************)
(* What programs in the FALSE programming language save while they run is  *)
(* balanced, for all programs, as long as the stack does not grow into it. *)
(* Then they do what the interpreter does with them, step by step, as long *)
(* as what they compute is exact.                                          *)
(***************************************************************************)
EXTENDS FalseEmitter, FiniteSetTheorems, WellFoundedInduction, TLAPS

\* The stack does not grow beyond memory, and what is saved not beyond the
\* words that are reserved, which nothing in the code sees to.
Room == sp >= 1 /\ fp > Bottom

\* The points that functions return to.
CallPoints == {"push", "test", "again"}

\* A return address is a point in a function, as it is saved by a call.
IsPoint(point) == point = Point(point.function, point.at, point.point)

IsReturn(word) == word.type = "Return" /\ IsPoint(word.point) /\ word.point.point \in CallPoints

\* Of the addresses from some frame on, those where a function in a loop
\* returns to,
IsHead(words, frame, address) ==
    /\ address \in frame .. Words
    /\ words[address].type = "Return" /\ words[address].point.point \in LoopPoints

\* and those where the condition of a loop in progress is saved.
IsLoop(words, frame, looping, address) ==
    \/ looping /\ address = frame
    \/ IsHead(words, frame, address - 1)

\* What is saved from a frame on: return addresses, the outermost of which is
\* one of the main function, and the functions of loops above those in them.
ReturnsBehind(words, frame) == \E address \in frame .. Words : words[address].type = "Return"

ReturnsRight(words, frame) ==
    \A address \in frame .. Words : words[address].type = "Return" =>
        /\ IsReturn(words[address])
        /\ words[address].point.function # Main => ReturnsBehind(words, address + 1)

LoopsRight(words, frame, looping) ==
    \A address \in Int : IsLoop(words, frame, looping, address) =>
        /\ address + 1 <= Words
        /\ words[address].type # "Return" /\ words[address + 1].type # "Return"

LoopsOnly(words, frame, looping) ==
    \A address \in frame .. Words : words[address].type # "Return" =>
        IsLoop(words, frame, looping, address) \/ IsLoop(words, frame, looping, address - 1)

\* All of it, with the state of the function that is active or calling.
IsBalanced(words, frame, looping, function) ==
    /\ frame <= Words + 1
    /\ function # Main => ReturnsBehind(words, frame)
    /\ ReturnsRight(words, frame)
    /\ LoopsRight(words, frame, looping)
    /\ LoopsOnly(words, frame, looping)

\* The stack may be empty when its top is returned.
IsAbove(point, top) ==
    /\ point \in {"element", "begin"} => top <= Bottom
    /\ point = "prologue" => top <= Bottom - 1
    /\ point \in CallPoints => top <= Bottom + 1

\* The inductive invariant.
Inv ==
    /\ sp \in Int /\ fp \in Int
    /\ DOMAIN memory = 1 .. Words
    /\ IsPoint(pc)
    /\ pc.point \in {"element", "begin", "prologue"} \cup CallPoints
    /\ IsAbove(pc.point, sp)
    /\ pc.point = "prologue" => IsReturn(memory[sp])
    /\ IsBalanced(memory, fp, Current.point \in LoopPoints, Current.function)

-------------------------------------------------------------------------------
(* What is saved, as it changes.                                           *)

\* It depends on the words from the frame on only.
LEMMA BalancedKept ==
    ASSUME NEW words, NEW changed, NEW frame \in Int, NEW looping, NEW function,
           IsBalanced(words, frame, looping, function),
           \A address \in frame .. Words : changed[address] = words[address]
    PROVE  IsBalanced(changed, frame, looping, function)
<1>0. Words \in Nat
  BY EmitterAssumption
<1>1. \A address \in Int : IsHead(changed, frame, address) <=> IsHead(words, frame, address)
  BY DEF IsHead
<1>2. \A address \in Int : IsLoop(changed, frame, looping, address) <=> IsLoop(words, frame, looping, address)
  BY <1>1 DEF IsLoop
<1>3. \A from \in Int : from >= frame => (ReturnsBehind(changed, from) <=> ReturnsBehind(words, from))
  BY DEF ReturnsBehind
<1>4. \A address \in Int : IsLoop(words, frame, looping, address) =>
        address \in frame .. Words /\ address + 1 \in frame .. Words
  BY <1>0 DEF IsLoop, IsHead, IsBalanced, LoopsRight
<1>5. ReturnsRight(changed, frame)
  BY <1>0, <1>3 DEF IsBalanced, ReturnsRight
<1>6. LoopsRight(changed, frame, looping)
  BY <1>0, <1>2, <1>4 DEF IsBalanced, LoopsRight
<1>7. LoopsOnly(changed, frame, looping)
  BY <1>0, <1>2 DEF IsBalanced, LoopsOnly
<1> QED BY <1>3, <1>5, <1>6, <1>7 DEF IsBalanced

\* A return address is saved.
LEMMA ReturnSaved ==
    ASSUME NEW words, NEW changed, NEW frame \in Int, NEW function,
           LET point == changed[frame - 1].point
           IN  IsBalanced(words, frame, point.point \in LoopPoints, point.function),
           IsReturn(changed[frame - 1]),
           \A address \in frame .. Words : changed[address] = words[address]
    PROVE  IsBalanced(changed, frame - 1, FALSE, function)
<1> DEFINE looping == changed[frame - 1].point.point \in LoopPoints
           caller == changed[frame - 1].point.function
<1>0. Words \in Nat
  BY EmitterAssumption
<1>1. IsBalanced(changed, frame, looping, caller)
  BY BalancedKept
<1>2. \A address \in Int : IsLoop(changed, frame - 1, FALSE, address)
                             <=> IsLoop(changed, frame, looping, address)
  BY <1>0, <1>1 DEF IsLoop, IsHead, IsReturn, IsBalanced
<1>3. changed[frame - 1].type = "Return" /\ frame - 1 \in frame - 1 .. Words
  BY <1>0, <1>1 DEF IsReturn, IsBalanced
<1>4. \A address \in frame - 1 .. Words : address = frame - 1 \/ address \in frame .. Words
  BY <1>0
<1>5. ReturnsBehind(changed, frame - 1)
  BY <1>3 DEF ReturnsBehind
<1>6. (frame - 1) + 1 = frame
  OBVIOUS
<1> HIDE DEF looping
<1>7. ReturnsRight(changed, frame - 1)
  BY <1>1, <1>4, <1>6 DEF IsBalanced, ReturnsRight
<1>8. LoopsRight(changed, frame - 1, FALSE)
  BY <1>1, <1>2 DEF IsBalanced, LoopsRight
<1>9. LoopsOnly(changed, frame - 1, FALSE)
  <2> SUFFICES ASSUME NEW address \in frame - 1 .. Words, changed[address].type # "Return"
               PROVE  \/ IsLoop(changed, frame - 1, FALSE, address)
                      \/ IsLoop(changed, frame - 1, FALSE, address - 1)
    BY DEF LoopsOnly
  <2>1. address \in Int /\ address - 1 \in Int
    OBVIOUS
  <2> QED BY <2>1, <1>1, <1>2, <1>3, <1>4 DEF IsBalanced, LoopsOnly
<1>10. frame - 1 <= Words + 1 /\ IsBalanced(changed, frame, looping, caller)
  BY <1>0, <1>1 DEF IsBalanced
<1> QED BY <1>5, <1>7, <1>8, <1>9, <1>10 DEF IsBalanced

\* A function returns.
LEMMA ReturnTaken ==
    ASSUME NEW words, NEW frame \in Int, NEW function, function # Main,
           IsBalanced(words, frame, FALSE, function)
    PROVE  /\ frame \in frame .. Words /\ IsReturn(words[frame])
           /\ LET point == words[frame].point
              IN  IsBalanced(words, frame + 1, point.point \in LoopPoints, point.function)
<1> DEFINE looping == words[frame].point.point \in LoopPoints
           caller == words[frame].point.function
<1>0. Words \in Nat
  BY EmitterAssumption
<1>1. frame \in frame .. Words
  BY <1>0 DEF IsBalanced, ReturnsBehind
<1>2. words[frame].type = "Return"
  <2>1. ~IsLoop(words, frame, FALSE, frame) /\ ~IsLoop(words, frame, FALSE, frame - 1)
    BY DEF IsLoop, IsHead
  <2> QED BY <1>1, <2>1 DEF IsBalanced, LoopsOnly
<1>3. IsReturn(words[frame]) /\ (caller # Main => ReturnsBehind(words, frame + 1))
  BY <1>1, <1>2 DEF IsBalanced, ReturnsRight
<1>4. \A address \in Int : IsLoop(words, frame + 1, looping, address) <=> IsLoop(words, frame, FALSE, address)
  BY <1>0, <1>1, <1>2 DEF IsLoop, IsHead
<1>5. \A address \in frame + 1 .. Words : address \in frame .. Words
  BY <1>0
<1> HIDE DEF looping, caller
<1>6. ReturnsRight(words, frame + 1)
  BY <1>5 DEF IsBalanced, ReturnsRight
<1>7. LoopsRight(words, frame + 1, looping)
  BY <1>4 DEF IsBalanced, LoopsRight
<1>8. LoopsOnly(words, frame + 1, looping)
  <2> SUFFICES ASSUME NEW address \in frame + 1 .. Words, words[address].type # "Return"
               PROVE  \/ IsLoop(words, frame + 1, looping, address)
                      \/ IsLoop(words, frame + 1, looping, address - 1)
    BY DEF LoopsOnly
  <2>1. address \in Int /\ address - 1 \in Int
    OBVIOUS
  <2> QED BY <2>1, <1>4, <1>5 DEF IsBalanced, LoopsOnly
<1>9. IsBalanced(words, frame + 1, looping, caller)
  BY <1>0, <1>1, <1>3, <1>6, <1>7, <1>8 DEF IsBalanced
<1> QED BY <1>1, <1>3, <1>9 DEF looping, caller

\* A loop begins.
LEMMA LoopSaved ==
    ASSUME NEW words, NEW changed, NEW frame \in Int, NEW function,
           IsBalanced(words, frame, FALSE, function),
           changed[frame - 1].type # "Return", changed[frame - 2].type # "Return",
           \A address \in frame .. Words : changed[address] = words[address]
    PROVE  IsBalanced(changed, frame - 2, TRUE, function)
<1>0. Words \in Nat
  BY EmitterAssumption
<1>1. IsBalanced(changed, frame, FALSE, function) /\ frame <= Words + 1
  <2>1. IsBalanced(changed, frame, FALSE, function)
    BY BalancedKept
  <2> QED BY <2>1 DEF IsBalanced
<1>2. \A address \in Int : IsLoop(changed, frame - 2, TRUE, address)
                             <=> address = frame - 2 \/ IsLoop(changed, frame, FALSE, address)
  <2>1. \A address \in Int : IsHead(changed, frame - 2, address) <=> IsHead(changed, frame, address)
    <3> SUFFICES ASSUME NEW address \in Int
                 PROVE  IsHead(changed, frame - 2, address) <=> IsHead(changed, frame, address)
      OBVIOUS
    <3>1. address \in frame - 2 .. Words <=> address \in {frame - 2, frame - 1} \/ address \in frame .. Words
      BY <1>0, <1>1
    <3> QED BY <3>1 DEF IsHead
  <2> QED BY <2>1 DEF IsLoop
<1>3. \A address \in frame - 2 .. Words : address \in {frame - 2, frame - 1} \/ address \in frame .. Words
  BY <1>0
<1>4. \A from \in Int : from >= frame - 2 /\ from <= frame =>
        (ReturnsBehind(changed, frame) => ReturnsBehind(changed, from))
  BY <1>0 DEF ReturnsBehind
<1>5. frame - 2 + 1 = frame - 1 /\ frame - 1 - 1 = frame - 2 /\ frame - 1 <= Words
  BY <1>1, <1>0
<1>6. ReturnsRight(changed, frame - 2)
  BY <1>1, <1>3 DEF IsBalanced, ReturnsRight
<1>7. LoopsRight(changed, frame - 2, TRUE)
  BY <1>1, <1>2, <1>5 DEF IsBalanced, LoopsRight
<1>8. LoopsOnly(changed, frame - 2, TRUE)
  <2> SUFFICES ASSUME NEW address \in frame - 2 .. Words, changed[address].type # "Return"
               PROVE  \/ IsLoop(changed, frame - 2, TRUE, address)
                      \/ IsLoop(changed, frame - 2, TRUE, address - 1)
    BY DEF LoopsOnly
  <2>1. address \in Int /\ address - 1 \in Int
    OBVIOUS
  <2> QED BY <2>1, <1>1, <1>2, <1>3, <1>5 DEF IsBalanced, LoopsOnly
<1>9. frame - 2 <= Words + 1 /\ (function # Main => ReturnsBehind(changed, frame - 2))
  BY <1>0, <1>1, <1>4 DEF IsBalanced
<1> QED BY <1>6, <1>7, <1>8, <1>9 DEF IsBalanced

\* A loop ends.
LEMMA LoopTaken ==
    ASSUME NEW words, NEW frame \in Int, NEW function,
           IsBalanced(words, frame, TRUE, function)
    PROVE  IsBalanced(words, frame + 2, FALSE, function)
<1>0. Words \in Nat
  BY EmitterAssumption
<1>1. frame + 1 <= Words /\ words[frame].type # "Return" /\ words[frame + 1].type # "Return"
  BY DEF IsBalanced, IsLoop, LoopsRight
<1>2. \A address \in Int : IsLoop(words, frame, TRUE, address)
                             <=> address = frame \/ IsLoop(words, frame + 2, FALSE, address)
  <2>1. \A address \in Int : IsHead(words, frame + 2, address) <=> IsHead(words, frame, address)
    <3> SUFFICES ASSUME NEW address \in Int
                 PROVE  IsHead(words, frame + 2, address) <=> IsHead(words, frame, address)
      OBVIOUS
    <3>1. address \in frame .. Words <=> address \in {frame, frame + 1} \/ address \in frame + 2 .. Words
      BY <1>0, <1>1
    <3> QED BY <1>1, <3>1 DEF IsHead
  <2> QED BY <2>1 DEF IsLoop
<1>3. \A address \in frame .. Words : address \in {frame, frame + 1} \/ address \in frame + 2 .. Words
  BY <1>0
<1>4. ReturnsBehind(words, frame) => ReturnsBehind(words, frame + 2)
  BY <1>1, <1>3 DEF ReturnsBehind
<1>5. \A address \in frame + 2 .. Words : address \in frame .. Words /\ address # frame /\ address - 1 # frame
  BY <1>0
<1>6. ReturnsRight(words, frame + 2)
  BY <1>5 DEF IsBalanced, ReturnsRight
<1>7. LoopsRight(words, frame + 2, FALSE)
  BY <1>2 DEF IsBalanced, LoopsRight
<1>8. LoopsOnly(words, frame + 2, FALSE)
  <2> SUFFICES ASSUME NEW address \in frame + 2 .. Words, words[address].type # "Return"
               PROVE  \/ IsLoop(words, frame + 2, FALSE, address)
                      \/ IsLoop(words, frame + 2, FALSE, address - 1)
    BY DEF LoopsOnly
  <2>1. address \in Int /\ address - 1 \in Int
    OBVIOUS
  <2> QED BY <2>1, <1>2, <1>5 DEF IsBalanced, LoopsOnly
<1>9. frame + 2 <= Words + 1 /\ (function # Main => ReturnsBehind(words, frame + 2))
  BY <1>0, <1>1, <1>4 DEF IsBalanced
<1> QED BY <1>6, <1>7, <1>8, <1>9 DEF IsBalanced

-------------------------------------------------------------------------------
(* What the instructions keep.                                             *)

\* The stack begins within memory or right behind it.
LEMMA BottomNat == Words \in Nat /\ Bottom \in Nat /\ 1 <= Bottom /\ Bottom <= Words + 1
BY EmitterAssumption DEF Bottom

\* An element that does not fail has the values it expects on the stack.
LEMMA ValuesThere ==
    ASSUME Inv, AtElement, ~FailsOn(Elements[pc.at], Stack)
    PROVE  LET symbol == Symbol
           IN  /\ symbol \in {"Dereference", "Call", "Negate", "Not", "Put", "Select", "Delete", "Duplicate"} =>
                    sp + 1 <= Bottom
               /\ symbol \in {"Assign", "If", "While", "Equal", "Swap"} \cup Operations => sp + 2 <= Bottom
               /\ symbol = "Rotate" => sp + 3 <= Bottom
               /\ symbol = "While" => memory[sp].type = "Function" /\ memory[sp + 1].type = "Function"
<1> DEFINE element == Elements[pc.at]
           expected == Expected(element)
<1>1. sp \in Int /\ sp <= Bottom /\ Bottom - sp \in Nat
  BY BottomNat DEF Inv, IsAbove, AtElement
<1>2. Len(Stack) = Bottom - sp /\ \A index \in 1 .. Bottom - sp : Stack[index] = memory[sp + index - 1]
  BY <1>1 DEF Stack
<1>3. /\ Len(Stack) >= Len(expected)
      /\ \A index \in DOMAIN expected : expected[index] \in {"Any", Stack[index].type}
  BY DEF FailsOn, Begins
<1>4. Symbol = element.symbol
  BY DEF Symbol
<1> HIDE DEF element
<1>5. element.symbol \in {"Dereference", "Call", "Negate", "Not", "Put", "Select", "Delete", "Duplicate"} =>
        Len(expected) = 1
  BY DEF Expected, Operations
<1>6. element.symbol \in {"Assign", "If", "Equal", "Swap"} \cup Operations => Len(expected) = 2
  BY DEF Expected, Operations
<1>7. element.symbol = "While" => expected = <<"Function", "Function">>
  BY DEF Expected, Operations
<1>8. element.symbol = "Rotate" => Len(expected) = 3
  BY DEF Expected, Operations
<1> HIDE DEF expected
<1>9. element.symbol = "While" =>
        memory[sp].type = "Function" /\ memory[sp + 1].type = "Function" /\ Len(expected) = 2
  <2> SUFFICES ASSUME element.symbol = "While"
               PROVE  memory[sp].type = "Function" /\ memory[sp + 1].type = "Function" /\ Len(expected) = 2
    OBVIOUS
  <2>1. Len(expected) = 2 /\ expected[1] = "Function" /\ expected[2] = "Function" /\ DOMAIN expected = 1 .. 2
    BY <1>7
  <2>2. Stack[1].type = "Function" /\ Stack[2].type = "Function"
    BY <1>3, <2>1
  <2>3. 1 \in 1 .. Bottom - sp /\ 2 \in 1 .. Bottom - sp
    BY <1>1, <1>2, <1>3, <2>1
  <2>4. Stack[1] = memory[sp] /\ Stack[2] = memory[sp + 1]
    <3>1. sp + 1 - 1 = sp /\ sp + 2 - 1 = sp + 1
      BY <1>1
    <3> QED BY <1>2, <2>3, <3>1
  <2> QED BY <2>1, <2>2, <2>4
<1>10. Len(expected) <= Bottom - sp
  BY <1>2, <1>3
<1>11. /\ Len(expected) = 1 => sp + 1 <= Bottom
       /\ Len(expected) = 2 => sp + 2 <= Bottom
       /\ Len(expected) = 3 => sp + 3 <= Bottom
  <2>1. \A length \in {1, 2, 3} : length <= Bottom - sp => sp + length <= Bottom
    BY <1>1, BottomNat
  <2> QED BY <1>10, <2>1
<1>12. Symbol \in {"Assign", "If", "While", "Equal", "Swap"} \cup Operations => sp + 2 <= Bottom
  BY <1>4, <1>6, <1>9, <1>11
<1> QED BY <1>4, <1>5, <1>8, <1>9, <1>11, <1>12

\* Popping and pushing leaves alone what is saved.
LEMMA ReplaceKeeps ==
    ASSUME Inv, Room, NEW count \in Nat, sp + count <= Bottom + 1, NEW words, Len(words) \in Nat,
           Replace(count, words)
    PROVE  /\ sp' = sp + count - Len(words)
           /\ DOMAIN memory' = 1 .. Words
           /\ \A address \in fp .. Words : memory'[address] = memory[address]
<1>1. \A address \in fp .. Words :
        /\ address \in 1 .. Words
        /\ address \notin sp + count - Len(words) .. sp + count - Len(words) + Len(words) - 1
  BY BottomNat DEF Inv, Room
<1> QED BY <1>1 DEF Replace, Inv

\* Pushing a return address, besides.
LEMMA CallKeeps ==
    ASSUME Inv, Room, Room', NEW count \in Nat, sp + count <= Bottom, NEW function, NEW point \in CallPoints,
           pc.point # "prologue", point \in LoopPoints <=> pc.point \in LoopPoints,
           CallAfter(count, function, point), fp' = fp
    PROVE  Inv'
<1> DEFINE return == Point(pc.function, pc.at, point)
           words == <<ReturnAddress(return)>>
<1>1. Len(words) = 1 /\ words[1] = ReturnAddress(return) /\ Len(words) \in Nat
  OBVIOUS
<1>2. Replace(count, words) /\ pc' = Point(function, 0, "prologue")
  BY DEF CallAfter
<1> HIDE DEF words
<1>3. /\ sp' = sp + count - 1
      /\ DOMAIN memory' = 1 .. Words
      /\ \A address \in fp .. Words : memory'[address] = memory[address]
  <2>1. sp + count <= Bottom + 1
    BY BottomNat DEF Inv
  <2> QED BY <1>1, <1>2, <2>1, ReplaceKeeps
<1>4. memory'[sp'] = ReturnAddress(return)
  <2>1. sp' \in 1 .. Words /\ sp' \in sp' .. sp' + Len(words) - 1 /\ sp' + Len(words) - sp' = 1
    BY <1>1, <1>3, BottomNat DEF Inv, Room
  <2>2. sp' = sp + count - Len(words)
    BY <1>1, <1>3
  <2>3. memory' = [address \in 1 .. Words |->
                    IF address \in sp' .. sp' + Len(words) - 1
                    THEN words[sp' + Len(words) - address] ELSE memory[address]]
    BY <1>2, <2>2 DEF Replace
  <2>4. memory'[sp'] = words[sp' + Len(words) - sp']
    BY <2>1, <2>3
  <2> QED BY <1>1, <2>1, <2>4
<1>5. Current = pc /\ Current' = return
  <2>1. sp' + 1 - 1 = sp'
    BY <1>1, <1>3 DEF Inv
  <2>2. Peek(1)' = ReturnAddress(return)
    BY <1>4, <2>1 DEF Peek
  <2>3. pc'.point = "prologue" /\ ReturnAddress(return).point = return
    BY <1>2 DEF Point, ReturnAddress
  <2> QED BY <2>2, <2>3 DEF Current
<1>6. IsBalanced(memory', fp, Current'.point \in LoopPoints, Current'.function)
  <2>1. return.point = point /\ return.function = pc.function
    BY DEF Point
  <2>2. IsBalanced(memory, fp, return.point \in LoopPoints, return.function)
    <3>1. (pc.point \in LoopPoints) = (point \in LoopPoints)
      BY DEF LoopPoints
    <3> QED BY <1>5, <2>1, <3>1 DEF Inv
  <2> QED BY <1>3, <1>5, <2>2, BalancedKept DEF Inv
<1>7. IsReturn(memory'[sp'])
  BY <1>4 DEF IsReturn, IsPoint, ReturnAddress, Point
<1>8. IsPoint(pc') /\ pc'.point = "prologue"
  BY <1>2 DEF IsPoint, Point
<1>9. IsAbove(pc'.point, sp') /\ sp' \in Int
  BY <1>3, <1>8, BottomNat DEF IsAbove, CallPoints, Inv
<1> QED BY <1>3, <1>6, <1>7, <1>8, <1>9 DEF Inv

\* Elements that neither call nor save anything.
LEMMA ElementKeeps ==
    ASSUME Inv, Room, AtElement, NEW count \in Nat, sp + count <= Bottom, NEW words, Len(words) \in Nat,
           Replace(count, words), pc' = NextElement, fp' = fp
    PROVE  Inv'
<1>1. /\ sp' = sp + count - Len(words)
      /\ DOMAIN memory' = 1 .. Words
      /\ \A address \in fp .. Words : memory'[address] = memory[address]
  <2>1. sp + count <= Bottom + 1
    BY BottomNat DEF Inv
  <2> QED BY <2>1, ReplaceKeeps
<1>2. pc'.point = "element" /\ pc'.function = pc.function /\ IsPoint(pc')
  BY DEF NextElement, Point, IsPoint
<1>3. Current = pc /\ Current' = pc'
  BY <1>2 DEF Current, AtElement
<1>4. IsBalanced(memory', fp, Current'.point \in LoopPoints, Current'.function)
  <2>1. (pc.point \in LoopPoints) = (pc'.point \in LoopPoints)
    BY <1>2 DEF LoopPoints, AtElement
  <2>2. IsBalanced(memory, fp, Current'.point \in LoopPoints, Current'.function)
    BY <1>2, <1>3, <2>1 DEF Inv
  <2> QED BY <1>1, <2>2, BalancedKept DEF Inv
<1>5. IsAbove(pc'.point, sp') /\ sp' \in Int
  BY <1>1, <1>2, BottomNat DEF IsAbove, CallPoints, Inv
<1> QED BY <1>1, <1>2, <1>4, <1>5 DEF Inv

-------------------------------------------------------------------------------
(* The steps.                                                              *)

\* Nothing is saved at the beginning.
LEMMA InitInv == Init => Inv
<1> SUFFICES ASSUME Init PROVE Inv
  OBVIOUS
<1>1. sp \in Int /\ fp \in Int /\ DOMAIN memory = 1 .. Words /\ fp = Words + 1
  BY BottomNat DEF Init
<1>2. pc.point = "element" /\ pc.function = Main /\ IsPoint(pc) /\ Current = pc
  BY DEF Init, Point, IsPoint, Current
<1>3. IsAbove(pc.point, sp)
  BY <1>2, BottomNat DEF Init, IsAbove, CallPoints
<1>4. IsBalanced(memory, fp, pc.point \in LoopPoints, Main)
  <2>1. pc.point \notin LoopPoints
    BY <1>2 DEF LoopPoints
  <2>2. \A address \in Int : address \notin fp .. Words
    BY <1>1, BottomNat
  <2>3. \A address \in Int : ~IsLoop(memory, fp, pc.point \in LoopPoints, address)
    BY <2>1, <2>2 DEF IsLoop, IsHead
  <2> QED BY <1>1, <2>2, <2>3, BottomNat DEF IsBalanced, ReturnsRight, LoopsRight, LoopsOnly
<1> QED BY <1>1, <1>2, <1>3, <1>4 DEF Inv

\* Elements that pop some values and push one or some.
LEMMA ElementsKeep ==
    ASSUME Inv, Room,
           Literal \/ Assign \/ Dereference \/ Unary \/ EmitBinary \/ EmitComparison \/ Arrange \/ Put \/ Get
    PROVE  Inv'
<1> DEFINE Kept == \E count \in Nat : \E words : /\ sp + count <= Bottom /\ Len(words) \in Nat
                                                 /\ Replace(count, words)
<1>1. AtElement /\ ~FailsOn(Elements[pc.at], Stack) /\ pc' = NextElement /\ fp' = fp
  BY DEF Literal, Assign, Dereference, Unary, EmitBinary, EmitComparison, Arrange, Put, Get, At, Advance
<1>2. sp + 0 <= Bottom
  BY <1>1, BottomNat DEF AtElement, Inv, IsAbove
<1>3. Kept
  <2>0. /\ Symbol \in {"Dereference", "Call", "Negate", "Not", "Put", "Select", "Delete", "Duplicate"} =>
             sp + 1 <= Bottom
        /\ Symbol \in {"Assign", "If", "While", "Equal", "Swap"} \cup Operations => sp + 2 <= Bottom
        /\ Symbol = "Rotate" => sp + 3 <= Bottom
    BY <1>1, ValuesThere
  <2>1. CASE Literal
    BY <1>2, <2>1 DEF Literal
  <2>2. CASE Assign
    BY <2>0, <2>2 DEF Assign, At
  <2>3. CASE Dereference
    BY <2>0, <2>3 DEF Dereference, At
  <2>4. CASE Unary
    BY <2>0, <2>4 DEF Unary, At
  <2>5. CASE EmitBinary
    BY <2>0, <2>5 DEF EmitBinary, At
  <2>6. CASE EmitComparison
    BY <2>0, <2>6 DEF EmitComparison, At, Operations
  <2>7. CASE Arrange
    <3>1. CASE At({"Duplicate"}) /\ Replace(0, <<Peek(1)>>)
      BY <1>2, <3>1
    <3>2. CASE At({"Delete"}) /\ Replace(1, <<>>)
      BY <2>0, <3>2 DEF At
    <3>3. CASE At({"Swap"}) /\ Replace(2, <<Peek(1), Peek(2)>>)
      BY <2>0, <3>3 DEF At
    <3>4. CASE At({"Rotate"}) /\ Replace(3, <<Peek(2), Peek(1), Peek(3)>>)
      BY <2>0, <3>4 DEF At
    <3>5. CASE At({"Select"}) /\ Replace(1, <<Peek(Peek(1).value + 2)>>)
      BY <2>0, <3>5 DEF At
    <3> QED BY <2>7, <3>1, <3>2, <3>3, <3>4, <3>5 DEF Arrange
  <2>8. CASE Put
    BY <2>0, <2>8 DEF Put, At
  <2>9. CASE Get
    BY <1>2, <2>9 DEF Get
  <2> QED BY <2>1, <2>2, <2>3, <2>4, <2>5, <2>6, <2>7, <2>8, <2>9
<1> QED BY <1>1, <1>3, ElementKeeps

\* Functions are called after the values they are called with are popped.
LEMMA CallsKeep ==
    ASSUME Inv, Room, Room', Call \/ If \/ CallCondition
    PROVE  Inv'
<1>1. CASE Call
  <2>1. AtElement /\ ~FailsOn(Elements[pc.at], Stack) /\ Symbol = "Call"
    BY <1>1 DEF Call, At
  <2>2. sp + 1 <= Bottom
    BY <2>1, ValuesThere
  <2>3. "push" \in CallPoints /\ "push" \notin LoopPoints /\ pc.point \notin LoopPoints /\ pc.point # "prologue"
    BY <2>1 DEF CallPoints, LoopPoints, AtElement
  <2>4. CallAfter(1, Peek(1).value, "push") /\ fp' = fp
    BY <1>1 DEF Call
  <2> QED BY <2>2, <2>3, <2>4, CallKeeps
<1>2. CASE If
  <2>1. AtElement /\ ~FailsOn(Elements[pc.at], Stack) /\ Symbol = "If" /\ fp' = fp
    BY <1>2 DEF If, At
  <2>2. sp + 2 <= Bottom
    BY <2>1, ValuesThere
  <2>3. "push" \in CallPoints /\ "push" \notin LoopPoints /\ pc.point \notin LoopPoints /\ pc.point # "prologue"
    BY <2>1 DEF CallPoints, LoopPoints, AtElement
  <2>4. CASE CallAfter(2, Peek(1).value, "push")
    BY <2>1, <2>2, <2>3, <2>4, CallKeeps
  <2>5. CASE Replace(2, <<>>) /\ pc' = NextElement
    BY <2>1, <2>2, <2>5, ElementKeeps
  <2> QED BY <1>2, <2>4, <2>5 DEF If
<1>3. CASE CallCondition
  <2>1. pc.point = "begin" /\ CallAfter(0, memory[fp].value, "test") /\ fp' = fp
    BY <1>3 DEF CallCondition
  <2>2. sp + 0 <= Bottom
    BY <2>1, BottomNat DEF Inv, IsAbove
  <2>3. "test" \in CallPoints /\ "test" \in LoopPoints /\ pc.point \in LoopPoints /\ pc.point # "prologue"
    BY <2>1 DEF CallPoints, LoopPoints
  <2> QED BY <2>1, <2>2, <2>3, CallKeeps
<1> QED BY <1>1, <1>2, <1>3

\* The return address is on the stack, and saved instead.
LEMMA PrologueKeeps ==
    ASSUME Inv, Room, Room', Prologue
    PROVE  Inv'
<1>1. pc.point = "prologue" /\ IsReturn(memory[sp]) /\ Current = memory[sp].point /\ Peek(1) = memory[sp]
  <2>1. sp + 1 - 1 = sp
    BY DEF Inv
  <2> QED BY <2>1 DEF Prologue, Inv, Current, Peek
<1>2. memory' = [memory EXCEPT ![fp - 1] = memory[sp]] /\ fp' = fp - 1 /\ sp' = sp + 1
  BY <1>1 DEF Prologue
<1>3. fp - 1 \in 1 .. Words
  BY <1>2, BottomNat DEF Room, Inv, IsBalanced
<1>4. memory'[fp - 1] = memory[sp] /\ DOMAIN memory' = 1 .. Words
      /\ \A address \in fp .. Words : memory'[address] = memory[address]
  BY <1>2, <1>3 DEF Inv
<1>5. pc'.point = "element" /\ IsPoint(pc') /\ Current' = pc'
  BY DEF Prologue, Point, IsPoint, Current
<1>6. IsBalanced(memory, fp, memory'[fp - 1].point.point \in LoopPoints, memory'[fp - 1].point.function)
  BY <1>1, <1>4 DEF Inv
<1>7. IsBalanced(memory', fp - 1, FALSE, Current'.function)
  BY <1>1, <1>4, <1>6, ReturnSaved DEF Inv
<1>8. (Current'.point \in LoopPoints) = FALSE
  BY <1>5 DEF LoopPoints
<1>9. sp' \in Int /\ fp' \in Int /\ IsAbove(pc'.point, sp')
  BY <1>1, <1>2, <1>5, BottomNat DEF Inv, IsAbove, CallPoints
<1> QED BY <1>2, <1>4, <1>5, <1>7, <1>8, <1>9 DEF Inv

\* The address that was saved last is where a function returns to.
LEMMA ReturnKeeps ==
    ASSUME Inv, Room, Return
    PROVE  Inv'
<1>1. pc.point = "element" /\ Current = pc /\ pc.function # Main /\ (Current.point \in LoopPoints) = FALSE
  BY DEF Return, AtEnd, Current, LoopPoints
<1>2. IsBalanced(memory, fp, FALSE, pc.function)
  BY <1>1 DEF Inv
<1>3. /\ IsReturn(memory[fp])
      /\ IsBalanced(memory, fp + 1, memory[fp].point.point \in LoopPoints, memory[fp].point.function)
  BY <1>1, <1>2, ReturnTaken DEF Inv
<1>4. pc' = memory[fp].point /\ memory' = memory /\ fp' = fp + 1 /\ sp' = sp + 1
  BY DEF Return
<1>5. IsPoint(pc') /\ pc'.point \in CallPoints /\ pc'.point # "prologue" /\ Current' = pc'
  BY <1>3, <1>4 DEF IsReturn, CallPoints, Current
<1>6. sp' \in Int /\ fp' \in Int /\ IsAbove(pc'.point, sp')
  BY <1>1, <1>4, <1>5, BottomNat DEF Inv, IsAbove, CallPoints
<1> QED BY <1>3, <1>4, <1>5, <1>6 DEF Inv

\* What a function returns is pushed.
LEMMA PushesKeep ==
    ASSUME Inv, Room, PushResult \/ PushAgain
    PROVE  Inv'
<1>1. pc.point \in {"push", "again"} /\ Replace(0, <<result>>) /\ fp' = fp
  BY DEF PushResult, PushAgain
<1>2. /\ sp' = sp - 1 /\ sp <= Bottom + 1
      /\ DOMAIN memory' = 1 .. Words
      /\ \A address \in fp .. Words : memory'[address] = memory[address]
  <2>1. sp + 0 <= Bottom + 1 /\ Len(<<result>>) = 1 /\ sp <= Bottom + 1
    BY <1>1, BottomNat DEF Inv, IsAbove, CallPoints
  <2>2. /\ sp' = sp + 0 - Len(<<result>>)
        /\ DOMAIN memory' = 1 .. Words
        /\ \A address \in fp .. Words : memory'[address] = memory[address]
    BY <1>1, <2>1, ReplaceKeeps
  <2> QED BY <2>1, <2>2 DEF Inv
<1>3. /\ IsPoint(pc') /\ pc'.point \in {"element", "begin"} /\ pc'.function = pc.function
      /\ (pc'.point \in LoopPoints) = (pc.point \in LoopPoints)
  <2>1. CASE PushResult
    BY <2>1 DEF PushResult, NextElement, Point, IsPoint, LoopPoints
  <2>2. CASE PushAgain
    BY <2>2 DEF PushAgain, Inv, Point, IsPoint, LoopPoints
  <2> QED BY <2>1, <2>2
<1>4. Current = pc /\ Current' = pc'
  BY <1>1, <1>3 DEF Current
<1>5. IsBalanced(memory', fp, Current'.point \in LoopPoints, Current'.function)
  <2>1. IsBalanced(memory, fp, Current'.point \in LoopPoints, Current'.function)
    BY <1>3, <1>4 DEF Inv
  <2> QED BY <1>2, <2>1, BalancedKept DEF Inv
<1>6. sp' \in Int /\ IsAbove(pc'.point, sp')
  BY <1>2, <1>3, BottomNat DEF Inv, IsAbove, CallPoints
<1> QED BY <1>1, <1>2, <1>3, <1>5, <1>6 DEF Inv

\* The functions of a loop are saved, which are no return addresses.
LEMMA WhileKeeps ==
    ASSUME Inv, Room, Room', While
    PROVE  Inv'
<1>1. /\ AtElement /\ ~FailsOn(Elements[pc.at], Stack) /\ Symbol = "While"
      /\ memory' = [memory EXCEPT ![fp - 1] = Peek(1), ![fp - 2] = Peek(2)]
      /\ fp' = fp - 2 /\ sp' = sp + 2 /\ pc' = [pc EXCEPT !.point = "begin"]
  BY DEF While, At, SaveLoop
<1>2. sp + 2 <= Bottom /\ memory[sp].type = "Function" /\ memory[sp + 1].type = "Function"
  BY <1>1, ValuesThere
<1>3. Peek(1).type # "Return" /\ Peek(2).type # "Return"
  <2>1. sp + 1 - 1 = sp /\ sp + 2 - 1 = sp + 1
    BY DEF Inv
  <2> QED BY <1>2, <2>1 DEF Peek
<1>4. fp - 1 \in 1 .. Words /\ fp - 2 \in 1 .. Words /\ fp - 1 # fp - 2
      /\ \A address \in fp .. Words : address # fp - 1 /\ address # fp - 2
  BY <1>1, BottomNat DEF Room, Inv, IsBalanced
<1>5. /\ memory'[fp - 1].type # "Return" /\ memory'[fp - 2].type # "Return"
      /\ DOMAIN memory' = 1 .. Words
      /\ \A address \in fp .. Words : memory'[address] = memory[address]
  BY <1>1, <1>3, <1>4 DEF Inv
<1>6. Current = pc /\ pc.point = "element" /\ (Current.point \in LoopPoints) = FALSE
  BY <1>1 DEF Current, AtElement, LoopPoints
<1>7. IsPoint(pc') /\ pc'.point = "begin" /\ pc'.function = pc.function /\ Current' = pc'
      /\ (Current'.point \in LoopPoints) = TRUE
  BY <1>1 DEF Inv, Point, IsPoint, Current, LoopPoints
<1>8. IsBalanced(memory', fp - 2, TRUE, pc.function)
  BY <1>5, <1>6, LoopSaved DEF Inv
<1>9. sp' \in Int /\ fp' \in Int /\ IsAbove(pc'.point, sp')
  BY <1>1, <1>2, <1>7 DEF Inv, IsAbove, CallPoints
<1> QED BY <1>1, <1>5, <1>7, <1>8, <1>9 DEF Inv

\* A loop calls its body, or removes its functions.
LEMMA TestKeeps ==
    ASSUME Inv, Room, Room', TestCondition
    PROVE  Inv'
<1>1. pc.point = "test" /\ sp <= Bottom /\ sp + 0 <= Bottom
  BY DEF TestCondition, Inv
<1>2. CASE CallAfter(0, memory[fp + 1].value, "again") /\ fp' = fp
  <2>1. "again" \in CallPoints /\ "again" \in LoopPoints /\ pc.point \in LoopPoints /\ pc.point # "prologue"
    BY <1>1 DEF CallPoints, LoopPoints
  <2> QED BY <1>1, <1>2, <2>1, CallKeeps
<1>3. CASE fp' = fp + 2 /\ pc' = NextElement /\ memory' = memory /\ sp' = sp
  <2>1. Current = pc /\ (Current.point \in LoopPoints) = TRUE
    BY <1>1 DEF Current, LoopPoints
  <2>2. IsBalanced(memory, fp + 2, FALSE, pc.function)
    BY <2>1, LoopTaken DEF Inv
  <2>3. pc'.point = "element" /\ pc'.function = pc.function /\ IsPoint(pc') /\ Current' = pc'
        /\ (Current'.point \in LoopPoints) = FALSE
    BY <1>3 DEF NextElement, Point, IsPoint, Current, LoopPoints
  <2>4. sp' \in Int /\ fp' \in Int /\ IsAbove(pc'.point, sp')
    BY <1>1, <1>3, <2>3 DEF Inv, IsAbove, CallPoints
  <2> QED BY <1>3, <2>2, <2>3, <2>4 DEF Inv
<1> QED BY <1>2, <1>3 DEF TestCondition, FinishLoop

\* Each step keeps the invariant, as long as there is room.
LEMMA NextInv ==
    ASSUME Inv, Room, Room', [Next]_vars
    PROVE  Inv'
<1>1. CASE Exit \/ Undefined \/ UNCHANGED vars
  <2>1. sp' = sp /\ fp' = fp /\ memory' = memory /\ pc' = pc
    BY <1>1 DEF Exit, Undefined, vars
  <2> QED BY <2>1 DEF Inv, Current, Peek
<1> QED BY <1>1, ElementsKeep, CallsKeep, PrologueKeeps, ReturnKeeps, PushesKeep, WhileKeeps, TestKeeps DEF Next

\* The loops that are saved are those at the addresses of their conditions.
LEMMA SavedLoops ==
    ASSUME Inv
    PROVE  /\ DOMAIN Saved = 1 .. Words + 1 - fp
           /\ \A index \in 1 .. Words + 1 - fp : Saved[index] = memory[Words + 1 - index]
           /\ LoopsSaved \subseteq Int
           /\ \A saved \in Int : saved \in LoopsSaved
                <=> IsLoop(memory, fp, Current.point \in LoopPoints, Words + 1 - saved)
<1> DEFINE looping == Current.point \in LoopPoints
           returning == {index \in DOMAIN Saved : Saved[index].type = "Return"
                                                  /\ Saved[index].point.point \in LoopPoints}
<1>1. fp \in Int /\ Words \in Nat /\ Words + 1 - fp \in Nat
  BY BottomNat DEF Inv, IsBalanced
<1>2. DOMAIN Saved = 1 .. Words + 1 - fp /\ Len(Saved) = Words + 1 - fp
      /\ \A index \in 1 .. Words + 1 - fp : Saved[index] = memory[Words + 1 - index]
  BY <1>1 DEF Saved
<1>3. \A index \in Int : index \in returning <=> IsHead(memory, fp, Words + 1 - index)
  <2> SUFFICES ASSUME NEW index \in Int PROVE index \in returning <=> IsHead(memory, fp, Words + 1 - index)
    OBVIOUS
  <2>1. index \in 1 .. Words + 1 - fp <=> Words + 1 - index \in fp .. Words
    BY <1>1
  <2> QED BY <1>2, <2>1 DEF IsHead
<1>4. returning \subseteq Int
  BY <1>2
<1>5. LoopsSaved = {index - 1 : index \in returning} \cup (IF looping THEN {Words + 1 - fp} ELSE {})
  BY <1>2 DEF LoopsSaved
<1> HIDE DEF returning
<1>6. ASSUME NEW saved \in Int
      PROVE  saved \in LoopsSaved <=> IsLoop(memory, fp, looping, Words + 1 - saved)
  <2> DEFINE Before == {index - 1 : index \in returning}
  <2>1. PICK address \in Int : address = Words + 1 - saved
    BY <1>1
  <2>2. saved \in Before <=> IsHead(memory, fp, address - 1)
    <3>1. saved \in Before <=> saved + 1 \in returning
      <4>1. saved + 1 - 1 = saved /\ \A index \in Int : index - 1 = saved => index = saved + 1
        OBVIOUS
      <4> QED BY <1>4, <4>1
    <3>2. saved + 1 \in Int /\ Words + 1 - (saved + 1) = address - 1
      BY <1>1, <2>1
    <3> QED BY <1>3, <3>1, <3>2
  <2>3. saved = Words + 1 - fp <=> address = fp
    BY <1>1, <2>1
  <2>4. saved \in LoopsSaved <=> saved \in Before \/ (looping /\ saved = Words + 1 - fp)
    BY <1>5
  <2> HIDE DEF Before
  <2>5. CASE looping
    <3>1. IsLoop(memory, fp, looping, address) <=> address = fp \/ IsHead(memory, fp, address - 1)
      BY <2>5 DEF IsLoop
    <3>2. saved \in LoopsSaved <=> address = fp \/ IsHead(memory, fp, address - 1)
      BY <2>2, <2>3, <2>4, <2>5
    <3> QED BY <2>1, <3>1, <3>2, Zenon
  <2>6. CASE ~looping
    <3>1. IsLoop(memory, fp, looping, address) <=> IsHead(memory, fp, address - 1)
      BY <2>6 DEF IsLoop
    <3>2. saved \in LoopsSaved <=> IsHead(memory, fp, address - 1)
      BY <2>2, <2>3, <2>4, <2>6
    <3> QED BY <2>1, <3>1, <3>2, Zenon
  <2> QED BY <2>5, <2>6
<1>7. LoopsSaved \subseteq Int
  BY <1>1, <1>4, <1>5
<1> QED BY <1>2, <1>6, <1>7

\* Saved words are the return addresses and the functions of the loops in
\* progress, two for each, as long as the stack does not grow into them.
THEOREM Balance == Spec /\ []Room => []SavedBalanced
<1>1. Inv => SavedBalanced
  <2> SUFFICES ASSUME Inv PROVE SavedBalanced
    OBVIOUS
  <2> DEFINE looping == Current.point \in LoopPoints
             size == Words + 1 - fp
             IsAt(address) == IsLoop(memory, fp, looping, address)
  <2>1. fp \in Int /\ Words \in Nat /\ size \in Nat
    BY BottomNat DEF Inv, IsBalanced
  <2>2. /\ DOMAIN Saved = 1 .. size
        /\ \A index \in 1 .. size : Saved[index] = memory[Words + 1 - index]
        /\ LoopsSaved \subseteq Int
        /\ \A saved \in Int : saved \in LoopsSaved <=> IsAt(Words + 1 - saved)
    BY SavedLoops
  <2>3. \A address \in Int : IsAt(address) =>
          /\ address >= fp /\ address + 1 <= Words
          /\ memory[address].type # "Return" /\ memory[address + 1].type # "Return"
    <3>1. \A address \in Int : IsAt(address) => address >= fp
      BY <2>1 DEF IsLoop, IsHead
    <3>2. LoopsRight(memory, fp, looping)
      BY DEF Inv, IsBalanced
    <3> HIDE DEF looping
    <3> QED BY <3>1, <3>2 DEF LoopsRight
  <2>4. \A address \in fp .. Words : memory[address].type # "Return" => IsAt(address) \/ IsAt(address - 1)
    BY DEF Inv, IsBalanced, LoopsOnly
  <2>5. \A address \in Int : IsAt(address) => ~IsAt(address + 1)
    BY <2>1, <2>3 DEF IsLoop, IsHead
  <2> HIDE DEF IsAt, size
  <2>6. ASSUME NEW index \in DOMAIN Saved, Saved[index].type # "Return"
        PROVE  \E saved \in LoopsSaved : index \in {saved - 1, saved}
    <3>1. index \in Int /\ index + 1 \in Int /\ Words + 1 - index \in fp .. Words
          /\ Words + 1 - (index + 1) = Words + 1 - index - 1 /\ index + 1 - 1 = index
      BY <2>1, <2>2, <2>6 DEF size
    <3>2. IsAt(Words + 1 - index) \/ IsAt(Words + 1 - (index + 1))
      <4>1. memory[Words + 1 - index].type # "Return"
        BY <2>2, <2>6
      <4>2. PICK address \in fp .. Words : address = Words + 1 - index
        BY <3>1
      <4>3. IsAt(address) \/ IsAt(address - 1)
        BY <2>4, <4>1, <4>2
      <4>4. address - 1 = Words + 1 - (index + 1)
        BY <2>1, <3>1, <4>2
      <4> QED BY <4>2, <4>3, <4>4, Zenon
    <3>3. index \in LoopsSaved \/ index + 1 \in LoopsSaved
      BY <2>2, <3>1, <3>2
    <3> QED BY <3>1, <3>3
  <2>7. ASSUME NEW saved \in LoopsSaved, NEW index \in {saved - 1, saved}
        PROVE  index \in DOMAIN Saved /\ Saved[index].type # "Return"
    <3>1. saved \in Int /\ Words + 1 - saved \in Int /\ IsAt(Words + 1 - saved)
      BY <2>1, <2>2
    <3>2. /\ Words + 1 - saved >= fp /\ Words + 1 - saved + 1 <= Words
          /\ memory[Words + 1 - saved].type # "Return" /\ memory[Words + 1 - saved + 1].type # "Return"
      BY <2>3, <3>1
    <3>3. saved \in 1 .. size /\ saved - 1 \in 1 .. size /\ Words + 1 - (saved - 1) = Words + 1 - saved + 1
      BY <2>1, <3>1, <3>2 DEF size
    <3>4. Saved[saved] = memory[Words + 1 - saved] /\ Saved[saved - 1] = memory[Words + 1 - saved + 1]
      BY <2>2, <3>3
    <3> QED BY <2>2, <3>2, <3>3, <3>4
  <2>8. ASSUME NEW saved \in LoopsSaved, NEW other \in LoopsSaved, saved < other
        PROVE  saved < other - 1
    <3>1. saved \in Int /\ other \in Int /\ IsAt(Words + 1 - saved) /\ IsAt(Words + 1 - other)
          /\ Words + 1 - other \in Int
      BY <2>1, <2>2
    <3>2. saved = other - 1 => Words + 1 - saved = Words + 1 - other + 1
      BY <2>1, <3>1
    <3>3. saved # other - 1
      BY <2>5, <3>1, <3>2
    <3> QED BY <2>8, <3>1, <3>3
  <2> QED BY <2>6, <2>7, <2>8 DEF SavedBalanced
<1>2. Init => Inv
  BY InitInv
<1>3. Inv /\ Room /\ Room' /\ [Next]_vars => Inv'
  BY NextInv
<1> QED BY <1>1, <1>2, <1>3, PTL DEF Spec

-------------------------------------------------------------------------------
(* Words represent integers.                                               *)

Size == 2 ^ Width
Half == 2 ^ (Width - 1)

\* The sizes of words and of their halves.
LEMMA Sizes ==
    /\ Half \in Nat /\ Half > 1 /\ Size \in Nat /\ Size = 2 * Half /\ Width \in Nat /\ Width > 1
    /\ \A value : InRange(value) <=> value \in Int /\ -Half <= value /\ value < Half
<1>1. Width \in Nat /\ Width > 1
  BY EmitterAssumption
<1>2. Half \in Nat \ {0} /\ Size = 2 * Half
  BY <1>1, PowersAssumption DEF Size, Half
<1>3. Half > 1
  <2>1. Width - 1 \in 1 .. Width
    BY <1>1
  <2>2. 2 ^ (Width - 1 - 1) \in Nat \ {0} /\ 2 ^ (Width - 1) = 2 * 2 ^ (Width - 1 - 1)
    BY <2>1, PowersAssumption
  <2> QED BY <2>2 DEF Half
<1>4. \A value : InRange(value) <=> value \in Int /\ -Half <= value /\ value < Half
  BY <1>2 DEF InRange, Half
<1> QED BY <1>1, <1>2, <1>3, <1>4

\* Remainders of numbers near the modulus.
LEMMA Remainders ==
    ASSUME NEW modulus \in Nat, modulus > 0, NEW value \in Int
    PROVE  /\ value % modulus \in 0 .. modulus - 1
           /\ 0 <= value /\ value < modulus => value % modulus = value
           /\ -modulus <= value /\ value < 0 => value % modulus = value + modulus
OBVIOUS

\* Truncation to words, with and without a sign.
LEMMA Truncated ==
    ASSUME NEW value
    PROVE  /\ Code!Truncate(Code!Pointer, value) = value % Size
           /\ Code!Truncate(IntegerType, value) =
                IF value % Size >= Half THEN (value % Size) - Size ELSE value % Size
BY DEF Code!Truncate, Code!Pointer, Code!IsSigned, IntegerType, Size, Half

\* What is in the range of words is not truncated.
LEMMA TruncatedInRange ==
    ASSUME NEW value, InRange(value)
    PROVE  Code!Truncate(IntegerType, value) = value
<1>1. value \in Int /\ -Half <= value /\ value < Half /\ Size = 2 * Half /\ Half \in Nat /\ Size > 0 /\ Size \in Nat
  BY Sizes
<1>2. CASE value >= 0
  <2>1. value % Size = value
    BY <1>1, <1>2, Remainders
  <2> QED BY <1>1, <2>1, Truncated
<1>3. CASE value < 0
  <2>1. value % Size = value + Size
    BY <1>1, <1>3, Remainders
  <2> QED BY <1>1, <2>1, Truncated
<1> QED BY <1>1, <1>2, <1>3

\* A word gives back the integer it represents, and its value is a word's.
LEMMA WordBack ==
    ASSUME NEW value, InRange(value)
    PROVE  /\ Word(value).type = "Integer" /\ Word(value) = Integer(Word(value).value)
           /\ Word(value).value \in 0 .. Size - 1
           /\ AsInteger(Word(value)) = value
           /\ Interpreted(Word(value)) = Integer(value)
<1>1. value \in Int /\ -Half <= value /\ value < Half /\ Size = 2 * Half /\ Half \in Nat /\ Size > 0 /\ Size \in Nat
  BY Sizes
<1>2. Word(value) = [type |-> "Integer", value |-> value % Size] /\ value % Size \in 0 .. Size - 1
  BY <1>1, Truncated, Remainders DEF Word, Integer, Value
<1>3. (value % Size) % Size = value % Size
  BY <1>1, <1>2, Remainders
<1>4. AsInteger(Word(value)) = Code!Truncate(IntegerType, value)
  BY <1>2, <1>3, Truncated DEF AsInteger
<1>5. AsInteger(Word(value)) = value
  BY <1>4, TruncatedInRange
<1> QED BY <1>2, <1>5 DEF Interpreted, Integer, Value

\* Different words represent different integers, of which zero is zero.
LEMMA WordsApart ==
    ASSUME NEW word, NEW other, word.value \in 0 .. Size - 1, other.value \in 0 .. Size - 1
    PROVE  /\ InRange(AsInteger(word))
           /\ AsInteger(word) = AsInteger(other) => word.value = other.value
           /\ AsInteger(word) = 0 <=> word.value = 0
           /\ AsInteger(word) >= 0 => AsInteger(word) = word.value
<1>1. Size = 2 * Half /\ Half \in Nat /\ Size > 0 /\ Size \in Nat
  BY Sizes
<1>2. word.value % Size = word.value /\ other.value % Size = other.value
  BY <1>1, Remainders
<1>3. /\ AsInteger(word) = IF word.value >= Half THEN word.value - Size ELSE word.value
      /\ AsInteger(other) = IF other.value >= Half THEN other.value - Size ELSE other.value
  BY <1>2, Truncated DEF AsInteger
<1> QED BY <1>1, <1>3, Sizes

\* Truth values, as words and as integers.
LEMMA Booleans ==
    ASSUME NEW condition
    PROVE  /\ Interpreted(Boolean(condition)) = Boolean(condition)
           /\ Boolean(condition).type = "Integer" /\ Boolean(condition) = Integer(Boolean(condition).value)
           /\ Boolean(condition).value \in 0 .. Size - 1
<1>1. Size = 2 * Half /\ Half \in Nat /\ Half > 1
  BY Sizes
<1>2. InRange(0) /\ InRange(1)
  BY <1>1, Sizes
<1>3. 0 % Size = 0 /\ 1 % Size = 1
  BY <1>1, Remainders
<1>4. Word(0) = Integer(0) /\ Word(1) = Integer(1)
  BY <1>3, Truncated DEF Word
<1>5. Interpreted(Integer(0)) = Integer(0) /\ Interpreted(Integer(1)) = Integer(1)
  BY <1>2, <1>4, WordBack
<1>6. Boolean(condition) \in {Integer(0), Integer(1)}
  BY DEF Boolean
<1> QED BY <1>1, <1>5, <1>6 DEF Integer, Value

\* The complement of a truth value.
LEMMA Complement ==
    ASSUME NEW value \in {0, 1}
    PROVE  Word(Code!ComputeUnary("NOT", IntegerType, value) % 2) = Boolean(value = 0)
<1>1. Size = 2 * Half /\ Half \in Nat /\ Half > 1
  BY Sizes
<1>2. Code!ComputeUnary("NOT", IntegerType, value) = Code!Truncate(IntegerType, -value - 1)
  BY DEF Code!ComputeUnary
<1>3. InRange(-value - 1)
  BY <1>1, Sizes
<1>4. Code!ComputeUnary("NOT", IntegerType, value) = -value - 1
  BY <1>2, <1>3, TruncatedInRange
<1>5. (-value - 1) % 2 = IF value = 0 THEN 1 ELSE 0
  BY Remainders
<1>6. Word(0) = Integer(0) /\ Word(1) = Integer(1)
  <2>1. 0 % Size = 0 /\ 1 % Size = 1
    BY <1>1, Remainders
  <2> QED BY <2>1, Truncated DEF Word
<1> QED BY <1>4, <1>5, <1>6 DEF Boolean

\* The negative of an integer.
LEMMA Negation ==
    ASSUME NEW value, InRange(-value)
    PROVE  Code!ComputeUnary("NEG", IntegerType, value) = -value
BY TruncatedInRange DEF Code!ComputeUnary

\* A set of natural numbers that is not empty has a least one.
LEMMA Least ==
    ASSUME NEW numbers \in SUBSET Nat, numbers # {}
    PROVE  \E first \in numbers : \A other \in numbers : first <= other
<1>1. PICK first \in numbers : \A other \in numbers : ~(<<other, first>> \in OpToRel(<, Nat))
  BY NatLessThanWellFounded, WFMin
<1>2. ASSUME NEW other \in numbers, other < first
      PROVE  <<other, first>> \in OpToRel(<, Nat)
  <2>1. <<other, first>> \in Nat \X Nat /\ <<other, first>>[1] < <<other, first>>[2]
    BY <1>2
  <2> QED BY <2>1, Zenon DEF OpToRel
<1>3. \A other \in numbers : ~(other < first)
  BY <1>1, <1>2
<1> QED BY <1>3

\* Bits of truth values: there is one at most.
BitAt(value, index) == (value \div 2 ^ index) % 2

Sum(sum, count, value1, value2, pairs) ==
    IF count = 0 THEN 0
    ELSE sum[count - 1]
        + IF <<BitAt(value1, count - 1), BitAt(value2, count - 1)>> \in pairs THEN 2 ^ (count - 1) ELSE 0

IsSum(sum, value1, value2, pairs) ==
    sum = [count \in 0 .. Width |-> Sum(sum, count, value1, value2, pairs)]

\* A truth value has its lowest bit only.
LEMMA TruthBits ==
    ASSUME NEW value \in {0, 1}, NEW index \in 0 .. Width - 1
    PROVE  BitAt(value, index) = IF index = 0 THEN value ELSE 0
<1>1. Width \in Nat
  BY EmitterAssumption
<1>2. CASE index = 0
  <2>1. value \div 1 = value /\ value % 2 = value
    OBVIOUS
  <2> QED BY <1>2, <2>1, PowersAssumption DEF BitAt
<1>3. CASE index # 0
  <2>1. index \in 1 .. Width
    BY <1>1, <1>3
  <2>2. 2 ^ (index - 1) \in Nat \ {0} /\ 2 ^ index = 2 * 2 ^ (index - 1)
    BY <2>1, PowersAssumption
  <2> DEFINE power == 2 ^ index
  <2>3. power \in Nat /\ power > 1
    BY <2>2
  <2> HIDE DEF power
  <2>4. value \div power = 0
    BY <2>3
  <2>5. BitAt(value, index) = (value \div power) % 2
    BY DEF BitAt, power
  <2> QED BY <1>3, <2>4, <2>5
<1> QED BY <1>2, <1>3

\* Operations on bits yield truth values for truth values.
LEMMA TruthSums ==
    ASSUME NEW value1 \in {0, 1}, NEW value2 \in {0, 1}, NEW pairs, <<0, 0>> \notin pairs
    PROVE  Code!Bitwise2(Width, value1, value2, pairs) = IF <<value1, value2>> \in pairs THEN 1 ELSE 0
<1> DEFINE one == IF <<value1, value2>> \in pairs THEN 1 ELSE 0
           f == [count \in 0 .. Width |-> IF count = 0 THEN 0 ELSE one]
<1>1. Width \in Nat /\ Width > 1 /\ 2 ^ 0 = 1
  BY EmitterAssumption, PowersAssumption
<1>2. ASSUME NEW count \in 1 .. Width
      PROVE  (IF <<BitAt(value1, count - 1), BitAt(value2, count - 1)>> \in pairs THEN 2 ^ (count - 1) ELSE 0)
               = IF count = 1 THEN one ELSE 0
  <2>1. count - 1 \in 0 .. Width - 1
    BY <1>1
  <2>2. /\ BitAt(value1, count - 1) = IF count - 1 = 0 THEN value1 ELSE 0
        /\ BitAt(value2, count - 1) = IF count - 1 = 0 THEN value2 ELSE 0
    BY <2>1, TruthBits
  <2>3. CASE count = 1
    <3>1. count - 1 = 0
      BY <2>3
    <3> QED BY <1>1, <2>2, <2>3, <3>1
  <2>4. CASE count # 1
    <3>1. count - 1 # 0
      BY <2>4
    <3> QED BY <2>2, <2>4, <3>1
  <2> QED BY <2>3, <2>4
<1>3. \A sum : \A count \in 0 .. Width :
        Sum(sum, count, value1, value2, pairs) =
            IF count = 0 THEN 0 ELSE sum[count - 1] + IF count = 1 THEN one ELSE 0
  <2> SUFFICES ASSUME NEW sum, NEW count \in 0 .. Width
               PROVE  Sum(sum, count, value1, value2, pairs) =
                        IF count = 0 THEN 0 ELSE sum[count - 1] + IF count = 1 THEN one ELSE 0
    OBVIOUS
  <2>1. CASE count = 0
    BY <2>1 DEF Sum
  <2>2. CASE count # 0
    <3>1. count \in 1 .. Width
      BY <1>1, <2>2
    <3> HIDE DEF one
    <3> QED BY <2>2, <3>1, <1>2 DEF Sum
  <2> QED BY <2>1, <2>2
<1>4. one \in {0, 1}
  OBVIOUS
<1> HIDE DEF one
<1>5. IsSum(f, value1, value2, pairs)
  <2>1. ASSUME NEW count \in 0 .. Width
        PROVE  (IF count = 0 THEN 0 ELSE one) = Sum(f, count, value1, value2, pairs)
    <3>1. CASE count = 0
      BY <1>3, <3>1
    <3>2. CASE count # 0
      <4>1. count - 1 \in 0 .. Width /\ f[count - 1] = IF count - 1 = 0 THEN 0 ELSE one
        BY <1>1, <3>2
      <4>2. Sum(f, count, value1, value2, pairs) = f[count - 1] + IF count = 1 THEN one ELSE 0
        BY <1>3, <3>2
      <4> HIDE DEF f
      <4> QED BY <1>4, <3>2, <4>1, <4>2
    <3> QED BY <3>1, <3>2
  <2> QED BY <2>1 DEF IsSum
<1> DEFINE lowest == CHOOSE sum : IsSum(sum, value1, value2, pairs)
<1>6. IsSum(lowest, value1, value2, pairs)
  BY <1>5, Zenon
<1>7. Code!Bitwise2(Width, value1, value2, pairs) = lowest[Width]
  BY DEF Code!Bitwise2, IsSum, Sum, BitAt
<1> HIDE DEF lowest, f
<1>8. \A count \in 0 .. Width :
        lowest[count] = IF count = 0 THEN 0 ELSE lowest[count - 1] + IF count = 1 THEN one ELSE 0
  BY <1>3, <1>6 DEF IsSum
<1>9. ASSUME NEW count \in 1 .. Width, lowest[count] # one PROVE FALSE
  <2> DEFINE U == {k \in 1 .. Width : lowest[k] # one}
  <2>1. U \in SUBSET Nat /\ U # {}
    BY <1>1, <1>9
  <2>2. PICK m \in U : \A k \in U : m <= k
    BY <2>1, Least
  <2>3. m \in 1 .. Width /\ lowest[m] # one /\ m - 1 \notin U
    BY <2>2
  <2>4. lowest[m] = lowest[m - 1] + IF m = 1 THEN one ELSE 0
    BY <1>1, <1>8, <2>3
  <2>5. CASE m = 1
    <3>1. lowest[0] = 0 /\ m - 1 = 0
      BY <1>1, <1>8, <2>5
    <3> QED BY <1>4, <2>3, <2>4, <2>5, <3>1
  <2>6. CASE m # 1
    <3>1. m - 1 \in 1 .. Width
      BY <1>1, <2>3, <2>6
    <3>2. lowest[m - 1] = one
      BY <2>3, <3>1
    <3> QED BY <1>4, <2>3, <2>4, <2>6, <3>2
  <2> QED BY <2>5, <2>6
<1>10. Width \in 1 .. Width
  BY <1>1
<1> QED BY <1>7, <1>9, <1>10 DEF one

\* What the instructions compute is what the interpreter does, where it is exact.
LEMMA Computations ==
    ASSUME NEW value1, NEW value2
    PROVE  /\ InRange(value1 + value2) => Code!Compute("ADD", IntegerType, value1, value2) = value1 + value2
           /\ InRange(value1 - value2) => Code!Compute("SUB", IntegerType, value1, value2) = value1 - value2
           /\ InRange(value1 * value2) => Code!Compute("MUL", IntegerType, value1, value2) = value1 * value2
           /\ InRange(Code!Quotient(value1, value2)) =>
                Code!Compute("DIV", IntegerType, value1, value2) = Code!Quotient(value1, value2)
           /\ value1 \in {0, 1} /\ value2 \in {0, 1} =>
                /\ Integer(Code!Compute("AND", IntegerType, value1, value2)) = Boolean(value1 # 0 /\ value2 # 0)
                /\ Integer(Code!Compute("OR", IntegerType, value1, value2)) = Boolean(value1 # 0 \/ value2 # 0)
<1>1. \A value : InRange(value) => Code!Truncate(IntegerType, value) = value
  BY TruncatedInRange
<1>2. InRange(0) /\ InRange(1)
  BY Sizes
<1>3. ASSUME value1 \in {0, 1}, value2 \in {0, 1}
      PROVE  /\ Code!Bitwise2(Width, value1, value2, {<<1, 1>>}) = IF value1 # 0 /\ value2 # 0 THEN 1 ELSE 0
             /\ Code!Bitwise2(Width, value1, value2, {<<0, 1>>, <<1, 0>>, <<1, 1>>})
                  = IF value1 # 0 \/ value2 # 0 THEN 1 ELSE 0
  <2>1. <<0, 0>> \notin {<<1, 1>>} /\ <<0, 0>> \notin {<<0, 1>>, <<1, 0>>, <<1, 1>>}
    OBVIOUS
  <2> QED BY <1>3, <2>1, TruthSums
<1>4. IntegerType.size = Width
  BY DEF IntegerType
<1>5. /\ Code!Compute("ADD", IntegerType, value1, value2) = Code!Truncate(IntegerType, value1 + value2)
      /\ Code!Compute("SUB", IntegerType, value1, value2) = Code!Truncate(IntegerType, value1 - value2)
      /\ Code!Compute("MUL", IntegerType, value1, value2) = Code!Truncate(IntegerType, value1 * value2)
      /\ Code!Compute("DIV", IntegerType, value1, value2) = Code!Truncate(IntegerType, Code!Quotient(value1, value2))
      /\ Code!Compute("AND", IntegerType, value1, value2)
            = Code!Truncate(IntegerType, Code!Bitwise2(Width, value1, value2, {<<1, 1>>}))
      /\ Code!Compute("OR", IntegerType, value1, value2)
            = Code!Truncate(IntegerType, Code!Bitwise2(Width, value1, value2, {<<0, 1>>, <<1, 0>>, <<1, 1>>}))
  BY <1>4 DEF Code!Compute
<1>6. ASSUME value1 \in {0, 1}, value2 \in {0, 1}
      PROVE  /\ Integer(Code!Compute("AND", IntegerType, value1, value2)) = Boolean(value1 # 0 /\ value2 # 0)
             /\ Integer(Code!Compute("OR", IntegerType, value1, value2)) = Boolean(value1 # 0 \/ value2 # 0)
  BY <1>1, <1>2, <1>3, <1>5, <1>6 DEF Boolean
<1> QED BY <1>1, <1>5, <1>6

-------------------------------------------------------------------------------
(* Sequences of anything.                                                  *)

IsSequence(some, length) == length \in Nat /\ some = [index \in 1 .. length |-> some[index]]

\* The length and the domain of a sequence.
LEMMA Sequences ==
    ASSUME NEW length, NEW some, IsSequence(some, length)
    PROVE  /\ length \in Nat /\ Len(some) = length /\ DOMAIN some = 1 .. length
           /\ length = 0 => some = <<>>
           /\ \E S : some \in Seq(S)
<1> DEFINE S == {some[index] : index \in 1 .. length}
<1>1. length \in Nat /\ some = [index \in 1 .. length |-> some[index]]
  BY DEF IsSequence
<1>2. some \in Seq(S) /\ Len(some) = length
  <2>1. \A index \in 1 .. length : some[index] \in S
    OBVIOUS
  <2> HIDE DEF S
  <2> QED BY <1>1, <2>1
<1> QED BY <1>1, <1>2

\* All sequences are sequences of something.
LEMMA SequenceOf ==
    ASSUME NEW S, NEW some \in Seq(S)
    PROVE  IsSequence(some, Len(some))
BY DEF IsSequence

\* Sequences with the same elements are the same.
LEMMA SameSequences ==
    ASSUME NEW length, NEW some, NEW other, IsSequence(some, length), IsSequence(other, length),
           \A index \in 1 .. length : some[index] = other[index]
    PROVE  some = other
BY DEF IsSequence

\* What is known of sequences that are made of others.
IsAppended(whole, some, length, last) ==
    /\ IsSequence(whole, length + 1)
    /\ \A index \in 1 .. length : whole[index] = some[index]
    /\ whole[length + 1] = last

IsPreceded(whole, some, length, first) ==
    /\ IsSequence(whole, length + 1) /\ whole[1] = first
    /\ \A index \in 1 .. length : whole[index + 1] = some[index]

IsJoined(whole, some, length1, other, length2) ==
    /\ IsSequence(whole, length1 + length2)
    /\ \A index \in 1 .. length1 : whole[index] = some[index]
    /\ \A index \in 1 .. length2 : whole[length1 + index] = other[index]

IsShortened(whole, some, kept) ==
    /\ IsSequence(whole, kept)
    /\ \A index \in 1 .. kept : whole[index] = some[index]

\* A sequence with another element behind it.
LEMMA Appended ==
    ASSUME NEW length \in Nat, NEW some, NEW last, IsSequence(some, length)
    PROVE  IsAppended(Append(some, last), some, length, last)
<1>1. PICK S : some \in Seq(S)
  BY Sequences
<1>2. some \in Seq(S \cup {last}) /\ last \in S \cup {last}
  BY <1>1
<1>3. Len(some) = length /\ length \in Nat
  BY Sequences
<1>4. Append(some, last) \in Seq(S \cup {last}) /\ Len(Append(some, last)) = length + 1
  BY <1>2, <1>3
<1>5. IsSequence(Append(some, last), length + 1)
  BY <1>4, SequenceOf
<1> QED BY <1>2, <1>3, <1>5 DEF IsAppended

\* A sequence with another one behind it.
LEMMA Joined ==
    ASSUME NEW length1 \in Nat, NEW some, IsSequence(some, length1),
           NEW length2 \in Nat, NEW other, IsSequence(other, length2)
    PROVE  IsJoined(some \o other, some, length1, other, length2)
<1>1. PICK S1 : some \in Seq(S1)
  BY Sequences
<1>2. PICK S2 : other \in Seq(S2)
  BY Sequences
<1>3. some \in Seq(S1 \cup S2) /\ other \in Seq(S1 \cup S2)
  BY <1>1, <1>2
<1>4. Len(some) = length1 /\ length1 \in Nat /\ Len(other) = length2 /\ length2 \in Nat
  BY Sequences
<1>5. some \o other \in Seq(S1 \cup S2) /\ Len(some \o other) = length1 + length2
  BY <1>3, <1>4
<1>6. IsSequence(some \o other, length1 + length2)
  BY <1>5, SequenceOf
<1> QED BY <1>3, <1>4, <1>6 DEF IsJoined

\* A sequence with another element before it.
LEMMA Preceded ==
    ASSUME NEW length \in Nat, NEW some, NEW first, IsSequence(some, length)
    PROVE  IsPreceded(<<first>> \o some, some, length, first)
<1>1. IsSequence(<<first>>, 1) /\ <<first>>[1] = first
  BY DEF IsSequence
<1>2. PICK unit \in Nat : unit = 1
  OBVIOUS
<1>3. IsJoined(<<first>> \o some, <<first>>, unit, some, length)
  BY <1>1, <1>2, Joined
<1>4. unit + length = length + 1 /\ 1 \in 1 .. unit /\ \A index \in 1 .. length : unit + index = index + 1
  BY <1>2
<1> DEFINE one == <<first>>
           whole == one \o some
<1>5. IsJoined(whole, one, unit, some, length) /\ one[1] = first
  BY <1>3
<1> HIDE DEF whole, one
<1>6. IsPreceded(whole, some, length, first)
  BY <1>4, <1>5 DEF IsJoined, IsPreceded
<1> QED BY <1>6 DEF whole, one

\* The first elements of a sequence.
LEMMA Shortened ==
    ASSUME NEW length \in Nat, NEW some, IsSequence(some, length), NEW kept \in 0 .. length
    PROVE  IsShortened(SubSeq(some, 1, kept), some, kept)
<1>1. PICK S : some \in Seq(S)
  BY Sequences
<1>2. Len(some) = length /\ length \in Nat /\ kept \in Nat
  BY Sequences
<1>3. SubSeq(some, 1, kept) \in Seq(S) /\ Len(SubSeq(some, 1, kept)) = kept
  BY <1>1, <1>2
<1>4. IsSequence(SubSeq(some, 1, kept), kept)
  BY <1>3, SequenceOf
<1> QED BY <1>1, <1>2, <1>4 DEF IsShortened

\* What was appended last is the last and in front of it is what was before.
LEMMA LastAppended ==
    ASSUME NEW length \in Nat, NEW some, NEW last, IsSequence(some, length)
    PROVE  /\ Len(Append(some, last)) = length + 1
           /\ Append(some, last)[Len(Append(some, last))] = last
           /\ Interpreter!Front(Append(some, last)) = some
<1> DEFINE whole == Append(some, last)
<1>1. IsAppended(whole, some, length, last)
  BY Appended
<1> HIDE DEF whole
<1>2. /\ IsSequence(whole, length + 1)
      /\ \A index \in 1 .. length : whole[index] = some[index]
      /\ whole[length + 1] = last
  BY <1>1 DEF IsAppended
<1>3. Len(whole) = length + 1 /\ Len(whole) - 1 = length /\ length \in 0 .. length + 1
  BY <1>2, Sequences
<1> DEFINE front == SubSeq(whole, 1, length)
<1>4. IsShortened(front, whole, length)
  BY <1>2, <1>3, Shortened
<1> HIDE DEF front
<1>5. front = some
  BY <1>2, <1>4, SameSequences DEF IsShortened
<1>6. Interpreter!Front(whole) = some
  BY <1>3, <1>5 DEF Interpreter!Front, front
<1> QED BY <1>2, <1>3, <1>6 DEF whole

-------------------------------------------------------------------------------
(* The values that are on the stack.                                       *)

\* The values in memory from the top of the stack on.
Up(words, top) == [index \in 1 .. Bottom - top |-> Interpreted(words[Bottom - index])]

StackOf(words, top) == [index \in 1 .. Bottom - top |-> words[top + index - 1]]

ValuesOf(words, top, point, returned) ==
    LET kept == IF point = "prologue" THEN Tail(StackOf(words, top)) ELSE StackOf(words, top)
        counted == IF point \in CallPoints /\ top <= Bottom THEN <<returned>> \o kept ELSE kept
    IN [index \in DOMAIN counted |-> Interpreted(counted[Len(counted) + 1 - index])]

\* The stack and its values, now and after a step.
LEMMA ValuesAre ==
    /\ Stack = StackOf(memory, sp) /\ Stack' = StackOf(memory', sp')
    /\ Values = ValuesOf(memory, sp, pc.point, result)
    /\ Values' = ValuesOf(memory', sp', pc'.point, result')
BY DEF Values, ValuesOf, Stack, StackOf, CallPoints, Bottom

\* The words on the stack.
LEMMA StackFacts ==
    ASSUME NEW words, NEW top \in Int, top <= Bottom
    PROVE  /\ IsSequence(StackOf(words, top), Bottom - top)
           /\ \A index \in 1 .. Bottom - top : StackOf(words, top)[index] = words[top + index - 1]
<1>1. Bottom - top \in Nat
  BY BottomNat
<1> QED BY <1>1 DEF StackOf, IsSequence

\* The values of the words on the stack.
LEMMA UpFacts ==
    ASSUME NEW words, NEW top \in Int, top <= Bottom
    PROVE  /\ IsSequence(Up(words, top), Bottom - top)
           /\ \A index \in 1 .. Bottom - top : Up(words, top)[index] = Interpreted(words[Bottom - index])
<1>1. Bottom - top \in Nat
  BY BottomNat
<1> QED BY <1>1 DEF Up, IsSequence

\* Between calls the stack holds the values.
LEMMA ValuesBetween ==
    ASSUME NEW words, NEW top \in Int, top <= Bottom, NEW point, point \notin CallPoints \cup {"prologue"},
           NEW returned
    PROVE  ValuesOf(words, top, point, returned) = Up(words, top)
<1> DEFINE kept == StackOf(words, top)
           size == Bottom - top
<1>1. Bottom \in Nat /\ size \in Nat
  BY BottomNat
<1>2. ValuesOf(words, top, point, returned) = [index \in DOMAIN kept |-> Interpreted(kept[Len(kept) + 1 - index])]
  BY DEF ValuesOf
<1>3. IsSequence(kept, size) /\ \A index \in 1 .. size : kept[index] = words[top + index - 1]
  BY StackFacts
<1> HIDE DEF kept
<1>4. Len(kept) = size /\ DOMAIN kept = 1 .. size
  BY <1>3, Sequences
<1>5. ASSUME NEW index \in 1 .. size
      PROVE  kept[Len(kept) + 1 - index] = words[Bottom - index]
  <2>1. Len(kept) + 1 - index \in 1 .. size /\ top + (Len(kept) + 1 - index) - 1 = Bottom - index
    BY <1>1, <1>4
  <2> QED BY <1>3, <2>1
<1> QED BY <1>2, <1>4, <1>5 DEF Up

\* When a function begins, the return address is on top of them.
LEMMA ValuesCalled ==
    ASSUME NEW words, NEW top \in Int, top < Bottom, NEW returned
    PROVE  ValuesOf(words, top, "prologue", returned) = Up(words, top + 1)
<1> DEFINE whole == StackOf(words, top)
           kept == Tail(whole)
           size == Bottom - top
<1>1. Bottom \in Nat /\ size \in Nat /\ size > 0 /\ Bottom - (top + 1) = size - 1
  BY BottomNat
<1>2. ValuesOf(words, top, "prologue", returned)
        = [index \in DOMAIN kept |-> Interpreted(kept[Len(kept) + 1 - index])]
  BY DEF ValuesOf, CallPoints
<1>3. IsSequence(whole, size) /\ \A index \in 1 .. size : whole[index] = words[top + index - 1]
  BY <1>1, StackFacts, BottomNat
<1> HIDE DEF whole
<1>4. PICK S : whole \in Seq(S)
  BY <1>3, Sequences
<1>5. Len(whole) = size
  BY <1>3, Sequences
<1>6. Len(kept) = size - 1 /\ DOMAIN kept = 1 .. size - 1
      /\ \A index \in 1 .. size - 1 : kept[index] = whole[index + 1]
  BY <1>1, <1>4, <1>5
<1> HIDE DEF kept
<1>7. ASSUME NEW index \in 1 .. size - 1
      PROVE  kept[Len(kept) + 1 - index] = words[Bottom - index]
  <2>1. /\ Len(kept) + 1 - index \in 1 .. size - 1
        /\ Len(kept) + 1 - index + 1 \in 1 .. size
        /\ top + (Len(kept) + 1 - index + 1) - 1 = Bottom - index
    BY <1>1, <1>6
  <2> QED BY <1>3, <1>6, <2>1
<1> QED BY <1>1, <1>2, <1>6, <1>7 DEF Up

\* When it has returned, its result is, unless there was none.
LEMMA ValuesReturned ==
    ASSUME NEW words, NEW top \in Int, top <= Bottom, NEW point \in CallPoints, NEW returned
    PROVE  ValuesOf(words, top, point, returned) = Append(Up(words, top), Interpreted(returned))
<1> DEFINE kept == StackOf(words, top)
           counted == <<returned>> \o kept
           size == Bottom - top
           up == Up(words, top)
           last == Interpreted(returned)
           appended == Append(up, last)
<1>1. Bottom \in Nat /\ size \in Nat /\ \A index \in Int : top + (size + 1 - index) - 1 = Bottom - index
  BY BottomNat
<1>2. ValuesOf(words, top, point, returned)
        = [index \in DOMAIN counted |-> Interpreted(counted[Len(counted) + 1 - index])]
  BY DEF ValuesOf, CallPoints
<1>3. IsSequence(kept, size) /\ \A index \in 1 .. size : kept[index] = words[top + index - 1]
  BY StackFacts
<1>4. IsSequence(up, size) /\ \A index \in 1 .. size : up[index] = Interpreted(words[Bottom - index])
  BY UpFacts
<1> HIDE DEF kept, up, size, last
<1>5. IsPreceded(counted, kept, size, returned) /\ IsAppended(appended, up, size, last)
  BY <1>1, <1>3, <1>4, Appended, Preceded
<1> HIDE DEF counted, appended
<1>6. /\ IsSequence(counted, size + 1) /\ counted[1] = returned
      /\ \A index \in 1 .. size : counted[index + 1] = kept[index]
  BY <1>5 DEF IsPreceded
<1>7. /\ IsSequence(appended, size + 1) /\ appended[size + 1] = last
      /\ \A index \in 1 .. size : appended[index] = up[index]
  BY <1>5 DEF IsAppended
<1>8. Len(counted) = size + 1 /\ DOMAIN counted = 1 .. size + 1
  BY <1>6, Sequences
<1>9. ASSUME NEW index \in 1 .. size
      PROVE  counted[Len(counted) + 1 - index] = words[Bottom - index]
  <2>1. size + 1 - index \in 1 .. size /\ Len(counted) + 1 - index = (size + 1 - index) + 1
        /\ top + (size + 1 - index) - 1 = Bottom - index
    BY <1>1, <1>8
  <2> QED BY <1>3, <1>6, <2>1
<1>10. counted[Len(counted) + 1 - (size + 1)] = returned
  <2>1. Len(counted) + 1 - (size + 1) = 1
    BY <1>1, <1>8
  <2> QED BY <1>6, <2>1
<1>11. \A index \in 1 .. size + 1 : Interpreted(counted[Len(counted) + 1 - index]) = appended[index]
  <2> SUFFICES ASSUME NEW index \in 1 .. size + 1
               PROVE  Interpreted(counted[Len(counted) + 1 - index]) = appended[index]
    OBVIOUS
  <2>1. index \in 1 .. size \/ index = size + 1
    BY <1>1
  <2> QED BY <1>4, <1>7, <1>9, <1>10, <2>1 DEF last
<1>12. ValuesOf(words, top, point, returned) = [index \in 1 .. size + 1 |-> appended[index]]
  BY <1>1, <1>2, <1>8, <1>11
<1>13. appended = [index \in 1 .. size + 1 |-> appended[index]]
  BY <1>7 DEF IsSequence
<1> QED BY <1>12, <1>13 DEF appended, up, last

\* Unless there was none.
LEMMA ValuesNone ==
    ASSUME NEW words, NEW top \in Int, top > Bottom, NEW point \in CallPoints, NEW returned
    PROVE  ValuesOf(words, top, point, returned) = <<>>
<1>1. 1 .. Bottom - top = {}
  BY BottomNat
<1>2. StackOf(words, top) = <<>>
  BY <1>1 DEF StackOf
<1>3. ~(top <= Bottom) /\ point # "prologue"
  BY BottomNat DEF CallPoints
<1>4. ValuesOf(words, top, point, returned) = [index \in {} |-> Interpreted(<<>>[Len(<<>>) + 1 - index])]
  BY <1>2, <1>3 DEF ValuesOf
<1> QED BY <1>4

\* How the values change with the words on the stack.
LEMMA UpKept ==
    ASSUME NEW words, NEW changed, NEW top \in Int, top <= Bottom,
           \A address \in top .. Bottom - 1 : changed[address] = words[address]
    PROVE  Up(changed, top) = Up(words, top)
<1>1. \A index \in 1 .. Bottom - top : Bottom - index \in top .. Bottom - 1
  BY BottomNat
<1> QED BY <1>1 DEF Up

\* A word that is pushed is the last value.
LEMMA UpMore ==
    ASSUME NEW words, NEW top \in Int, top < Bottom
    PROVE  Up(words, top) = Append(Up(words, top + 1), Interpreted(words[top]))
<1> DEFINE up == Up(words, top)
           less == Up(words, top + 1)
           last == Interpreted(words[top])
           appended == Append(less, last)
<1>1. PICK size \in Nat : Bottom - top = size + 1 /\ Bottom - (top + 1) = size /\ Bottom - (size + 1) = top
  BY BottomNat
<1>2. IsSequence(up, size + 1) /\ \A index \in 1 .. size + 1 : up[index] = Interpreted(words[Bottom - index])
  BY <1>1, UpFacts, BottomNat
<1>3. IsSequence(less, size) /\ \A index \in 1 .. size : less[index] = Interpreted(words[Bottom - index])
  BY <1>1, UpFacts, BottomNat
<1> HIDE DEF up, less, last
<1>4. IsAppended(appended, less, size, last)
  BY <1>3, Appended
<1> HIDE DEF appended
<1>5. \A index \in 1 .. size + 1 : up[index] = appended[index]
  <2> SUFFICES ASSUME NEW index \in 1 .. size + 1 PROVE up[index] = appended[index]
    OBVIOUS
  <2>1. index \in 1 .. size \/ index = size + 1
    OBVIOUS
  <2> QED BY <1>1, <1>2, <1>3, <1>4, <2>1 DEF IsAppended, last
<1>6. up = appended
  BY <1>2, <1>4, <1>5, SameSequences DEF IsAppended
<1> QED BY <1>6 DEF up, appended, less, last

\* The top of the stack is its last value.
LEMMA UpTop ==
    ASSUME NEW words, NEW top \in Int, top <= Bottom, NEW index \in 1 .. Bottom - top
    PROVE  Up(words, top)[Len(Up(words, top)) + 1 - index] = Interpreted(words[top + index - 1])
<1> DEFINE up == Up(words, top)
           size == Bottom - top
<1>1. size \in Nat /\ size + 1 - index \in 1 .. size /\ Bottom - (size + 1 - index) = top + index - 1
  BY BottomNat
<1>2. IsSequence(up, size) /\ \A other \in 1 .. size : up[other] = Interpreted(words[Bottom - other])
  BY UpFacts
<1> HIDE DEF up
<1>3. Len(up) = size
  BY <1>2, Sequences
<1> QED BY <1>1, <1>2, <1>3 DEF up

\* What the interpreter does to its stack.
IsReplaced(changed, values, count, pushed) == changed = SubSeq(values, 1, Len(values) - count) \o pushed

\* Words that are popped and others that are pushed.
LEMMA UpReplaced ==
    ASSUME NEW words, NEW changed, NEW top \in Int, NEW count \in Nat, top + count <= Bottom,
           NEW length \in Nat, NEW pushed, NEW values, IsSequence(values, length),
           \A index \in 1 .. length : values[index] = Interpreted(pushed[index]),
           \A address \in top + count - length .. Bottom - 1 :
                changed[address] = IF address \in top + count - length .. top + count - 1
                                   THEN pushed[top + count - address] ELSE words[address]
    PROVE  IsReplaced(Up(changed, top + count - length), Up(words, top), count, values)
<1> DEFINE up == Up(words, top)
           upper == Up(changed, top + count - length)
           size == Bottom - top
           kept == size - count
           sub == SubSeq(up, 1, kept)
           whole == sub \o values
<1>1. /\ size \in Nat /\ kept \in 0 .. size /\ Bottom - (top + count - length) = kept + length
      /\ top + count - length <= Bottom /\ top + count - length \in Int /\ top <= Bottom
      /\ \A index \in 1 .. kept :
            /\ Bottom - index \in top + count - length .. Bottom - 1
            /\ Bottom - index \notin top + count - length .. top + count - 1
      /\ \A index \in 1 .. length :
            /\ Bottom - (kept + index) \in top + count - length .. Bottom - 1
            /\ Bottom - (kept + index) \in top + count - length .. top + count - 1
            /\ top + count - (Bottom - (kept + index)) = index
  BY BottomNat
<1>2. IsSequence(up, size) /\ \A index \in 1 .. size : up[index] = Interpreted(words[Bottom - index])
  BY <1>1, UpFacts
<1>3. /\ IsSequence(upper, kept + length)
      /\ \A index \in 1 .. kept + length : upper[index] = Interpreted(changed[Bottom - index])
  BY <1>1, UpFacts
<1> HIDE DEF up, upper
<1>4. Len(up) - count = kept
  BY <1>1, <1>2, Sequences
<1> HIDE DEF kept, size
<1>5. IsShortened(sub, up, kept)
  BY <1>1, <1>2, Shortened
<1> HIDE DEF sub
<1>6. IsJoined(whole, sub, kept, values, length)
  BY <1>1, <1>5, Joined DEF IsShortened
<1> HIDE DEF whole
<1>7. \A index \in 1 .. kept + length : upper[index] = whole[index]
  <2> SUFFICES ASSUME NEW index \in 1 .. kept + length PROVE upper[index] = whole[index]
    OBVIOUS
  <2>1. CASE index \in 1 .. kept
    <3>1. whole[index] = Interpreted(words[Bottom - index])
      <4>1. whole[index] = sub[index] /\ sub[index] = up[index]
        BY <1>5, <1>6, <2>1 DEF IsShortened, IsJoined
      <4>2. index \in 1 .. size
        BY <1>1, <2>1
      <4> QED BY <1>2, <4>1, <4>2
    <3>2. changed[Bottom - index] = words[Bottom - index]
      BY <1>1, <2>1
    <3> QED BY <1>3, <3>1, <3>2
  <2>2. CASE index \notin 1 .. kept
    <3>1. PICK other \in 1 .. length : index = kept + other
      <4>1. index - kept \in 1 .. length /\ index = kept + (index - kept)
        BY <1>1, <2>2
      <4> QED BY <4>1
    <3>2. whole[index] = values[other]
      BY <1>6, <3>1 DEF IsJoined
    <3>3. changed[Bottom - index] = pushed[other]
      BY <1>1, <3>1
    <3> QED BY <1>3, <3>1, <3>2, <3>3
  <2> QED BY <2>1, <2>2
<1>8. upper = whole
  BY <1>3, <1>6, <1>7, SameSequences DEF IsJoined
<1> QED BY <1>4, <1>8 DEF up, upper, whole, sub, IsReplaced

-------------------------------------------------------------------------------
(* The functions that are active, by what is saved.                        *)

\* Of the words that were saved up to some number of them, the return addresses,
\* and the one that is at some level.
Ret(words, number) == {index \in 1 .. number : words[Words + 1 - index].type = "Return"}
Count(words, number) == Cardinality(Ret(words, number))
IndexAt(words, number, level) == CHOOSE index \in Ret(words, number) : Count(words, index) = level

\* What the interpreter would keep of a point in a function, after this many
\* words had been saved.
FrameIn(words, point, number) ==
    [function |-> point.function,
     at |-> IF point.point = "element" THEN point.at ELSE point.at + 1,
     loop |-> IF point.point \in LoopPoints
              THEN [condition |-> words[Words + 1 - number].value, body |-> words[Words + 1 - (number - 1)].value,
                    testing |-> point.point = "test"]
              ELSE NoLoop]

SavedFrame(words, index) == FrameIn(words, words[Words + 1 - index].point, index - 1)

\* The functions that are calling.
Outer(words, number) ==
    [level \in 1 .. Count(words, number) |-> SavedFrame(words, IndexAt(words, number, level))]

\* Another word counts if it is a return address.
LEMMA Counted ==
    ASSUME NEW words, NEW number \in Nat
    PROVE  /\ IsFiniteSet(Ret(words, number)) /\ Count(words, number) \in Nat
           /\ Count(words, 0) = 0
           /\ words[Words + 1 - (number + 1)].type = "Return" =>
                /\ Ret(words, number + 1) = Ret(words, number) \cup {number + 1}
                /\ Count(words, number + 1) = Count(words, number) + 1
           /\ words[Words + 1 - (number + 1)].type # "Return" =>
                /\ Ret(words, number + 1) = Ret(words, number)
                /\ Count(words, number + 1) = Count(words, number)
<1>1. IsFiniteSet(Ret(words, number))
  <2>1. IsFiniteSet(1 .. number) /\ Ret(words, number) \subseteq 1 .. number
    BY FS_Interval DEF Ret
  <2> QED BY <2>1, FS_Subset
<1>2. Count(words, number) \in Nat
  BY <1>1, FS_CardinalityType DEF Count
<1>3. Count(words, 0) = 0
  <2>1. Ret(words, 0) = {}
    BY DEF Ret
  <2> QED BY <2>1, FS_EmptySet DEF Count
<1>4. number + 1 \notin Ret(words, number) /\ 1 .. number + 1 = 1 .. number \cup {number + 1}
  BY DEF Ret
<1>5. words[Words + 1 - (number + 1)].type = "Return" => Ret(words, number + 1) = Ret(words, number) \cup {number + 1}
  BY <1>4 DEF Ret
<1>6. words[Words + 1 - (number + 1)].type # "Return" => Ret(words, number + 1) = Ret(words, number)
  BY <1>4 DEF Ret
<1>7. Cardinality(Ret(words, number) \cup {number + 1}) = Count(words, number) + 1
  BY <1>1, <1>4, FS_AddElement DEF Count
<1> QED BY <1>1, <1>2, <1>3, <1>5, <1>6, <1>7 DEF Count

\* Return addresses become more with the words that are saved.
LEMMA CountsGrow ==
    ASSUME NEW words, NEW number \in Nat, NEW lower \in 0 .. number
    PROVE  Count(words, lower) <= Count(words, number)
<1>1. IsFiniteSet(Ret(words, number))
  BY Counted
<1>2. Ret(words, lower) \subseteq Ret(words, number)
  BY DEF Ret
<1> QED BY <1>1, <1>2, FS_Subset DEF Count

\* There is exactly one return address at each level.
LEMMA Levels ==
    ASSUME NEW words, NEW number \in Nat, NEW level \in 1 .. Count(words, number)
    PROVE  /\ IndexAt(words, number, level) \in Ret(words, number)
           /\ Count(words, IndexAt(words, number, level)) = level
           /\ \A index \in Ret(words, number) : Count(words, index) = level => index = IndexAt(words, number, level)
<1>1. \A lower \in 0 .. number : Count(words, lower) \in Nat
  BY Counted
<1>2. \E index \in Ret(words, number) : Count(words, index) = level
  <2> DEFINE Reached == {lower \in 0 .. number : Count(words, lower) >= level}
  <2>1. Reached \in SUBSET Nat /\ Reached # {}
    BY <1>1
  <2>2. PICK first \in Reached : \A other \in Reached : first <= other
    BY <2>1, Least
  <2>3. first # 0
    BY <2>2, Counted
  <2>4. first - 1 \in 0 .. number /\ first - 1 \notin Reached /\ first - 1 + 1 = first
    BY <2>2, <2>3
  <2>5. Count(words, first - 1) < level /\ Count(words, first) >= level
    BY <1>1, <2>2, <2>4
  <2>6. PICK lower \in Nat : lower = first - 1 /\ lower + 1 = first
    BY <2>4
  <2>7. words[Words + 1 - (lower + 1)].type = "Return" /\ Count(words, first) = Count(words, lower) + 1
    BY <1>1, <2>4, <2>5, <2>6, Counted
  <2>8. first \in Ret(words, number)
    BY <2>2, <2>3, <2>6, <2>7 DEF Ret
  <2>9. Count(words, first) = level
    BY <1>1, <2>4, <2>5, <2>6, <2>7
  <2> QED BY <2>8, <2>9
<1>3. ASSUME NEW index \in Ret(words, number), NEW other \in Ret(words, number), index < other
      PROVE  Count(words, index) < Count(words, other)
  <2>1. PICK lower \in Nat : lower + 1 = other /\ index \in 0 .. lower /\ lower \in 0 .. number /\ other \in Nat
    <3>1. other \in 1 .. number /\ index \in 1 .. number
      BY DEF Ret
    <3>2. other - 1 \in Nat /\ other - 1 + 1 = other
      BY <3>1
    <3> QED BY <1>3, <3>1, <3>2
  <2>2. words[Words + 1 - (lower + 1)].type = "Return"
    BY <2>1 DEF Ret
  <2>3. Count(words, other) = Count(words, lower) + 1
    BY <2>1, <2>2, Counted
  <2>4. Count(words, index) <= Count(words, lower)
    BY <2>1, CountsGrow
  <2> QED BY <1>1, <2>1, <2>3, <2>4
<1>4. ASSUME NEW index \in Ret(words, number), NEW other \in Ret(words, number),
             Count(words, index) = level, Count(words, other) = level
      PROVE  index = other
  <2>1. index \in Int /\ other \in Int /\ level \in Int
    BY <1>1 DEF Ret
  <2> QED BY <1>3, <1>4, <2>1
<1>5. IndexAt(words, number, level) \in Ret(words, number) /\ Count(words, IndexAt(words, number, level)) = level
  BY <1>2 DEF IndexAt
<1> QED BY <1>4, <1>5

\* There are as many functions calling as there are return addresses.
LEMMA OuterSequence ==
    ASSUME NEW words, NEW number \in Nat
    PROVE  IsSequence(Outer(words, number), Count(words, number))
BY Counted DEF Outer, IsSequence

\* A word that is no return address changes nothing.
LEMMA OuterSame ==
    ASSUME NEW words, NEW number \in Nat, words[Words + 1 - (number + 1)].type # "Return"
    PROVE  Outer(words, number + 1) = Outer(words, number)
<1>1. Ret(words, number + 1) = Ret(words, number) /\ Count(words, number + 1) = Count(words, number)
  BY Counted
<1>2. \A level : IndexAt(words, number + 1, level) = IndexAt(words, number, level)
  BY <1>1 DEF IndexAt
<1> QED BY <1>1, <1>2 DEF Outer

\* Another return address is the innermost.
LEMMA OuterMore ==
    ASSUME NEW words, NEW number \in Nat, words[Words + 1 - (number + 1)].type = "Return"
    PROVE  Outer(words, number + 1) = Append(Outer(words, number), SavedFrame(words, number + 1))
<1> DEFINE before == Outer(words, number)
           after == Outer(words, number + 1)
           frame == SavedFrame(words, number + 1)
           appended == Append(before, frame)
<1>1. PICK size \in Nat : size = Count(words, number)
  BY Counted
<1>2. /\ Count(words, number + 1) = size + 1
      /\ Ret(words, number + 1) = Ret(words, number) \cup {number + 1}
  BY <1>1, Counted
<1>3. IsSequence(before, size) /\ IsSequence(after, size + 1)
  BY <1>1, <1>2, OuterSequence
<1>4. \A level \in 1 .. size : IndexAt(words, number + 1, level) = IndexAt(words, number, level)
  <2> SUFFICES ASSUME NEW level \in 1 .. size
               PROVE  IndexAt(words, number + 1, level) = IndexAt(words, number, level)
    OBVIOUS
  <2>1. level \in 1 .. Count(words, number) /\ level \in 1 .. Count(words, number + 1)
    BY <1>1, <1>2
  <2>2. IndexAt(words, number, level) \in Ret(words, number) /\ Count(words, IndexAt(words, number, level)) = level
    BY <2>1, Levels
  <2>3. \A index \in Ret(words, number + 1) : Count(words, index) = level => index = IndexAt(words, number + 1, level)
    BY <2>1, Levels
  <2> QED BY <1>2, <2>2, <2>3
<1>5. IndexAt(words, number + 1, size + 1) = number + 1
  <2>1. size + 1 \in 1 .. Count(words, number + 1)
    BY <1>2
  <2>2. \A index \in Ret(words, number + 1) :
            Count(words, index) = size + 1 => index = IndexAt(words, number + 1, size + 1)
    BY <2>1, Levels
  <2> QED BY <1>2, <2>2
<1>6. \A level \in 1 .. size : before[level] = SavedFrame(words, IndexAt(words, number, level))
  BY <1>1 DEF Outer
<1>7. \A level \in 1 .. size + 1 : after[level] = SavedFrame(words, IndexAt(words, number + 1, level))
  BY <1>2 DEF Outer
<1> HIDE DEF before, after, frame
<1>8. IsAppended(appended, before, size, frame)
  BY <1>3, Appended
<1> HIDE DEF appended
<1>9. \A level \in 1 .. size + 1 : after[level] = appended[level]
  <2> SUFFICES ASSUME NEW level \in 1 .. size + 1 PROVE after[level] = appended[level]
    OBVIOUS
  <2>1. CASE level \in 1 .. size
    BY <1>4, <1>6, <1>7, <1>8, <2>1 DEF IsAppended
  <2>2. CASE level = size + 1
    BY <1>5, <1>7, <1>8, <2>2 DEF IsAppended, frame
  <2> QED BY <2>1, <2>2
<1>10. after = appended
  BY <1>3, <1>8, <1>9, SameSequences DEF IsAppended
<1> QED BY <1>10 DEF after, before, appended, frame

\* They depend on what is saved only.
LEMMA OuterKept ==
    ASSUME NEW words, NEW changed, NEW number \in Nat,
           \A index \in 1 .. number : changed[Words + 1 - index] = words[Words + 1 - index],
           \A index \in Ret(words, number) : words[Words + 1 - index].point.point \in LoopPoints => index >= 3
    PROVE  Outer(changed, number) = Outer(words, number)
<1>1. \A lower \in 0 .. number : Ret(changed, lower) = Ret(words, lower)
  <2> SUFFICES ASSUME NEW lower \in 0 .. number PROVE Ret(changed, lower) = Ret(words, lower)
    OBVIOUS
  <2>1. \A index \in 1 .. lower : index \in 1 .. number
    OBVIOUS
  <2> QED BY <2>1 DEF Ret
<1>2. \A lower \in 0 .. number : Count(changed, lower) = Count(words, lower)
  BY <1>1 DEF Count
<1>3. number \in 0 .. number
  OBVIOUS
<1>4. \A level : IndexAt(changed, number, level) = IndexAt(words, number, level)
  <2> TAKE level
  <2>1. \A index \in Ret(words, number) : Count(changed, index) = Count(words, index)
    BY <1>2 DEF Ret
  <2>2. Ret(changed, number) = Ret(words, number)
    BY <1>1, <1>3
  <2> DEFINE R == Ret(words, number)
  <2>3. IndexAt(changed, number, level) = CHOOSE index \in R : Count(changed, index) = level
    BY <2>2, Zenon DEF IndexAt
  <2>4. IndexAt(words, number, level) = CHOOSE index \in R : Count(words, index) = level
    BY DEF IndexAt
  <2> HIDE DEF R
  <2>5. \A index : index \in R /\ Count(changed, index) = level <=> index \in R /\ Count(words, index) = level
    BY <2>1 DEF R
  <2> QED BY <2>3, <2>4, <2>5
<1>5. \A index \in Ret(words, number) : SavedFrame(changed, index) = SavedFrame(words, index)
  <2> SUFFICES ASSUME NEW index \in Ret(words, number) PROVE SavedFrame(changed, index) = SavedFrame(words, index)
    OBVIOUS
  <2>1. index \in 1 .. number /\ changed[Words + 1 - index] = words[Words + 1 - index]
    BY DEF Ret
  <2>2. words[Words + 1 - index].point.point \in LoopPoints =>
            index - 1 \in 1 .. number /\ index - 1 - 1 \in 1 .. number
    BY <2>1
  <2>3. words[Words + 1 - index].point.point \in LoopPoints =>
            /\ changed[Words + 1 - (index - 1)] = words[Words + 1 - (index - 1)]
            /\ changed[Words + 1 - (index - 1 - 1)] = words[Words + 1 - (index - 1 - 1)]
    BY <2>2
  <2> QED BY <2>1, <2>3 DEF SavedFrame, FrameIn
<1>6. Count(changed, number) = Count(words, number)
  BY <1>2, <1>3
<1>7. \A level \in 1 .. Count(words, number) : IndexAt(words, number, level) \in Ret(words, number)
  BY Levels
<1>8. \A level \in 1 .. Count(words, number) :
        SavedFrame(changed, IndexAt(changed, number, level)) = SavedFrame(words, IndexAt(words, number, level))
  BY <1>4, <1>5, <1>7
<1> QED BY <1>6, <1>8 DEF Outer

\* The functions that are active depend on what is saved, and on the point that
\* is executed, by these definitions.
SavedOf(words, frame) == [index \in 1 .. Words + 1 - frame |-> words[Words + 1 - index]]

ReturnsOf(saved, index) == {other \in 1 .. index : saved[other].type = "Return"}

ReturningOf(saved) ==
    [level \in 1 .. Cardinality(ReturnsOf(saved, Len(saved))) |->
        LET index == CHOOSE index \in ReturnsOf(saved, Len(saved)) : Cardinality(ReturnsOf(saved, index)) = level
        IN [point |-> saved[index].point, saved |-> index - 1]]

PointsOf(saved, point, top) ==
    ReturningOf(saved)
        \o (IF point.point = "prologue" THEN <<[point |-> top.point, saved |-> Len(saved)]>> ELSE <<>>)
        \o <<[point |-> point, saved |-> Len(saved)]>>

FrameOf(saved, current, number) ==
    LET at == IF current.point = "element" THEN current.at ELSE current.at + 1
    IN [function |-> current.function,
        at |-> at,
        loop |-> IF current.point \in LoopPoints
                 THEN [condition |-> saved[number].value, body |-> saved[number - 1].value,
                       testing |-> current.point = "test"]
                 ELSE NoLoop]

ActiveOf(saved, point, top) ==
    [level \in DOMAIN PointsOf(saved, point, top) |->
        FrameOf(saved, PointsOf(saved, point, top)[level].point, PointsOf(saved, point, top)[level].saved)]

\* The definitions are those of the program.
LEMMA ActiveAre ==
    /\ Active = ActiveOf(SavedOf(memory, fp), pc, Peek(1))
    /\ Active' = ActiveOf(SavedOf(memory', fp'), pc', Peek(1)')
<1>1. Saved = SavedOf(memory, fp) /\ Saved' = SavedOf(memory', fp')
  BY DEF Saved, SavedOf
<1>2. Returning = ReturningOf(Saved) /\ Returning' = ReturningOf(Saved')
  BY DEF Returning, ReturningOf, Returns, ReturnsOf
<1>3. Points = PointsOf(Saved, pc, Peek(1)) /\ Points' = PointsOf(Saved', pc', Peek(1)')
  BY <1>2, Zenon DEF Points, PointsOf
<1>4. Active = ActiveOf(Saved, pc, Peek(1))
  BY <1>3, Zenon DEF Active, ActiveOf, FrameAt, FrameOf
<1>5. Active' = ActiveOf(Saved', pc', Peek(1)')
  BY <1>3, Zenon DEF Active, ActiveOf, FrameAt, FrameOf
<1> QED BY <1>1, <1>4, <1>5

\* Where the functions of loops are saved, there are two of them.
PlaceRight(point, number) == point.point \in LoopPoints => number >= 2

SavedRight(words, number) == \A index \in Ret(words, number) : PlaceRight(words[Words + 1 - index].point, index - 1)

\* What is saved at some point, as a sequence.
LEMMA SavedIs ==
    ASSUME NEW words, NEW frame \in Int, NEW number \in Nat, number = Words + 1 - frame
    PROVE  /\ IsSequence(SavedOf(words, frame), number)
           /\ \A index \in 1 .. number : SavedOf(words, frame)[index] = words[Words + 1 - index]
           /\ \A index \in 0 .. number : ReturnsOf(SavedOf(words, frame), index) = Ret(words, index)
<1> DEFINE saved == SavedOf(words, frame)
<1>1. IsSequence(saved, number) /\ \A index \in 1 .. number : saved[index] = words[Words + 1 - index]
  BY DEF IsSequence, SavedOf
<1> HIDE DEF saved
<1>2. ASSUME NEW index \in 0 .. number
      PROVE  ReturnsOf(saved, index) = Ret(words, index)
  <2>1. \A other \in 1 .. index : saved[other] = words[Words + 1 - other]
    BY <1>1
  <2> QED BY <2>1 DEF ReturnsOf, Ret
<1> QED BY <1>1, <1>2 DEF saved

\* The frame of a point in a function, by the words that are saved.
LEMMA FrameIs ==
    ASSUME NEW words, NEW frame \in Int, NEW number \in Nat, number = Words + 1 - frame,
           NEW point, NEW lower \in 0 .. number, PlaceRight(point, lower)
    PROVE  FrameOf(SavedOf(words, frame), point, lower) = FrameIn(words, point, lower)
<1> DEFINE saved == SavedOf(words, frame)
<1>1. \A index \in 1 .. number : saved[index] = words[Words + 1 - index]
  BY SavedIs
<1> HIDE DEF saved
<1>2. point.point \in LoopPoints =>
        saved[lower] = words[Words + 1 - lower] /\ saved[lower - 1] = words[Words + 1 - (lower - 1)]
  <2>1. point.point \in LoopPoints => lower \in 1 .. number /\ lower - 1 \in 1 .. number
    BY DEF PlaceRight
  <2> QED BY <1>1, <2>1
<1>3. FrameOf(saved, point, lower) = FrameIn(words, point, lower)
  BY <1>2 DEF FrameOf, FrameIn
<1> QED BY <1>3 DEF saved

\* The points that functions return to, the outermost of which is first.
LEMMA ReturningIs ==
    ASSUME NEW words, NEW frame \in Int, NEW number \in Nat, number = Words + 1 - frame
    PROVE  LET returning == ReturningOf(SavedOf(words, frame))
           IN  /\ IsSequence(returning, Count(words, number))
               /\ \A level \in 1 .. Count(words, number) :
                    /\ returning[level].point = words[Words + 1 - IndexAt(words, number, level)].point
                    /\ returning[level].saved = IndexAt(words, number, level) - 1
<1> DEFINE saved == SavedOf(words, frame)
           size == Count(words, number)
           Of(level) == CHOOSE index \in ReturnsOf(saved, Len(saved)) : Cardinality(ReturnsOf(saved, index)) = level
<1>1. /\ IsSequence(saved, number)
      /\ \A index \in 1 .. number : saved[index] = words[Words + 1 - index]
      /\ \A index \in 0 .. number : ReturnsOf(saved, index) = Ret(words, index)
  BY SavedIs
<1>2. size \in Nat
  BY Counted
<1> HIDE DEF saved, size
<1>3. Len(saved) = number
  BY <1>1, Sequences
<1>4. ReturnsOf(saved, Len(saved)) = Ret(words, number) /\ Cardinality(ReturnsOf(saved, Len(saved))) = size
  BY <1>1, <1>3 DEF Count, size
<1>5. \A level : Of(level) = IndexAt(words, number, level)
  <2> TAKE level
  <2>1. \A index \in Ret(words, number) : Cardinality(ReturnsOf(saved, index)) = Count(words, index)
    <3>1. \A index \in Ret(words, number) : index \in 0 .. number
      BY DEF Ret
    <3> QED BY <1>1, <3>1 DEF Count
  <2>2. \A index : index \in ReturnsOf(saved, Len(saved)) /\ Cardinality(ReturnsOf(saved, index)) = level
                    <=> index \in Ret(words, number) /\ Count(words, index) = level
    BY <1>4, <2>1
  <2> QED BY <2>2 DEF IndexAt
<1>6. ReturningOf(saved) = [level \in 1 .. size |-> [point |-> saved[Of(level)].point, saved |-> Of(level) - 1]]
  BY <1>4 DEF ReturningOf
<1> HIDE DEF Of
<1>7. ReturningOf(saved) = [level \in 1 .. size |-> [point |-> saved[IndexAt(words, number, level)].point,
                                                      saved |-> IndexAt(words, number, level) - 1]]
  BY <1>5, <1>6
<1>8. \A level \in 1 .. size : IndexAt(words, number, level) \in 1 .. number
  BY Levels DEF size, Ret
<1>9. \A level \in 1 .. size : saved[IndexAt(words, number, level)] = words[Words + 1 - IndexAt(words, number, level)]
  BY <1>1, <1>8
<1>10. IsSequence(ReturningOf(saved), size)
  BY <1>2, <1>7 DEF IsSequence
<1>11. \A level \in 1 .. size :
        /\ ReturningOf(saved)[level].point = words[Words + 1 - IndexAt(words, number, level)].point
        /\ ReturningOf(saved)[level].saved = IndexAt(words, number, level) - 1
  BY <1>7, <1>9
<1> QED BY <1>10, <1>11 DEF saved, size

\* The frames at some points.
FramesOf(saved, points) == [level \in DOMAIN points |-> FrameOf(saved, points[level].point, points[level].saved)]

IsFramed(saved, length, points, point) ==
    /\ IsSequence(points \o <<point>>, length + 1)
    /\ FramesOf(saved, points \o <<point>>)
        = Append(FramesOf(saved, points), FrameOf(saved, point.point, point.saved))

\* Another point is another frame.
LEMMA FramesMore ==
    ASSUME NEW saved, NEW length \in Nat, NEW points, IsSequence(points, length), NEW point
    PROVE  IsFramed(saved, length, points, point)
<1> DEFINE one == <<point>>
           whole == points \o one
           before == FramesOf(saved, points)
           frame == FrameOf(saved, point.point, point.saved)
           after == FramesOf(saved, whole)
           appended == Append(before, frame)
<1>1. IsSequence(one, 1) /\ one[1] = point
  BY DEF IsSequence
<1>2. PICK unit \in Nat : unit = 1
  OBVIOUS
<1> HIDE DEF one
<1>3. IsJoined(whole, points, length, one, unit)
  BY <1>1, <1>2, Joined
<1> HIDE DEF whole
<1>4. IsSequence(whole, length + 1) /\ whole[length + 1] = point /\ \A level \in 1 .. length : whole[level] = points[level]
  BY <1>1, <1>2, <1>3 DEF IsJoined
<1>5. DOMAIN points = 1 .. length /\ DOMAIN whole = 1 .. length + 1
  BY <1>4, Sequences
<1>6. IsSequence(before, length) /\ IsSequence(after, length + 1)
  BY <1>5 DEF IsSequence, FramesOf
<1>7. \A level \in 1 .. length + 1 : after[level] = FrameOf(saved, whole[level].point, whole[level].saved)
  BY <1>5 DEF FramesOf
<1>8. \A level \in 1 .. length : before[level] = FrameOf(saved, points[level].point, points[level].saved)
  BY <1>5 DEF FramesOf
<1> HIDE DEF before, after, frame
<1>9. IsAppended(appended, before, length, frame)
  BY <1>6, Appended
<1> HIDE DEF appended
<1>10. \A level \in 1 .. length + 1 : after[level] = appended[level]
  <2> SUFFICES ASSUME NEW level \in 1 .. length + 1 PROVE after[level] = appended[level]
    OBVIOUS
  <2>1. CASE level \in 1 .. length
    BY <1>4, <1>7, <1>8, <1>9, <2>1 DEF IsAppended
  <2>2. CASE level = length + 1
    BY <1>4, <1>7, <1>9, <2>2 DEF IsAppended, frame
  <2> QED BY <2>1, <2>2
<1>11. after = appended
  BY <1>6, <1>9, <1>10, SameSequences DEF IsAppended
<1> QED BY <1>4, <1>11 DEF IsFramed, after, whole, one, appended, before, frame

\* Those of the functions that are calling.
LEMMA FramesReturning ==
    ASSUME NEW words, NEW frame \in Int, NEW number \in Nat, number = Words + 1 - frame, SavedRight(words, number)
    PROVE  LET saved == SavedOf(words, frame)
           IN  /\ IsSequence(ReturningOf(saved), Count(words, number))
               /\ FramesOf(saved, ReturningOf(saved)) = Outer(words, number)
<1> DEFINE saved == SavedOf(words, frame)
           returning == ReturningOf(saved)
           size == Count(words, number)
           frames == FramesOf(saved, returning)
           outer == Outer(words, number)
<1>1. /\ IsSequence(returning, size)
      /\ \A level \in 1 .. size :
            /\ returning[level].point = words[Words + 1 - IndexAt(words, number, level)].point
            /\ returning[level].saved = IndexAt(words, number, level) - 1
  BY ReturningIs
<1>2. size \in Nat
  BY Counted
<1>3. \A lower \in 0 .. number : \A other : PlaceRight(other, lower) => FrameOf(saved, other, lower) = FrameIn(words, other, lower)
  BY FrameIs
<1>4. IsSequence(outer, size) /\ \A level \in 1 .. size : outer[level] = SavedFrame(words, IndexAt(words, number, level))
  BY <1>2, OuterSequence DEF Outer
<1>5. \A level \in 1 .. size : IndexAt(words, number, level) \in Ret(words, number)
  BY Levels
<1> HIDE DEF saved, returning, size, outer
<1>6. DOMAIN returning = 1 .. size
  BY <1>1, Sequences
<1>7. /\ IsSequence(frames, size)
      /\ \A level \in 1 .. size : frames[level] = FrameOf(saved, returning[level].point, returning[level].saved)
  BY <1>2, <1>6 DEF FramesOf, IsSequence
<1> HIDE DEF frames
<1>8. ASSUME NEW level \in 1 .. size
      PROVE  frames[level] = outer[level]
  <2> DEFINE index == IndexAt(words, number, level)
  <2>1. index \in Ret(words, number) /\ index - 1 \in 0 .. number
    BY <1>5 DEF Ret
  <2>2. PlaceRight(words[Words + 1 - index].point, index - 1)
    BY <2>1 DEF SavedRight
  <2>3. frames[level] = FrameOf(saved, words[Words + 1 - index].point, index - 1)
    BY <1>1, <1>7
  <2>4. outer[level] = FrameIn(words, words[Words + 1 - index].point, index - 1)
    BY <1>4 DEF SavedFrame
  <2> HIDE DEF index
  <2> QED BY <1>3, <2>1, <2>2, <2>3, <2>4
<1>9. frames = outer
  BY <1>4, <1>7, <1>8, SameSequences
<1> QED BY <1>1, <1>9 DEF frames, outer, saved, returning, size

\* Those that are calling, and the one that is active.
LEMMA ActiveIs ==
    ASSUME NEW words, NEW frame \in Int, NEW number \in Nat, number = Words + 1 - frame,
           SavedRight(words, number), NEW point, NEW top, PlaceRight(point, number)
    PROVE  /\ point.point # "prologue" =>
                ActiveOf(SavedOf(words, frame), point, top) = Append(Outer(words, number), FrameIn(words, point, number))
           /\ point.point = "prologue" /\ PlaceRight(top.point, number) =>
                ActiveOf(SavedOf(words, frame), point, top)
                    = Append(Append(Outer(words, number), FrameIn(words, top.point, number)),
                             FrameIn(words, point, number))
<1> DEFINE saved == SavedOf(words, frame)
           returning == ReturningOf(saved)
           size == Count(words, number)
           points == PointsOf(saved, point, top)
           last == [point |-> point, saved |-> Len(saved)]
           caller == [point |-> top.point, saved |-> Len(saved)]
<1>1. IsSequence(returning, size) /\ FramesOf(saved, returning) = Outer(words, number)
  BY FramesReturning
<1>2. size \in Nat /\ Len(saved) = number
  <2>1. IsSequence(saved, number)
    BY SavedIs
  <2> QED BY <2>1, Counted, Sequences
<1>3. ActiveOf(saved, point, top) = FramesOf(saved, points)
  BY DEF ActiveOf, FramesOf
<1>4. last.point = point /\ last.saved = number /\ caller.point = top.point /\ caller.saved = number
  BY <1>2
<1>5. \A other : PlaceRight(other, number) => FrameOf(saved, other, number) = FrameIn(words, other, number)
  BY FrameIs
<1>6. point.point # "prologue" => points = returning \o <<last>>
  <2>1. point.point # "prologue" => points = (returning \o <<>>) \o <<last>>
    BY DEF PointsOf
  <2>2. returning \o <<>> = returning
    <3> HIDE DEF returning
    <3>1. PICK S : returning \in Seq(S)
      BY <1>1, Sequences
    <3> QED BY <3>1
  <2> HIDE DEF returning, last, points
  <2> QED BY <2>1, <2>2, Zenon
<1>7. point.point = "prologue" => points = (returning \o <<caller>>) \o <<last>>
  BY DEF PointsOf
<1> HIDE DEF saved, returning, size, points, last, caller
<1> DEFINE called == returning \o <<caller>>
<1>8. IsFramed(saved, size, returning, last) /\ IsFramed(saved, size, returning, caller)
  BY <1>1, <1>2, FramesMore
<1>9. size + 1 \in Nat /\ IsSequence(called, size + 1)
  BY <1>2, <1>8 DEF IsFramed
<1>10. FramesOf(saved, called) = Append(FramesOf(saved, returning), FrameOf(saved, caller.point, caller.saved))
  BY <1>8 DEF IsFramed
<1> HIDE DEF called
<1>11. IsFramed(saved, size + 1, called, last)
  BY <1>9, FramesMore
<1> DEFINE outer == Outer(words, number)
           f1 == FrameOf(saved, last.point, last.saved)
           f2 == FrameOf(saved, caller.point, caller.saved)
<1>12. /\ f1 = FrameIn(words, point, number)
       /\ PlaceRight(top.point, number) => f2 = FrameIn(words, top.point, number)
  BY <1>4, <1>5
<1> HIDE DEF f1, f2, outer
<1>13. FramesOf(saved, returning \o <<last>>) = Append(outer, f1)
  BY <1>1, <1>8 DEF IsFramed, outer, f1
<1>14. FramesOf(saved, (returning \o <<caller>>) \o <<last>>) = Append(Append(outer, f2), f1)
  BY <1>1, <1>10, <1>11 DEF IsFramed, outer, f1, f2, called
<1> QED BY <1>3, <1>6, <1>7, <1>12, <1>13, <1>14, Zenon DEF outer, saved

-------------------------------------------------------------------------------
(* The interpreter at a state of the program.                              *)

\* What is balanced has the functions of loops where they are looked for.
LEMMA BalancedPlaces ==
    ASSUME NEW words, NEW frame \in Int, NEW looping, NEW function, IsBalanced(words, frame, looping, function),
           NEW number, number = Words + 1 - frame
    PROVE  /\ number \in Nat /\ SavedRight(words, number)
           /\ looping => number >= 2
<1>1. number \in Nat /\ Words \in Nat
  BY BottomNat DEF IsBalanced
<1>2. \A address \in Int : IsLoop(words, frame, looping, address) => address + 1 <= Words
  BY DEF IsBalanced, LoopsRight
<1>3. looping => number >= 2
  BY <1>1, <1>2 DEF IsLoop
<1>4. ASSUME NEW index \in Ret(words, number), words[Words + 1 - index].point.point \in LoopPoints
      PROVE  index - 1 >= 2
  <2>1. index \in 1 .. number /\ words[Words + 1 - index].type = "Return"
    BY DEF Ret
  <2>2. PICK address \in Int : address = Words + 1 - index
    BY <1>1, <2>1
  <2>3. address \in frame .. Words /\ address + 1 \in Int /\ (address + 1) - 1 = address
    BY <1>1, <2>1, <2>2
  <2>4. IsHead(words, frame, address)
    BY <1>4, <2>1, <2>2, <2>3 DEF IsHead
  <2>5. IsLoop(words, frame, looping, address + 1)
    BY <2>3, <2>4 DEF IsLoop
  <2>6. address + 1 + 1 <= Words
    BY <1>2, <2>3, <2>5
  <2> QED BY <1>1, <2>1, <2>2, <2>6
<1>5. SavedRight(words, number)
  BY <1>4 DEF SavedRight, PlaceRight
<1> QED BY <1>1, <1>3, <1>5

\* The functions that are active now, and after a step.
IsActive(active, words, frame, point, current) ==
    LET number == Words + 1 - frame
    IN  /\ point.point # "prologue" => active = Append(Outer(words, number), FrameIn(words, point, number))
        /\ point.point = "prologue" =>
            active = Append(Append(Outer(words, number), FrameIn(words, current, number)), FrameIn(words, point, number))

\* The functions that are active if what is saved is balanced.
LEMMA ActiveFor ==
    ASSUME NEW words, NEW frame \in Int, NEW point, NEW top, NEW current,
           current = IF point.point = "prologue" THEN top.point ELSE point,
           IsBalanced(words, frame, current.point \in LoopPoints, current.function)
    PROVE  /\ IsActive(ActiveOf(SavedOf(words, frame), point, top), words, frame, point, current)
           /\ PlaceRight(current, Words + 1 - frame)
<1> DEFINE number == Words + 1 - frame
<1>1. number \in Nat /\ SavedRight(words, number) /\ (current.point \in LoopPoints => number >= 2)
  BY BalancedPlaces
<1>2. PlaceRight(current, number)
  BY <1>1 DEF PlaceRight
<1>3. PlaceRight(point, number)
  BY <1>2 DEF PlaceRight, LoopPoints
<1> HIDE DEF number
<1>4. number = Words + 1 - frame
  BY DEF number
<1> DEFINE active == ActiveOf(SavedOf(words, frame), point, top)
           one == Append(Outer(words, number), FrameIn(words, point, number))
           two == Append(Append(Outer(words, number), FrameIn(words, top.point, number)), FrameIn(words, point, number))
<1>5. /\ point.point # "prologue" => active = one
      /\ point.point = "prologue" /\ PlaceRight(top.point, number) => active = two
  BY <1>1, <1>3, <1>4, ActiveIs
<1> HIDE DEF active, one, two
<1>6. CASE point.point = "prologue"
  <2>1. current = top.point
    BY <1>6
  <2>2. active = two
    BY <1>2, <1>5, <1>6, <2>1
  <2>3. IsActive(active, words, frame, point, current)
    BY <1>6, <2>1, <2>2, Zenon DEF IsActive, two, number
  <2> QED BY <1>2, <2>3 DEF active, number
<1>7. CASE point.point # "prologue"
  <2>1. active = one
    BY <1>5, <1>7
  <2>2. IsActive(active, words, frame, point, current)
    BY <1>7, <2>1, Zenon DEF IsActive, one, number
  <2> QED BY <1>2, <2>2 DEF active, number
<1> QED BY <1>6, <1>7

\* They are so now,
LEMMA ActiveNow ==
    ASSUME Inv
    PROVE  IsActive(Active, memory, fp, pc, Current) /\ PlaceRight(Current, Words + 1 - fp)
<1>1. Active = ActiveOf(SavedOf(memory, fp), pc, Peek(1))
  BY ActiveAre
<1>2. fp \in Int /\ IsBalanced(memory, fp, Current.point \in LoopPoints, Current.function)
  BY DEF Inv
<1>3. Current = IF pc.point = "prologue" THEN Peek(1).point ELSE pc
  BY DEF Current
<1> QED BY <1>1, <1>2, <1>3, ActiveFor

\* and after a step.
LEMMA ActiveThen ==
    ASSUME Inv'
    PROVE  IsActive(Active', memory', fp', pc', Current') /\ PlaceRight(Current', Words + 1 - fp')
<1>1. Active' = ActiveOf(SavedOf(memory', fp'), pc', Peek(1)')
  BY ActiveAre
<1>2. fp' \in Int /\ IsBalanced(memory', fp', Current'.point \in LoopPoints, Current'.function)
  BY DEF Inv
<1>3. Current' = IF pc'.point = "prologue" THEN Peek(1)'.point ELSE pc'
  BY DEF Current
<1> QED BY <1>1, <1>2, <1>3, ActiveFor

\* What is saved and stays leaves those that call as they are.
LEMMA OuterStays ==
    ASSUME NEW words, NEW changed, NEW frame \in Int, NEW looping, NEW function,
           IsBalanced(words, frame, looping, function),
           \A address \in frame .. Words : changed[address] = words[address],
           NEW number, number = Words + 1 - frame
    PROVE  /\ Outer(changed, number) = Outer(words, number)
           /\ \A point : PlaceRight(point, number) => FrameIn(changed, point, number) = FrameIn(words, point, number)
<1>1. number \in Nat /\ SavedRight(words, number) /\ Words \in Nat
  BY BalancedPlaces, BottomNat
<1>2. \A index \in 1 .. number : changed[Words + 1 - index] = words[Words + 1 - index]
  <2>1. \A index \in 1 .. number : Words + 1 - index \in frame .. Words
    BY <1>1
  <2> QED BY <2>1
<1>3. \A index \in Ret(words, number) : words[Words + 1 - index].point.point \in LoopPoints => index >= 3
  <2>1. \A index \in Ret(words, number) : index \in Int
    BY DEF Ret
  <2> QED BY <1>1, <2>1 DEF SavedRight, PlaceRight
<1>4. Outer(changed, number) = Outer(words, number)
  BY <1>1, <1>2, <1>3, OuterKept
<1>5. ASSUME NEW point, PlaceRight(point, number)
      PROVE  FrameIn(changed, point, number) = FrameIn(words, point, number)
  <2>1. point.point \in LoopPoints => number \in 1 .. number /\ number - 1 \in 1 .. number
    BY <1>1, <1>5 DEF PlaceRight
  <2>2. point.point \in LoopPoints =>
            /\ changed[Words + 1 - number] = words[Words + 1 - number]
            /\ changed[Words + 1 - (number - 1)] = words[Words + 1 - (number - 1)]
    BY <1>2, <2>1
  <2> QED BY <2>2 DEF FrameIn
<1> QED BY <1>4, <1>5

\* The one that is active, or those that are while a function is called.
LEMMA Innermost ==
    ASSUME NEW size \in Nat, NEW outer, IsSequence(outer, size), NEW frame, Active = Append(outer, frame)
    PROVE  /\ Interpreter!Depth = size + 1 /\ Interpreter!Current = frame
           /\ Interpreter!Front(Active) = outer
<1>1. Len(Append(outer, frame)) = size + 1
      /\ Append(outer, frame)[Len(Append(outer, frame))] = frame
      /\ Interpreter!Front(Append(outer, frame)) = outer
  BY LastAppended
<1> DEFINE whole == Append(outer, frame)
<1>2. Len(whole) = size + 1 /\ whole[Len(whole)] = frame /\ Interpreter!Front(whole) = outer /\ Active = whole
  BY <1>1
<1> HIDE DEF whole
<1> QED BY <1>2 DEF Interpreter!Depth, Interpreter!Current

-------------------------------------------------------------------------------
(* The words that there are.                                               *)

\* Integers are what the interpreter takes them for as long as they are in the
\* range of words, logical operations are applied to truth values, the values
\* compared are not those that the code compares differently (equal ones by the
\* order, others of different types, and those of variables never assigned), and
\* no value is selected above the top of the stack.
Exact ==
    LET top == AsInteger(Peek(1))
        next == AsInteger(Peek(2))
    IN AtElement /\ Begins(Stack, Expected(Elements[pc.at])) =>
        /\ Symbol = "Integer" => InRange(Elements[pc.at].argument)
        /\ Symbol = "Negate" => InRange(-top)
        /\ Symbol = "Not" => top \in {0, 1}
        /\ Symbol \in {"And", "Or"} => top \in {0, 1} /\ next \in {0, 1}
        /\ Symbol = "Add" => InRange(next + top)
        /\ Symbol = "Subtract" => InRange(next - top)
        /\ Symbol = "Multiply" => InRange(next * top)
        /\ Symbol = "Divide" => top # 0 /\ InRange(Code!Quotient(next, top))
        /\ Symbol = "Greater" => top # next
        /\ Symbol = "Equal" => Peek(1).type = Peek(2).type /\ Peek(1) # Void
        /\ Symbol = "Select" => top >= 0

\* The words on the stack, of variables and of loops.
IsWord(some, word) ==
    \/ word = Void
    \/ word = Integer(word.value) /\ word.value \in 0 .. Size - 1
    \/ word = Value("Variable", word.value) /\ word.value \in Letters
    \/ word = Value("Function", word.value) /\ word.value \in DOMAIN some \ {Main}

\* Only what is saved first returns to the main function.
SavedTyped(some, words, frame, function) ==
    /\ \A address \in frame .. Words : words[address].type = "Return" =>
        /\ words[address].point.function \in DOMAIN some
        /\ words[address].point.function = Main => ~ReturnsBehind(words, address + 1)
    /\ \A address \in frame .. Words : words[address].type # "Return" =>
        words[address].type = "Function" /\ IsWord(some, words[address])
    /\ function \in DOMAIN some
    /\ function = Main => ~ReturnsBehind(words, frame)

StackTyped(some, words, top) == \A address \in top .. Bottom - 1 : IsWord(some, words[address])

\* What else is invariant.
Typed ==
    /\ program \in Programs
    /\ StackTyped(program, memory, IF pc.point = "prologue" THEN sp + 1 ELSE sp)
    /\ variables = [letter \in Letters |-> variables[letter]]
    /\ \A letter \in Letters : IsWord(program, variables[letter])
    /\ pc.point \in CallPoints /\ sp <= Bottom => IsWord(program, result)
    /\ pc.function \in DOMAIN program
    /\ pc.point = "prologue" => pc.function # Main /\ pc.at = 0
    /\ SavedTyped(program, memory, fp, Current.function)

\* What is saved depends on the words from the frame on only.
LEMMA SavedTypedKept ==
    ASSUME NEW some, NEW words, NEW changed, NEW frame \in Int, NEW function,
           SavedTyped(some, words, frame, function),
           \A address \in frame .. Words : changed[address] = words[address]
    PROVE  SavedTyped(some, changed, frame, function)
<1>0. Words \in Nat
  BY EmitterAssumption
<1>1. \A from \in Int : from >= frame => (ReturnsBehind(changed, from) <=> ReturnsBehind(words, from))
  BY <1>0 DEF ReturnsBehind
<1>2. \A address \in frame .. Words : address \in Int /\ address + 1 \in Int /\ address + 1 >= frame
  BY <1>0
<1> QED BY <1>1, <1>2 DEF SavedTyped

\* A return address is saved.
LEMMA ReturnTyped ==
    ASSUME NEW some, NEW words, NEW changed, NEW frame \in Int, frame <= Words + 1, NEW function,
           IsReturn(changed[frame - 1]),
           SavedTyped(some, words, frame, changed[frame - 1].point.function),
           \A address \in frame .. Words : changed[address] = words[address],
           function \in DOMAIN some, function # Main
    PROVE  SavedTyped(some, changed, frame - 1, function)
<1>0. Words \in Nat
  BY EmitterAssumption
<1>1. SavedTyped(some, changed, frame, changed[frame - 1].point.function)
  BY SavedTypedKept
<1>2. \A address \in frame - 1 .. Words : address = frame - 1 \/ address \in frame .. Words
  BY <1>0
<1>3. changed[frame - 1].type = "Return" /\ (frame - 1) + 1 = frame
  BY DEF IsReturn
<1> QED BY <1>1, <1>2, <1>3 DEF SavedTyped

\* The functions of a loop are saved.
LEMMA LoopTyped ==
    ASSUME NEW some, NEW words, NEW changed, NEW frame \in Int, frame <= Words + 1, NEW function,
           SavedTyped(some, words, frame, function),
           \A address \in frame .. Words : changed[address] = words[address],
           \A address \in {frame - 1, frame - 2} :
                changed[address].type = "Function" /\ IsWord(some, changed[address])
    PROVE  SavedTyped(some, changed, frame - 2, function)
<1>0. Words \in Nat
  BY EmitterAssumption
<1>1. SavedTyped(some, changed, frame, function)
  BY SavedTypedKept
<1>2. \A address \in frame - 2 .. Words : address \in {frame - 1, frame - 2} \/ address \in frame .. Words
  BY <1>0
<1>3. ReturnsBehind(changed, frame - 2) => ReturnsBehind(changed, frame)
  BY <1>2 DEF ReturnsBehind
<1>4. \A address \in frame - 2 .. Words : changed[address].type = "Return" => address \in frame .. Words
  BY <1>2
<1> QED BY <1>1, <1>2, <1>3, <1>4 DEF SavedTyped

\* What is saved last is removed.
LEMMA TypedLess ==
    ASSUME NEW some, NEW words, NEW frame \in Int, NEW function, SavedTyped(some, words, frame, function),
           NEW count \in Nat, NEW caller,
           caller \in DOMAIN some, caller = Main => ~ReturnsBehind(words, frame + count)
    PROVE  SavedTyped(some, words, frame + count, caller)
<1>1. \A address \in frame + count .. Words : address \in frame .. Words
  BY BottomNat
<1> QED BY <1>1 DEF SavedTyped

-------------------------------------------------------------------------------
(* The values on the stack at a state of the program.                      *)

IsValues(values, words, top, point, returned) ==
    /\ point \in {"element", "begin"} => values = Up(words, top)
    /\ point = "prologue" => values = Up(words, top + 1)
    /\ point \in CallPoints /\ top <= Bottom => values = Append(Up(words, top), Interpreted(returned))
    /\ point \in CallPoints /\ top > Bottom => values = <<>>

\* They are the words on the stack, with a result that is about to be pushed.
LEMMA ValuesFor ==
    ASSUME NEW words, NEW top \in Int, NEW point, NEW returned, IsAbove(point, top)
    PROVE  IsValues(ValuesOf(words, top, point, returned), words, top, point, returned)
<1>1. point \in {"element", "begin"} => top <= Bottom /\ point \notin CallPoints \cup {"prologue"}
  BY DEF IsAbove, CallPoints
<1>2. point = "prologue" => top < Bottom
  BY BottomNat DEF IsAbove
<1>3. point \in {"element", "begin"} => ValuesOf(words, top, point, returned) = Up(words, top)
  BY <1>1, ValuesBetween
<1>4. point = "prologue" => ValuesOf(words, top, point, returned) = Up(words, top + 1)
  BY <1>2, ValuesCalled
<1>5. point \in CallPoints /\ top <= Bottom =>
        ValuesOf(words, top, point, returned) = Append(Up(words, top), Interpreted(returned))
  <2> SUFFICES ASSUME point \in CallPoints, top <= Bottom
               PROVE  ValuesOf(words, top, point, returned) = Append(Up(words, top), Interpreted(returned))
    OBVIOUS
  <2> QED BY ValuesReturned
<1>6. point \in CallPoints /\ top > Bottom => ValuesOf(words, top, point, returned) = <<>>
  BY ValuesNone
<1> QED BY <1>3, <1>4, <1>5, <1>6 DEF IsValues

\* They are so now,
LEMMA ValuesNow ==
    ASSUME Inv
    PROVE  IsValues(Values, memory, sp, pc.point, result)
BY ValuesAre, ValuesFor DEF Inv

\* and after a step.
LEMMA ValuesThen ==
    ASSUME Inv'
    PROVE  IsValues(Values', memory', sp', pc'.point, result')
BY ValuesAre, ValuesFor DEF Inv

\* An element finds the values that the interpreter does.
LEMMA ValuesFound ==
    ASSUME Inv, pc.point = "element"
    PROVE  /\ sp \in Int /\ sp <= Bottom /\ Values = Up(memory, sp)
           /\ IsSequence(Stack, Bottom - sp) /\ IsSequence(Interpreter!Downwards, Bottom - sp)
           /\ \A index \in 1 .. Bottom - sp :
                /\ Stack[index] = Peek(index) /\ Peek(index) = memory[sp + index - 1]
                /\ Interpreter!Downwards[index] = Interpreted(Peek(index))
                /\ Interpreter!Top(index) = Interpreted(Peek(index))
<1>1. sp \in Int /\ sp <= Bottom /\ Bottom - sp \in Nat
  BY BottomNat DEF Inv, IsAbove
<1>2. Values = Up(memory, sp)
  BY ValuesNow DEF IsValues
<1>3. Stack = StackOf(memory, sp)
  BY ValuesAre
<1>4. IsSequence(Stack, Bottom - sp) /\ \A index \in 1 .. Bottom - sp : Stack[index] = memory[sp + index - 1]
  BY <1>1, <1>3, StackFacts
<1>5. \A index \in 1 .. Bottom - sp : Interpreter!Top(index) = Interpreted(memory[sp + index - 1])
  BY <1>1, <1>2, UpTop DEF Interpreter!Top
<1>6. DOMAIN Values = 1 .. Bottom - sp
  BY <1>1, <1>2, UpFacts, Sequences
<1>7. Interpreter!Downwards = [index \in 1 .. Bottom - sp |-> Interpreter!Top(index)]
  BY <1>6 DEF Interpreter!Downwards
<1>8. IsSequence(Interpreter!Downwards, Bottom - sp)
      /\ \A index \in 1 .. Bottom - sp : Interpreter!Downwards[index] = Interpreter!Top(index)
  BY <1>1, <1>7 DEF IsSequence
<1> QED BY <1>1, <1>2, <1>4, <1>5, <1>8 DEF Peek

\* Words have the type of their values.
LEMMA TypesInterpreted == \A word : Interpreted(word).type = word.type
BY DEF Interpreted, Integer, Value

\* It has them for want of nothing else.
LEMMA BeginsSame ==
    ASSUME Inv, pc.point = "element", NEW types, NEW length \in Nat, IsSequence(types, length)
    PROVE  /\ Begins(Stack, types) <=> Begins(Interpreter!Downwards, types)
           /\ Begins(Stack, types) =>
                /\ length <= Bottom - sp
                /\ \A index \in 1 .. length : types[index] = "Any" \/ types[index] = Peek(index).type
<1> DEFINE size == Bottom - sp
           down == Interpreter!Downwards
<1>1. /\ IsSequence(Stack, size) /\ IsSequence(down, size)
      /\ \A index \in 1 .. size : Stack[index] = Peek(index) /\ down[index] = Interpreted(Peek(index))
  BY ValuesFound
<1> HIDE DEF down, size
<1>2. Len(Stack) = size /\ Len(down) = size /\ size \in Nat /\ Len(types) = length /\ DOMAIN types = 1 .. length
  BY <1>1, Sequences
<1>3. length <= size =>
        \A index \in 1 .. length : index \in 1 .. size /\ Stack[index].type = Peek(index).type
                                    /\ down[index].type = Peek(index).type
  <2> SUFFICES ASSUME length <= size, NEW index \in 1 .. length
               PROVE  index \in 1 .. size /\ Stack[index].type = Peek(index).type
                      /\ down[index].type = Peek(index).type
    OBVIOUS
  <2>1. index \in 1 .. size
    BY <1>2
  <2> QED BY <1>1, <2>1, TypesInterpreted
<1>4. Begins(Stack, types) <=> Begins(down, types)
  BY <1>2, <1>3 DEF Begins
<1>5. Begins(Stack, types) =>
        /\ length <= size
        /\ \A index \in 1 .. length : types[index] = "Any" \/ types[index] = Peek(index).type
  <2> SUFFICES ASSUME Begins(Stack, types)
               PROVE  /\ length <= size
                      /\ \A index \in 1 .. length : types[index] = "Any" \/ types[index] = Peek(index).type
    OBVIOUS
  <2>1. length <= size /\ \A index \in 1 .. length : types[index] \in {"Any", Stack[index].type}
    BY <1>2 DEF Begins
  <2>2. \A index \in 1 .. length : Stack[index].type = Peek(index).type
    BY <1>3, <2>1
  <2> QED BY <2>1, <2>2
<1> QED BY <1>4, <1>5 DEF down, size

\* What elements expect.
LEMMA Expecting ==
    ASSUME NEW element
    PROVE  /\ \E length \in Nat : IsSequence(Expected(element), length)
           /\ element.symbol = "Assign" => Expected(element) = <<"Variable", "Any">>
           /\ element.symbol = "Dereference" => Expected(element) = <<"Variable">>
           /\ element.symbol = "Call" => Expected(element) = <<"Function">>
           /\ element.symbol = "If" => Expected(element) = <<"Function", "Integer">>
           /\ element.symbol = "While" => Expected(element) = <<"Function", "Function">>
           /\ element.symbol \in {"Negate", "Not", "Put", "Select"} => Expected(element) = <<"Integer">>
           /\ element.symbol \in Operations => Expected(element) = <<"Integer", "Integer">>
           /\ element.symbol \in {"Equal", "Swap"} => Expected(element) = <<"Any", "Any">>
           /\ element.symbol \in {"Delete", "Duplicate"} => Expected(element) = <<"Any">>
           /\ element.symbol = "Rotate" => Expected(element) = <<"Any", "Any", "Any">>
<1>1. /\ IsSequence(<<>>, 0) /\ IsSequence(<<"Any">>, 1) /\ IsSequence(<<"Any", "Any">>, 2)
      /\ IsSequence(<<"Any", "Any", "Any">>, 3) /\ IsSequence(<<"Integer">>, 1)
      /\ IsSequence(<<"Integer", "Integer">>, 2) /\ IsSequence(<<"Function">>, 1)
      /\ IsSequence(<<"Function", "Function">>, 2) /\ IsSequence(<<"Function", "Integer">>, 2)
      /\ IsSequence(<<"Variable">>, 1) /\ IsSequence(<<"Variable", "Any">>, 2)
  BY DEF IsSequence
<1>2. Expected(element) \in {<<"Variable", "Any">>, <<"Variable">>, <<"Function">>, <<"Function", "Integer">>,
        <<"Function", "Function">>, <<"Integer">>, <<"Integer", "Integer">>, <<"Any", "Any">>, <<"Any">>,
        <<"Any", "Any", "Any">>, <<>>}
  BY DEF Expected
<1>3. \E length \in Nat : IsSequence(Expected(element), length)
  <2> HIDE DEF IsSequence
  <2> QED BY <1>1, <1>2
<1> QED BY <1>3 DEF Expected, Operations

\* An integer on the stack is the one that the interpreter has.
LEMMA WordFound ==
    ASSUME NEW some, NEW word, IsWord(some, word)
    PROVE  /\ word.type = "Integer" =>
                /\ word.value \in 0 .. Size - 1 /\ word = Integer(word.value)
                /\ Interpreted(word) = Integer(AsInteger(word)) /\ Interpreted(word).value = AsInteger(word)
                /\ InRange(AsInteger(word)) /\ (AsInteger(word) = 0 <=> word.value = 0)
           /\ word.type = "Variable" => word.value \in Letters /\ Interpreted(word) = word
           /\ word.type = "Function" => word.value \in DOMAIN some \ {Main} /\ Interpreted(word) = word
           /\ word.type # "Integer" => Interpreted(word) = word
           /\ word.type \in {"Void", "Integer", "Variable", "Function"}
<1>1. Void.type = "Void" /\ \A value : Integer(value).type = "Integer" /\ Integer(value).value = value
  BY DEF Void, Integer, Value
<1>2. Value("Variable", word.value).type = "Variable" /\ Value("Function", word.value).type = "Function"
  BY DEF Value
<1>3. word.type = "Integer" => word.value \in 0 .. Size - 1 /\ word = Integer(word.value)
  BY <1>1, <1>2 DEF IsWord
<1>4. word.type = "Integer" => InRange(AsInteger(word)) /\ (AsInteger(word) = 0 <=> word.value = 0)
  BY <1>3, WordsApart
<1>5. Interpreted(word) = IF word.type = "Integer" THEN Integer(AsInteger(word)) ELSE word
  BY DEF Interpreted
<1> QED BY <1>1, <1>2, <1>3, <1>4, <1>5 DEF IsWord

-------------------------------------------------------------------------------
(* The element that is next.                                               *)

\* The instance has the same definitions.
LEMMA SameElements ==
    /\ \A element : Interpreter!Expected(element) = Expected(element)
    /\ \A values, types : Interpreter!Begins(values, types) <=> Begins(values, types)
    /\ \A element, values : Interpreter!FailsOn(element, values) <=> FailsOn(element, values)
    /\ Interpreter!NoLoop = NoLoop /\ Interpreter!Main = Main /\ Interpreter!Void = Void
    /\ Interpreter!Literals = Literals /\ Interpreter!Operations = Operations
    /\ \A type, value : Interpreter!Value(type, value) = Value(type, value)
    /\ \A value : Interpreter!Integer(value) = Integer(value) /\ Interpreter!Boolean(value) = Boolean(value)
<1>1. \A element : Interpreter!Expected(element) = Expected(element)
  BY Zenon DEF Interpreter!Expected, Expected, Interpreter!Operations, Operations
<1>2. \A values, types : Interpreter!Begins(values, types) <=> Begins(values, types)
  BY Zenon DEF Interpreter!Begins, Begins
<1>3. \A element, values : Interpreter!FailsOn(element, values) <=> FailsOn(element, values)
  BY <1>1, <1>2 DEF Interpreter!FailsOn, FailsOn
<1>4. \A type, value : Interpreter!Value(type, value) = Value(type, value)
  BY DEF Interpreter!Value, Value
<1>5. \A value : Interpreter!Integer(value) = Integer(value) /\ Interpreter!Boolean(value) = Boolean(value)
  BY <1>4, Zenon DEF Interpreter!Integer, Integer, Interpreter!Boolean, Boolean
<1>6. /\ Interpreter!NoLoop = NoLoop /\ Interpreter!Main = Main /\ Interpreter!Void = Void
      /\ Interpreter!Literals = Literals /\ Interpreter!Operations = Operations
  BY <1>4, Zenon DEF Interpreter!NoLoop, NoLoop, Interpreter!Main, Main, Interpreter!Void, Void,
      Interpreter!Literals, Literals, Interpreter!Operations, Operations
<1> QED BY <1>1, <1>2, <1>3, <1>4, <1>5, <1>6

\* The function that is executed is the one that is interpreted.
LEMMA FunctionNow ==
    ASSUME Inv, pc.point # "prologue"
    PROVE  LET number == Words + 1 - fp
           IN  /\ number \in Nat /\ Count(memory, number) \in Nat
               /\ Interpreter!Current = FrameIn(memory, pc, number)
               /\ Interpreter!Depth = Count(memory, number) + 1
               /\ Interpreter!Front(Active) = Outer(memory, number)
               /\ Interpreter!Elements = Elements
<1> DEFINE number == Words + 1 - fp
           size == Count(memory, number)
           outer == Outer(memory, number)
           frame == FrameIn(memory, pc, number)
<1>1. number \in Nat
  BY BottomNat DEF Inv, IsBalanced
<1>2. size \in Nat /\ IsSequence(outer, size)
  BY <1>1, Counted, OuterSequence
<1>3. Active = Append(outer, frame)
  BY ActiveNow, Zenon DEF IsActive
<1>4. frame.function = pc.function
  BY DEF FrameIn
<1> HIDE DEF size, outer, frame, number
<1>5. Interpreter!Depth = size + 1 /\ Interpreter!Current = frame /\ Interpreter!Front(Active) = outer
  BY <1>2, <1>3, Innermost
<1>6. Interpreter!Elements = Elements
  BY <1>4, <1>5 DEF Interpreter!Elements, Elements
<1> QED BY <1>1, <1>2, <1>5, <1>6 DEF size, outer, frame, number

\* At an element, no loop is in progress in it.
LEMMA ElementNow ==
    ASSUME Inv, pc.point = "element"
    PROVE  /\ Interpreter!Current = [function |-> pc.function, at |-> pc.at, loop |-> NoLoop]
           /\ ~Interpreter!InLoop
           /\ Interpreter!Elements = Elements
<1>1. Interpreter!Current = FrameIn(memory, pc, Words + 1 - fp) /\ Interpreter!Elements = Elements
  BY FunctionNow
<1>2. FrameIn(memory, pc, Words + 1 - fp) = [function |-> pc.function, at |-> pc.at, loop |-> NoLoop]
  BY DEF FrameIn, LoopPoints
<1> QED BY <1>1, <1>2, SameElements DEF Interpreter!InLoop

\* Words on the stack are those that there are.
LEMMA PeekTyped ==
    ASSUME Inv, Typed, pc.point = "element"
    PROVE  \A index \in 1 .. Bottom - sp : IsWord(program, Peek(index))
<1> SUFFICES ASSUME NEW index \in 1 .. Bottom - sp PROVE IsWord(program, memory[sp + index - 1])
  BY DEF Peek
<1>1. sp + index - 1 \in sp .. Bottom - 1
  BY BottomNat DEF Inv
<1> QED BY <1>1 DEF Typed, StackTyped

\* What an element that does not fail finds on the stack.
LEMMA ExpectedFound ==
    ASSUME Inv, Typed, AtElement, Begins(Stack, Expected(Elements[pc.at])),
           NEW length \in Nat, IsSequence(Expected(Elements[pc.at]), length)
    PROVE  /\ sp + length <= Bottom
           /\ \A index \in 1 .. length :
                /\ index \in 1 .. Bottom - sp
                /\ Expected(Elements[pc.at])[index] = "Any" \/ Expected(Elements[pc.at])[index] = Peek(index).type
                /\ IsWord(program, Peek(index))
                /\ Interpreter!Top(index) = Interpreted(Peek(index))
<1>1. pc.point = "element"
  BY DEF AtElement
<1> DEFINE types == Expected(Elements[pc.at])
<1> HIDE DEF types
<1>2. /\ length <= Bottom - sp
      /\ \A index \in 1 .. length : types[index] = "Any" \/ types[index] = Peek(index).type
  BY <1>1, BeginsSame DEF types
<1>3. \A index \in 1 .. length : index \in 1 .. Bottom - sp
  BY <1>2, BottomNat DEF Inv
<1>4. sp + length <= Bottom
  BY <1>2, BottomNat DEF Inv
<1> QED BY <1>1, <1>2, <1>3, <1>4, PeekTyped, ValuesFound DEF types

\* An element fails if and only if the interpreter does.
LEMMA FailsSame ==
    ASSUME Inv, Typed, Exact, AtElement
    PROVE  FailsOn(Elements[pc.at], Stack) <=> FailsOn(Elements[pc.at], Interpreter!Downwards)
<1> DEFINE element == Elements[pc.at]
           types == Expected(element)
           down == Interpreter!Downwards
<1>0. pc.point = "element"
  BY DEF AtElement
<1>1. PICK length \in Nat : IsSequence(types, length)
  BY Expecting
<1>2. Begins(Stack, types) <=> Begins(down, types)
  BY <1>0, <1>1, BeginsSame
<1>3. Len(Stack) = Bottom - sp /\ Len(down) = Bottom - sp
  BY <1>0, ValuesFound, Sequences
<1>4. ASSUME Begins(Stack, types), element.symbol = "Select"
      PROVE  Stack[1].value = down[1].value
  <2>1. IsSequence(types, 1) /\ types[1] = "Integer"
    <3>1. types = <<"Integer">>
      BY <1>4, Expecting
    <3> QED BY <3>1 DEF IsSequence
  <2>2. PICK one \in Nat : one = 1
    OBVIOUS
  <2>3. 1 \in 1 .. Bottom - sp /\ Peek(1).type = "Integer" /\ IsWord(program, Peek(1))
    BY <1>4, <2>1, <2>2, ExpectedFound
  <2>4. AsInteger(Peek(1)) >= 0
    BY <1>4 DEF Exact, Symbol
  <2>5. Peek(1).value \in 0 .. Size - 1 /\ Interpreted(Peek(1)).value = AsInteger(Peek(1))
    BY <2>3, WordFound
  <2>6. AsInteger(Peek(1)) = Peek(1).value
    BY <2>4, <2>5, WordsApart
  <2>7. Stack[1] = Peek(1) /\ down[1] = Interpreted(Peek(1))
    BY <1>0, <2>3, ValuesFound
  <2> QED BY <2>5, <2>6, <2>7
<1> QED BY <1>2, <1>3, <1>4 DEF FailsOn

\* An element that is executed is interpreted.
LEMMA AtSame ==
    ASSUME Inv, Typed, Exact, NEW symbols, At(symbols)
    PROVE  /\ Interpreter!At(symbols)
           /\ Interpreter!Elements[Interpreter!Current.at] = Elements[pc.at]
           /\ AtElement /\ Symbol \in symbols /\ UNCHANGED <<program, status>>
           /\ Begins(Stack, Expected(Elements[pc.at]))
<1>1. AtElement /\ Symbol \in symbols /\ ~FailsOn(Elements[pc.at], Stack) /\ UNCHANGED <<program, status>>
  BY DEF At
<1>2. status = "running" /\ pc.point = "element" /\ pc.at \in DOMAIN Elements
  BY <1>1 DEF AtElement
<1>3. /\ Interpreter!Current.at = pc.at /\ ~Interpreter!InLoop /\ Interpreter!Elements = Elements
  BY <1>2, ElementNow
<1>4. ~Interpreter!FailsOn(Elements[pc.at], Interpreter!Downwards)
  BY <1>1, FailsSame, SameElements
<1>5. Outcome = "running" /\ UNCHANGED <<program, Outcome>>
  BY <1>1, <1>2 DEF Outcome
<1>6. Interpreter!At(symbols)
  BY <1>1, <1>2, <1>3, <1>4, <1>5 DEF Interpreter!At, Symbol
<1> QED BY <1>1, <1>3, <1>6 DEF FailsOn

-------------------------------------------------------------------------------
(* The steps of elements that neither call nor branch.                     *)

\* Some words are replaced by others, which are known to the interpreter.
IsStep(count, length, words, values) ==
    /\ count \in Nat /\ length \in Nat /\ sp + count <= Bottom
    /\ IsSequence(words, length) /\ IsSequence(values, length)
    /\ \A index \in 1 .. length : IsWord(program, words[index]) /\ values[index] = Interpreted(words[index])
    /\ Replace(count, words)

\* What such a step changes in memory.
LEMMA StepChanges ==
    ASSUME Inv, Room, Room', NEW count, NEW length, NEW words, NEW values, IsStep(count, length, words, values)
    PROVE  /\ sp' = sp + count - length
           /\ \A address \in fp .. Words : memory'[address] = memory[address]
           /\ \A address \in sp' .. Bottom - 1 :
                memory'[address] = IF address \in sp' .. sp + count - 1
                                   THEN words[sp + count - address] ELSE memory[address]
<1>1. Len(words) = length /\ length \in Nat /\ count \in Nat /\ sp + count <= Bottom /\ Replace(count, words)
  BY Sequences DEF IsStep
<1>2. sp \in Int /\ fp \in Int /\ fp > Bottom /\ sp' >= 1 /\ Bottom <= Words + 1 /\ Words \in Nat /\ Bottom \in Nat
  BY BottomNat DEF Inv, Room
<1>3. sp' = sp + count - length
  BY <1>1 DEF Replace
<1>4. PICK end \in Int : end = sp + count /\ end = sp' + length
  BY <1>1, <1>2, <1>3
<1>5. \A address \in 1 .. Words :
        memory'[address] = IF address \in sp' .. end - 1 THEN words[end - address] ELSE memory[address]
  <2> DEFINE Image(low, size) == [address \in 1 .. Words |->
                 IF address \in low .. low + size - 1 THEN words[low + size - address] ELSE memory[address]]
  <2>1. memory' = Image(sp + count - Len(words), Len(words))
    BY <1>1, Zenon DEF Replace
  <2>2. Len(words) = length /\ sp + count - Len(words) = sp'
    BY <1>1, <1>3
  <2>3. memory' = Image(sp', length)
    <3> HIDE DEF Image
    <3> QED BY <2>1, <2>2, Zenon
  <2> TAKE address \in 1 .. Words
  <2>4. memory'[address] = IF address \in sp' .. sp' + length - 1 THEN words[sp' + length - address] ELSE memory[address]
    BY <2>3
  <2>5. sp' + length - 1 = end - 1 /\ sp' + length - address = end - address
    BY <1>4, <1>1, <1>2, <1>3
  <2> HIDE DEF Image
  <2> QED BY <2>4, <2>5, Zenon
<1>6. \A address \in fp .. Words : address \in 1 .. Words /\ address \notin sp' .. end - 1
  BY <1>1, <1>2, <1>3, <1>4
<1>7. \A address \in sp' .. Bottom - 1 : address \in 1 .. Words
  BY <1>1, <1>2, <1>3
<1>8. \A address \in fp .. Words : memory'[address] = memory[address]
  BY <1>5, <1>6
<1>9. \A address \in sp' .. Bottom - 1 :
        memory'[address] = IF address \in sp' .. end - 1 THEN words[end - address] ELSE memory[address]
  BY <1>5, <1>7
<1> QED BY <1>1, <1>2, <1>3, <1>4, <1>8, <1>9

\* The interpreter does the same to its stack, before the point that follows.
LEMMA StepReplaces ==
    ASSUME Inv, Inv', Room, Room', pc.point = "element", pc'.point \in {"element", "begin"},
           NEW count, NEW length, NEW words, NEW values, IsStep(count, length, words, values)
    PROVE  Interpreter!Replace(count, values)
<1>1. /\ sp' = sp + count - length
      /\ \A address \in sp' .. Bottom - 1 :
            memory'[address] = IF address \in sp' .. sp + count - 1
                               THEN words[sp + count - address] ELSE memory[address]
  BY StepChanges
<1>2. Values = Up(memory, sp) /\ Values' = Up(memory', sp')
  BY ValuesNow, ValuesThen DEF IsValues
<1>3. sp \in Int /\ count \in Nat /\ sp + count <= Bottom /\ length \in Nat /\ IsSequence(values, length)
      /\ \A index \in 1 .. length : values[index] = Interpreted(words[index])
  BY DEF Inv, IsStep
<1>4. IsReplaced(Up(memory', sp + count - length), Up(memory, sp), count, values)
  <2>1. \A address \in sp + count - length .. Bottom - 1 :
            memory'[address] = IF address \in sp + count - length .. sp + count - 1
                               THEN words[sp + count - address] ELSE memory[address]
    BY <1>1
  <2> QED BY <1>3, <2>1, UpReplaced
<1> DEFINE up == Up(memory, sp)
           upper == Up(memory', sp')
<1>5. upper = SubSeq(up, 1, Len(up) - count) \o values /\ Values = up /\ Values' = upper
  BY <1>1, <1>2, <1>4, Zenon DEF IsReplaced
<1> HIDE DEF up, upper
<1> QED BY <1>5, Zenon DEF Interpreter!Replace, Interpreter!Without

Continued(frame, loop) == [frame EXCEPT !.at = @ + 1, !.loop = loop]

\* A frame that goes on.
LEMMA FrameContinued ==
    ASSUME NEW function, NEW at, NEW other, NEW loop
    PROVE  Continued([function |-> function, at |-> at, loop |-> other], loop)
                = [function |-> function, at |-> at + 1, loop |-> loop]
<1> DEFINE frame == [function |-> function, at |-> at, loop |-> other]
<1>1. \A record, new : [record EXCEPT !.at = new, !.loop = loop] = [[record EXCEPT !.at = new] EXCEPT !.loop = loop]
  OBVIOUS
<1>2. \A new : [frame EXCEPT !.at = new] = [function |-> function, at |-> new, loop |-> other]
  OBVIOUS
<1>3. \A new : [[function |-> function, at |-> new, loop |-> other] EXCEPT !.loop = loop]
                = [function |-> function, at |-> new, loop |-> loop]
  OBVIOUS
<1>4. frame.at = at
  OBVIOUS
<1> HIDE DEF frame
<1>5. [frame EXCEPT !.at = @ + 1, !.loop = loop] = [function |-> function, at |-> at + 1, loop |-> loop]
  BY <1>1, <1>2, <1>3, <1>4, Zenon
<1> QED BY <1>5, Zenon DEF frame, Continued

\* Those that are calling stay as they are.
LEMMA OuterNow ==
    ASSUME Inv, \A address \in fp .. Words : memory'[address] = memory[address]
    PROVE  LET number == Words + 1 - fp
           IN  /\ Outer(memory', number) = Outer(memory, number)
               /\ \A point : PlaceRight(point, number) => FrameIn(memory', point, number) = FrameIn(memory, point, number)
<1>1. IsBalanced(memory, fp, Current.point \in LoopPoints, Current.function) /\ fp \in Int
  BY DEF Inv
<1>2. PICK number : number = Words + 1 - fp
  OBVIOUS
<1>3. /\ Outer(memory', number) = Outer(memory, number)
      /\ \A point : PlaceRight(point, number) => FrameIn(memory', point, number) = FrameIn(memory, point, number)
  BY <1>1, <1>2, OuterStays
<1> QED BY <1>2, <1>3

\* It goes on with the next element as well.
LEMMA StepAdvances ==
    ASSUME Inv, Inv', AtElement, program' = program, pc' = NextElement, fp' = fp,
           \A address \in fp .. Words : memory'[address] = memory[address]
    PROVE  Interpreter!Advance
<1> DEFINE number == Words + 1 - fp
           before == [function |-> pc.function, at |-> pc.at, loop |-> NoLoop]
           after == [function |-> pc.function, at |-> pc.at + 1, loop |-> NoLoop]
           outer == Outer(memory, number)
<1>1. pc.point = "element" /\ pc'.point = "element" /\ pc'.function = pc.function /\ pc'.at = pc.at + 1
  BY DEF AtElement, NextElement, Point
<1>2. Interpreter!Front(Active) = outer /\ Interpreter!Current = before
  BY <1>1, FunctionNow, ElementNow
<1>3. Active' = Append(Outer(memory', number), FrameIn(memory', pc', number))
  BY <1>1, ActiveThen, Zenon DEF IsActive
<1>4. Outer(memory', number) = outer
  BY OuterNow
<1>5. FrameIn(memory', pc', number) = after
  BY <1>1 DEF FrameIn, LoopPoints
<1>6. Continued(before, NoLoop) = after
  BY FrameContinued
<1>7. Active' = Append(outer, after)
  BY <1>3, <1>4, <1>5, Zenon
<1> HIDE DEF before, after, outer
<1> QED BY <1>2, <1>6, <1>7, SameElements, Zenon
       DEF Interpreter!Advance, Interpreter!Continue, Interpreter!Becoming, Continued

\* Whatever is on the stack afterwards is a word.
LEMMA StepTyped ==
    ASSUME Inv, Inv', Room, Room', Typed, AtElement, program' = program, pc' = NextElement, fp' = fp,
           variables' = [letter \in Letters |-> variables'[letter]],
           \A letter \in Letters : IsWord(program, variables'[letter]),
           NEW count, NEW length, NEW words, NEW values, IsStep(count, length, words, values)
    PROVE  Typed'
<1>1. pc.point = "element" /\ pc'.point = "element" /\ pc'.function = pc.function /\ pc'.at = pc.at + 1
  BY DEF AtElement, NextElement, Point
<1>2. /\ sp' = sp + count - length
      /\ \A address \in fp .. Words : memory'[address] = memory[address]
      /\ \A address \in sp' .. Bottom - 1 :
            memory'[address] = IF address \in sp' .. sp + count - 1
                               THEN words[sp + count - address] ELSE memory[address]
  BY StepChanges
<1>3. StackTyped(program, memory', sp')
  <2> SUFFICES ASSUME NEW address \in sp' .. Bottom - 1 PROVE IsWord(program, memory'[address])
    BY DEF StackTyped
  <2>1. sp \in Int /\ count \in Nat /\ length \in Nat /\ Bottom \in Nat
        /\ \A index \in 1 .. length : IsWord(program, words[index])
    BY BottomNat DEF Inv, IsStep
  <2>2. CASE address \in sp' .. sp + count - 1
    <3>1. sp + count - address \in 1 .. length
      BY <1>2, <2>1, <2>2
    <3> QED BY <1>2, <2>1, <2>2, <3>1
  <2>3. CASE address \notin sp' .. sp + count - 1
    <3>1. address \in sp .. Bottom - 1
      BY <1>2, <2>1, <2>3
    <3>2. IsWord(program, memory[address])
      BY <1>1, <3>1 DEF Typed, StackTyped
    <3> QED BY <1>2, <2>3, <3>2
  <2> QED BY <2>2, <2>3
<1>4. Current = pc /\ Current' = pc'
  BY <1>1 DEF Current
<1>5. SavedTyped(program, memory', fp, pc.function)
  <2>1. SavedTyped(program, memory, fp, pc.function) /\ fp \in Int
    BY <1>4 DEF Typed, Inv
  <2> QED BY <1>2, <2>1, SavedTypedKept
<1>6. pc'.point \notin CallPoints \cup {"prologue"}
  BY <1>1 DEF CallPoints
<1>7. program \in Programs /\ pc'.function \in DOMAIN program
  BY <1>1 DEF Typed
<1> QED BY <1>1, <1>3, <1>4, <1>5, <1>6, <1>7 DEF Typed

\* All of it together.
LEMMA StepSame ==
    ASSUME Inv, Inv', Room, Room', Typed, AtElement, program' = program, Advance,
           variables' = [letter \in Letters |-> variables'[letter]],
           \A letter \in Letters : IsWord(program, variables'[letter]),
           NEW count, NEW length, NEW words, NEW values, IsStep(count, length, words, values)
    PROVE  Interpreter!Replace(count, values) /\ Interpreter!Advance /\ Typed'
<1>1. pc' = NextElement /\ fp' = fp
  BY DEF Advance
<1>2. pc.point = "element" /\ pc'.point = "element"
  BY <1>1 DEF AtElement, NextElement, Point
<1>3. \A address \in fp .. Words : memory'[address] = memory[address]
  BY StepChanges
<1> QED BY <1>1, <1>2, <1>3, StepReplaces, StepAdvances, StepTyped

\* Tuples are sequences.
LEMMA Tuples ==
    \A first, second, third :
        /\ IsSequence(<<>>, 0) /\ IsSequence(<<first>>, 1)
        /\ IsSequence(<<first, second>>, 2) /\ IsSequence(<<first, second, third>>, 3)
BY DEF IsSequence

\* Words that are pushed, and the values that they are.
LEMMA StepsTaken ==
    ASSUME Inv, NEW count \in Nat, sp + count <= Bottom
    PROVE  /\ Replace(count, <<>>) => IsStep(count, 0, <<>>, <<>>)
           /\ \A word : Replace(count, <<word>>) /\ IsWord(program, word) =>
                IsStep(count, 1, <<word>>, <<Interpreted(word)>>)
           /\ \A word, next : Replace(count, <<word, next>>) /\ IsWord(program, word) /\ IsWord(program, next) =>
                IsStep(count, 2, <<word, next>>, <<Interpreted(word), Interpreted(next)>>)
           /\ \A word, next, last :
                Replace(count, <<word, next, last>>) /\ IsWord(program, word) /\ IsWord(program, next)
                        /\ IsWord(program, last) =>
                    IsStep(count, 3, <<word, next, last>>, <<Interpreted(word), Interpreted(next), Interpreted(last)>>)
<1>1. /\ 1 .. 0 = {} /\ 1 .. 1 = {1} /\ 1 .. 2 = {1, 2} /\ 1 .. 3 = {1, 2, 3}
      /\ 0 \in Nat /\ 1 \in Nat /\ 2 \in Nat /\ 3 \in Nat
  OBVIOUS
<1>2. Replace(count, <<>>) => IsStep(count, 0, <<>>, <<>>)
  BY <1>1, Tuples DEF IsStep
<1>3. ASSUME NEW word, Replace(count, <<word>>), IsWord(program, word)
      PROVE  IsStep(count, 1, <<word>>, <<Interpreted(word)>>)
  <2>1. \A index \in {1} : <<word>>[index] = word /\ <<Interpreted(word)>>[index] = Interpreted(word)
    OBVIOUS
  <2> QED BY <1>1, <1>3, <2>1, Tuples, Zenon DEF IsStep
<1>4. ASSUME NEW word, NEW next, Replace(count, <<word, next>>), IsWord(program, word), IsWord(program, next)
      PROVE  IsStep(count, 2, <<word, next>>, <<Interpreted(word), Interpreted(next)>>)
  <2> DEFINE values == <<Interpreted(word), Interpreted(next)>>
             words == <<word, next>>
  <2>1. \A index \in {1, 2} : IsWord(program, words[index]) /\ values[index] = Interpreted(words[index])
    BY <1>4
  <2> QED BY <1>1, <1>4, <2>1, Tuples, Zenon DEF IsStep
<1>5. ASSUME NEW word, NEW next, NEW last, Replace(count, <<word, next, last>>),
             IsWord(program, word), IsWord(program, next), IsWord(program, last)
      PROVE  IsStep(count, 3, <<word, next, last>>, <<Interpreted(word), Interpreted(next), Interpreted(last)>>)
  <2> DEFINE values == <<Interpreted(word), Interpreted(next), Interpreted(last)>>
             words == <<word, next, last>>
  <2>1. \A index \in {1, 2, 3} : IsWord(program, words[index]) /\ values[index] = Interpreted(words[index])
    BY <1>5
  <2> QED BY <1>1, <1>5, <2>1, Tuples, Zenon DEF IsStep
<1> QED BY <1>2, <1>3, <1>4, <1>5

\* What holds before a step and of the invariant after it.
Stepping == Inv /\ Inv' /\ Room /\ Room' /\ Typed /\ Exact

\* Variables may stay as they are.
LEMMA VariablesStay ==
    ASSUME Typed, program' = program, variables' = variables
    PROVE  /\ variables' = [letter \in Letters |-> variables'[letter]]
           /\ \A letter \in Letters : IsWord(program, variables'[letter])
           /\ Contents' = Contents
BY DEF Typed, Contents

\* An element whose words are known does what the interpreter does.
LEMMA ElementSame ==
    ASSUME Stepping, NEW symbols, At(symbols), Advance, variables' = variables,
           NEW count, NEW length, NEW words, NEW values, IsStep(count, length, words, values)
    PROVE  /\ Interpreter!At(symbols) /\ Interpreter!Replace(count, values) /\ Interpreter!Advance
           /\ Contents' = Contents /\ Typed'
<1>1. Interpreter!At(symbols) /\ AtElement /\ program' = program
  BY AtSame DEF Stepping
<1> QED BY <1>1, VariablesStay, StepSame DEF Stepping

\* Literals are elements of the program.
LEMMA LiteralSame ==
    ASSUME Stepping, Literal
    PROVE  Interpreter!Literal /\ Typed'
<1> DEFINE argument == Elements[pc.at].argument
           word == IF Symbol = "Integer" THEN Word(argument) ELSE Value(Symbol, argument)
<1>1. At(Literals) /\ Replace(0, <<word>>) /\ Advance /\ UNCHANGED <<variables, output>>
  BY DEF Literal
<1>2. /\ AtElement /\ Symbol \in Literals /\ Begins(Stack, Expected(Elements[pc.at]))
      /\ Interpreter!Elements[Interpreter!Current.at] = Elements[pc.at]
  BY <1>1, AtSame DEF Stepping
<1>3. IsWord(program, word) /\ Interpreted(word) = Value(Symbol, argument)
  <2>1. program \in Programs /\ pc.function \in DOMAIN program /\ pc.at \in DOMAIN program[pc.function]
        /\ Symbol = program[pc.function][pc.at].symbol /\ argument = program[pc.function][pc.at].argument
    BY <1>2 DEF Stepping, Typed, AtElement, Elements, Symbol
  <2>2. /\ Symbol = "Variable" => argument \in Letters
        /\ Symbol = "Function" => argument \in DOMAIN program \ {Main}
    BY <2>1, ProgramsAssumption
  <2>3. Symbol = "Integer" => InRange(argument)
    BY <1>2 DEF Stepping, Exact
  <2> HIDE DEF argument
  <2>4. CASE Symbol = "Integer"
    <3>1. word = Word(argument)
      BY <2>4
    <3>2. Word(argument) = Integer(Word(argument).value) /\ Word(argument).value \in 0 .. Size - 1
          /\ Interpreted(Word(argument)) = Integer(argument)
      BY <2>3, <2>4, WordBack
    <3> QED BY <2>4, <3>1, <3>2 DEF IsWord, Integer
  <2>5. CASE Symbol # "Integer"
    <3>1. word = Value(Symbol, argument) /\ Symbol \in {"Variable", "Function"}
      BY <1>2, <2>5 DEF Literals
    <3>2. word.type = Symbol /\ word.value = argument
      BY <3>1 DEF Value
    <3>3. IsWord(program, word)
      BY <2>2, <3>1, <3>2 DEF IsWord
    <3> QED BY <2>5, <3>1, <3>2, <3>3 DEF Interpreted
  <2> QED BY <2>4, <2>5
<1> HIDE DEF word, argument
<1>4. IsStep(0, 1, <<word>>, <<Interpreted(word)>>)
  <2>1. sp + 0 <= Bottom /\ 0 \in Nat /\ Inv
    BY <1>2, BottomNat DEF Stepping, Inv, IsAbove, AtElement
  <2> QED BY <1>1, <1>3, <2>1, StepsTaken
<1>5. /\ Interpreter!At(Literals) /\ Interpreter!Replace(0, <<Interpreted(word)>>) /\ Interpreter!Advance
      /\ Contents' = Contents /\ Typed'
  BY <1>1, <1>4, ElementSame
<1>6. Interpreter!Value(Interpreter!Elements[Interpreter!Current.at].symbol, Interpreter!Argument) = Interpreted(word)
  BY <1>2, <1>3, SameElements DEF Interpreter!Argument, Symbol, argument
<1> QED BY <1>1, <1>5, <1>6, SameElements DEF Interpreter!Literal

\* What the elements find.
LEMMA Found ==
    ASSUME Stepping, NEW symbols, At(symbols)
    PROVE  /\ sp + 0 <= Bottom
           /\ Symbol \in {"Dereference", "Call", "Negate", "Not", "Put", "Select", "Delete", "Duplicate"} =>
                sp + 1 <= Bottom /\ IsWord(program, Peek(1)) /\ Interpreter!Top(1) = Interpreted(Peek(1))
           /\ Symbol \in {"Assign", "If", "While", "Equal", "Swap"} \cup Operations =>
                /\ sp + 2 <= Bottom
                /\ \A index \in {1, 2} : IsWord(program, Peek(index)) /\ Interpreter!Top(index) = Interpreted(Peek(index))
           /\ Symbol = "Rotate" =>
                /\ sp + 3 <= Bottom
                /\ \A index \in {1, 2, 3} :
                    IsWord(program, Peek(index)) /\ Interpreter!Top(index) = Interpreted(Peek(index))
           /\ Symbol \in {"Assign", "Dereference"} => Peek(1).type = "Variable"
           /\ Symbol \in {"Call", "If", "While"} => Peek(1).type = "Function"
           /\ Symbol = "While" => Peek(2).type = "Function"
           /\ Symbol \in {"Negate", "Not", "Put", "Select"} \cup Operations => Peek(1).type = "Integer"
           /\ Symbol \in Operations \cup {"If"} => Peek(2).type = "Integer"
<1>1. AtElement /\ Begins(Stack, Expected(Elements[pc.at])) /\ Inv /\ Typed
  BY AtSame DEF Stepping
<1> DEFINE types == Expected(Elements[pc.at])
           Are(length) == /\ sp + length <= Bottom
                          /\ \A index \in 1 .. length :
                                /\ IsWord(program, Peek(index)) /\ Interpreter!Top(index) = Interpreted(Peek(index))
                                /\ types[index] = "Any" \/ types[index] = Peek(index).type
<1>2. ASSUME NEW length \in Nat, IsSequence(types, length)
      PROVE  Are(length)
  BY <1>1, <1>2, ExpectedFound
<1>3. sp + 0 <= Bottom
  BY <1>1, BottomNat DEF Inv, IsAbove, AtElement
<1>4. 1 .. 1 = {1} /\ 1 .. 2 = {1, 2} /\ 1 .. 3 = {1, 2, 3} /\ 1 \in Nat /\ 2 \in Nat /\ 3 \in Nat
  OBVIOUS
<1>5. ASSUME NEW first, types = <<first>>
      PROVE  /\ sp + 1 <= Bottom /\ IsWord(program, Peek(1)) /\ Interpreter!Top(1) = Interpreted(Peek(1))
             /\ first = "Any" \/ first = Peek(1).type
  <2> HIDE DEF types, Are
  <2>1. IsSequence(types, 1) /\ types[1] = first
    BY <1>5, Tuples, Zenon
  <2> USE DEF Are
  <2> QED BY <1>2, <1>4, <2>1
<1>6. ASSUME NEW first, NEW second, types = <<first, second>>
      PROVE  /\ sp + 2 <= Bottom
             /\ \A index \in {1, 2} : IsWord(program, Peek(index)) /\ Interpreter!Top(index) = Interpreted(Peek(index))
             /\ first = "Any" \/ first = Peek(1).type
             /\ second = "Any" \/ second = Peek(2).type
  <2> HIDE DEF types, Are
  <2>1. IsSequence(types, 2) /\ types[1] = first /\ types[2] = second
    <3>1. IsSequence(<<first, second>>, 2)
      BY Tuples
    <3>2. <<first, second>>[1] = first /\ <<first, second>>[2] = second
      OBVIOUS
    <3> QED BY <1>6, <3>1, <3>2, Zenon
  <2> USE DEF Are
  <2> QED BY <1>2, <1>4, <2>1
<1>7. ASSUME NEW first, NEW second, NEW third, types = <<first, second, third>>
      PROVE  /\ sp + 3 <= Bottom
             /\ \A index \in {1, 2, 3} : IsWord(program, Peek(index)) /\ Interpreter!Top(index) = Interpreted(Peek(index))
  <2>1. IsSequence(types, 3)
    BY <1>7, Tuples
  <2> HIDE DEF types
  <2> QED BY <1>2, <1>4, <2>1
<1> HIDE DEF types, Are
<1>8. /\ Symbol = "Assign" => types = <<"Variable", "Any">>
      /\ Symbol = "Dereference" => types = <<"Variable">>
      /\ Symbol = "Call" => types = <<"Function">>
      /\ Symbol = "If" => types = <<"Function", "Integer">>
      /\ Symbol = "While" => types = <<"Function", "Function">>
      /\ Symbol \in {"Negate", "Not", "Put", "Select"} => types = <<"Integer">>
      /\ Symbol \in Operations => types = <<"Integer", "Integer">>
      /\ Symbol \in {"Equal", "Swap"} => types = <<"Any", "Any">>
      /\ Symbol \in {"Delete", "Duplicate"} => types = <<"Any">>
      /\ Symbol = "Rotate" => types = <<"Any", "Any", "Any">>
  BY Expecting, Zenon DEF types, Symbol
<1>9. CASE Symbol \in {"Negate", "Not", "Put", "Select"}
  BY <1>3, <1>5, <1>8, <1>9 DEF Operations
<1>10. CASE Symbol \in {"Delete", "Duplicate"}
  BY <1>3, <1>5, <1>8, <1>10 DEF Operations
<1>11. CASE Symbol = "Dereference"
  BY <1>3, <1>5, <1>8, <1>11 DEF Operations
<1>12. CASE Symbol = "Call"
  BY <1>3, <1>5, <1>8, <1>12 DEF Operations
<1>13. CASE Symbol \in Operations
  BY <1>3, <1>6, <1>8, <1>13 DEF Operations
<1>14. CASE Symbol \in {"Equal", "Swap"}
  BY <1>3, <1>6, <1>8, <1>14 DEF Operations
<1>15. CASE Symbol = "Assign"
  BY <1>3, <1>6, <1>8, <1>15 DEF Operations
<1>16. CASE Symbol = "If"
  BY <1>3, <1>6, <1>8, <1>16 DEF Operations
<1>17. CASE Symbol = "While"
  BY <1>3, <1>6, <1>8, <1>17 DEF Operations
<1>18. CASE Symbol = "Rotate"
  BY <1>3, <1>7, <1>8, <1>18 DEF Operations
<1>19. CASE Symbol \notin Operations \cup {"Assign", "Dereference", "Call", "If", "While", "Negate", "Not", "Put",
                                          "Select", "Equal", "Swap", "Delete", "Duplicate", "Rotate"}
  BY <1>3, <1>19
<1> QED BY <1>9, <1>10, <1>11, <1>12, <1>13, <1>14, <1>15, <1>16, <1>17, <1>18, <1>19

\* Different words are different values.
LEMMA WordsDiffer ==
    ASSUME NEW some, NEW word, NEW other, IsWord(some, word), IsWord(some, other)
    PROVE  /\ Interpreted(word) = Interpreted(other) <=> word = other
           /\ Interpreted(word) = Void <=> word = Void
<1>1. Void.type = "Void" /\ \A value : Integer(value).type = "Integer" /\ Integer(value).value = value
  BY DEF Void, Integer, Value
<1>2. Interpreted(word).type = word.type /\ Interpreted(other).type = other.type
  BY TypesInterpreted
<1>3. /\ word.type # "Integer" => Interpreted(word) = word
      /\ other.type # "Integer" => Interpreted(other) = other
  BY WordFound
<1>4. word.type = "Integer" =>
        word.value \in 0 .. Size - 1 /\ word = Integer(word.value) /\ Interpreted(word).value = AsInteger(word)
  BY WordFound
<1>5. other.type = "Integer" =>
        other.value \in 0 .. Size - 1 /\ other = Integer(other.value) /\ Interpreted(other).value = AsInteger(other)
  BY WordFound
<1>6. word.type = "Integer" /\ other.type = "Integer" /\ Interpreted(word) = Interpreted(other) => word = other
  BY <1>4, <1>5, WordsApart
<1> QED BY <1>1, <1>2, <1>3, <1>6

\* A variable is assigned the word below it.
LEMMA AssignSame ==
    ASSUME Stepping, Assign
    PROVE  Interpreter!Assign /\ Typed'
<1> DEFINE variable == Peek(1).value
           word == Peek(2)
<1>1. /\ At({"Assign"}) /\ variables' = [variables EXCEPT ![variable] = word]
      /\ Replace(2, <<>>) /\ Advance /\ output' = output
  BY DEF Assign
<1>2. AtElement /\ Symbol = "Assign" /\ program' = program /\ Interpreter!At({"Assign"})
  BY <1>1, AtSame DEF Stepping
<1>3. /\ sp + 2 <= Bottom /\ IsWord(program, Peek(1)) /\ IsWord(program, word) /\ Peek(1).type = "Variable"
      /\ Interpreter!Top(1) = Interpreted(Peek(1)) /\ Interpreter!Top(2) = Interpreted(word)
  BY <1>1, <1>2, Found
<1>4. variable \in Letters /\ Interpreter!Top(1).value = variable
  BY <1>3, WordFound
<1> HIDE DEF variable, word
<1>5. /\ variables = [letter \in Letters |-> variables[letter]]
      /\ \A letter \in Letters : IsWord(program, variables[letter])
  BY DEF Stepping, Typed
<1>6. /\ variables' = [letter \in Letters |-> variables'[letter]]
      /\ \A letter \in Letters : variables'[letter] = IF letter = variable THEN word ELSE variables[letter]
  BY <1>1, <1>4, <1>5
<1>7. Contents' = [Contents EXCEPT ![variable] = Interpreted(word)]
  <2>1. Contents' = [letter \in Letters |-> Interpreted(variables'[letter])]
    BY DEF Contents
  <2> QED BY <1>4, <1>6, <2>1 DEF Contents
<1>8. IsStep(2, 0, <<>>, <<>>)
  BY <1>1, <1>3, StepsTaken DEF Stepping
<1>9. \A letter \in Letters : IsWord(program, variables'[letter])
  BY <1>3, <1>5, <1>6
<1>10. Interpreter!Replace(2, <<>>) /\ Interpreter!Advance /\ Typed'
  <2>1. variables' = [letter \in Letters |-> variables'[letter]]
    BY <1>6
  <2> QED BY <1>1, <1>2, <1>8, <1>9, <2>1, StepSame DEF Stepping
<1> QED BY <1>1, <1>2, <1>3, <1>4, <1>7, <1>10, Zenon DEF Interpreter!Assign

\* A variable is replaced by its word.
LEMMA DereferenceSame ==
    ASSUME Stepping, Dereference
    PROVE  Interpreter!Dereference /\ Typed'
<1> DEFINE word == variables[Peek(1).value]
<1>1. At({"Dereference"}) /\ Replace(1, <<word>>) /\ Advance /\ variables' = variables /\ output' = output
  BY DEF Dereference
<1>2. Symbol = "Dereference"
  BY <1>1 DEF At
<1>3. /\ sp + 1 <= Bottom /\ IsWord(program, Peek(1)) /\ Peek(1).type = "Variable"
      /\ Interpreter!Top(1) = Interpreted(Peek(1))
  BY <1>1, <1>2, Found
<1>4. Peek(1).value \in Letters /\ Interpreter!Top(1).value = Peek(1).value
  BY <1>3, WordFound
<1>5. IsWord(program, word) /\ Contents[Interpreter!Top(1).value] = Interpreted(word)
  BY <1>4 DEF Stepping, Typed, Contents
<1> HIDE DEF word
<1>6. IsStep(1, 1, <<word>>, <<Interpreted(word)>>)
  BY <1>1, <1>3, <1>5, StepsTaken DEF Stepping
<1>7. /\ Interpreter!At({"Dereference"}) /\ Interpreter!Replace(1, <<Interpreted(word)>>) /\ Interpreter!Advance
      /\ Contents' = Contents /\ Typed'
  BY <1>1, <1>6, ElementSame
<1> QED BY <1>1, <1>5, <1>7 DEF Interpreter!Dereference

\* Negation is exact, and complements are those of truth values.
LEMMA UnarySame ==
    ASSUME Stepping, Unary
    PROVE  Interpreter!Unary /\ Typed'
<1> DEFINE top == AsInteger(Peek(1))
           Computed(mnemonic) == Code!ComputeUnary(mnemonic, IntegerType, top)
<1>1. /\ Advance /\ variables' = variables /\ output' = output
      /\ \/ At({"Negate"}) /\ Replace(1, <<Word(Computed("NEG"))>>)
         \/ At({"Not"}) /\ Replace(1, <<Word(Computed("NOT") % 2)>>)
  BY DEF Unary
<1>2. ASSUME NEW symbol \in {"Negate", "Not"}, At({symbol})
      PROVE  /\ sp + 1 <= Bottom /\ Symbol = symbol /\ AtElement /\ Begins(Stack, Expected(Elements[pc.at]))
             /\ InRange(top) /\ Interpreter!Top(1).value = top
  <2>1. Symbol = symbol /\ AtElement /\ Begins(Stack, Expected(Elements[pc.at]))
    BY <1>2, AtSame DEF Stepping
  <2>2. sp + 1 <= Bottom /\ IsWord(program, Peek(1)) /\ Interpreter!Top(1) = Interpreted(Peek(1))
        /\ Peek(1).type = "Integer"
    BY <1>2, <2>1, Found
  <2> QED BY <2>1, <2>2, WordFound
<1>3. CASE At({"Negate"}) /\ Replace(1, <<Word(Computed("NEG"))>>)
  <2> DEFINE word == Word(Computed("NEG"))
  <2>1. sp + 1 <= Bottom /\ InRange(-top) /\ Interpreter!Top(1).value = top
    BY <1>2, <1>3 DEF Stepping, Exact
  <2>2. word = Word(-top)
    BY <2>1, Negation
  <2>3. IsWord(program, word) /\ Interpreted(word) = Integer(-top)
    BY <2>1, <2>2, WordBack DEF IsWord
  <2> HIDE DEF word
  <2>4. IsStep(1, 1, <<word>>, <<Interpreted(word)>>)
    BY <1>3, <2>1, <2>3, StepsTaken DEF Stepping, word
  <2>5. /\ Interpreter!At({"Negate"}) /\ Interpreter!Replace(1, <<Interpreted(word)>>) /\ Interpreter!Advance
        /\ Contents' = Contents /\ Typed'
    BY <1>1, <1>3, <2>4, ElementSame
  <2> QED BY <1>1, <2>1, <2>3, <2>5, SameElements DEF Interpreter!Unary
<1>4. CASE At({"Not"}) /\ Replace(1, <<Word(Computed("NOT") % 2)>>)
  <2> DEFINE word == Word(Computed("NOT") % 2)
  <2>1. sp + 1 <= Bottom /\ top \in {0, 1} /\ Interpreter!Top(1).value = top
    BY <1>2, <1>4 DEF Stepping, Exact
  <2>2. word = Boolean(top = 0)
    BY <2>1, Complement
  <2>3. IsWord(program, word) /\ Interpreted(word) = Boolean(top = 0)
    BY <2>2, Booleans DEF IsWord
  <2> HIDE DEF word
  <2>4. IsStep(1, 1, <<word>>, <<Interpreted(word)>>)
    BY <1>4, <2>1, <2>3, StepsTaken DEF Stepping, word
  <2>5. /\ Interpreter!At({"Not"}) /\ Interpreter!Replace(1, <<Interpreted(word)>>) /\ Interpreter!Advance
        /\ Contents' = Contents /\ Typed'
    BY <1>1, <1>4, <2>4, ElementSame
  <2> QED BY <1>1, <2>1, <2>3, <2>5, SameElements DEF Interpreter!Unary
<1> QED BY <1>1, <1>3, <1>4

\* What two integers on the stack are to the interpreter.
LEMMA Integers2 ==
    ASSUME Stepping, NEW symbols, At(symbols), Symbol \in Operations
    PROVE  LET top == AsInteger(Peek(1))
               next == AsInteger(Peek(2))
           IN  /\ sp + 2 <= Bottom /\ AtElement /\ Begins(Stack, Expected(Elements[pc.at]))
               /\ InRange(top) /\ InRange(next)
               /\ Interpreter!Top(1).value = top /\ Interpreter!Top(2).value = next
               /\ Interpreter!Elements[Interpreter!Current.at].symbol = Symbol
<1>1. /\ AtElement /\ Begins(Stack, Expected(Elements[pc.at]))
      /\ Interpreter!Elements[Interpreter!Current.at] = Elements[pc.at]
  BY AtSame DEF Stepping
<1>2. /\ sp + 2 <= Bottom /\ Peek(1).type = "Integer" /\ Peek(2).type = "Integer"
      /\ \A index \in {1, 2} : IsWord(program, Peek(index)) /\ Interpreter!Top(index) = Interpreted(Peek(index))
  BY Found
<1> QED BY <1>1, <1>2, WordFound DEF Symbol

\* The instance has the same operations on integers.
LEMMA SameOperations ==
    \A value1, value2 :
        /\ Interpreter!Operation("Add", value1, value2) = Integer(value1 + value2)
        /\ Interpreter!Operation("Subtract", value1, value2) = Integer(value1 - value2)
        /\ Interpreter!Operation("Multiply", value1, value2) = Integer(value1 * value2)
        /\ Interpreter!Operation("Divide", value1, value2) = Integer(Code!Quotient(value1, value2))
        /\ Interpreter!Operation("And", value1, value2) = Boolean(value1 # 0 /\ value2 # 0)
        /\ Interpreter!Operation("Or", value1, value2) = Boolean(value1 # 0 \/ value2 # 0)
        /\ Interpreter!Operation("Greater", value1, value2) = Boolean(value1 > value2)
<1>1. \A value1, value2 : Interpreter!Quotient(value1, value2) = Code!Quotient(value1, value2)
  BY Zenon DEF Interpreter!Quotient, Code!Quotient, Interpreter!Magnitude, Code!Magnitude
<1> QED BY <1>1, SameElements DEF Interpreter!Operation

\* Operations on integers are exact.
LEMMA BinarySame ==
    ASSUME Stepping, EmitBinary
    PROVE  Interpreter!Binary /\ Typed'
<1> DEFINE top == AsInteger(Peek(1))
           next == AsInteger(Peek(2))
           computed == Code!Compute(Mnemonic(Symbol), IntegerType, next, top)
           word == Word(computed)
           value == Interpreter!Operation(Symbol, next, top)
<1>1. /\ At(Operations \ {"Greater"}) /\ Replace(2, <<word>>) /\ Advance
      /\ variables' = variables /\ output' = output
  BY DEF EmitBinary
<1>2. Symbol \in Operations \ {"Greater"} /\ At(Operations)
  BY <1>1 DEF At
<1>3. /\ sp + 2 <= Bottom /\ AtElement /\ Begins(Stack, Expected(Elements[pc.at]))
      /\ InRange(top) /\ InRange(next)
      /\ Interpreter!Top(1).value = top /\ Interpreter!Top(2).value = next
      /\ Interpreter!Elements[Interpreter!Current.at].symbol = Symbol
  BY <1>2, Integers2
<1>4. /\ Symbol \in {"And", "Or"} => top \in {0, 1} /\ next \in {0, 1}
      /\ Symbol = "Add" => InRange(next + top)
      /\ Symbol = "Subtract" => InRange(next - top)
      /\ Symbol = "Multiply" => InRange(next * top)
      /\ Symbol = "Divide" => InRange(Code!Quotient(next, top))
  BY <1>3 DEF Stepping, Exact
<1>5. IsWord(program, word) /\ Interpreted(word) = value
  <2> HIDE DEF top, next
  <2>1. ASSUME NEW some, InRange(some), computed = some, value = Integer(some)
        PROVE  IsWord(program, word) /\ Interpreted(word) = value
    BY <2>1, WordBack DEF IsWord
  <2>2. CASE Symbol = "Add"
    <3>1. InRange(next + top) /\ computed = next + top /\ value = Integer(next + top)
      BY <1>4, <2>2, Computations, SameOperations DEF Mnemonic
    <3> QED BY <2>1, <3>1
  <2>3. CASE Symbol = "Subtract"
    <3>1. InRange(next - top) /\ computed = next - top /\ value = Integer(next - top)
      BY <1>4, <2>3, Computations, SameOperations DEF Mnemonic
    <3> QED BY <2>1, <3>1
  <2>4. CASE Symbol = "Multiply"
    <3>1. InRange(next * top) /\ computed = next * top /\ value = Integer(next * top)
      BY <1>4, <2>4, Computations, SameOperations DEF Mnemonic
    <3> QED BY <2>1, <3>1
  <2>5. CASE Symbol = "Divide"
    <3>1. InRange(Code!Quotient(next, top)) /\ computed = Code!Quotient(next, top)
          /\ value = Integer(Code!Quotient(next, top))
      BY <1>4, <2>5, Computations, SameOperations DEF Mnemonic
    <3> QED BY <2>1, <3>1
  <2>6. CASE Symbol \in {"And", "Or"}
    <3>1. top \in {0, 1} /\ next \in {0, 1}
      BY <1>4, <2>6
    <3>2. Symbol = "And" => value = Boolean(next # 0 /\ top # 0) /\ Integer(computed) = Boolean(next # 0 /\ top # 0)
      BY <3>1, Computations, SameOperations DEF Mnemonic
    <3>3. Symbol = "Or" => value = Boolean(next # 0 \/ top # 0) /\ Integer(computed) = Boolean(next # 0 \/ top # 0)
      BY <3>1, Computations, SameOperations DEF Mnemonic
    <3>4. Integer(computed) = value /\ (value = Integer(0) \/ value = Integer(1))
      BY <2>6, <3>2, <3>3 DEF Boolean
    <3>5. computed = 0 \/ computed = 1
      BY <3>4 DEF Integer, Value
    <3>6. InRange(0) /\ InRange(1)
      BY Sizes
    <3> QED BY <2>1, <3>4, <3>5, <3>6
  <2> QED BY <1>2, <2>2, <2>3, <2>4, <2>5, <2>6 DEF Operations
<1> HIDE DEF word, value
<1>6. IsStep(2, 1, <<word>>, <<Interpreted(word)>>)
  BY <1>1, <1>3, <1>5, StepsTaken DEF Stepping
<1>7. /\ Interpreter!At(Operations) /\ Interpreter!Replace(2, <<value>>) /\ Interpreter!Advance
      /\ Contents' = Contents /\ Typed'
  BY <1>1, <1>2, <1>5, <1>6, ElementSame
<1> QED BY <1>1, <1>3, <1>7, SameElements DEF Interpreter!Binary, value

\* The words that are compared by their order differ, others are of one type.
LEMMA ComparisonSame ==
    ASSUME Stepping, EmitComparison
    PROVE  (Interpreter!Equal \/ Interpreter!Binary) /\ Typed'
<1> DEFINE top == Peek(1)
           next == Peek(2)
<1>1. /\ Advance /\ variables' = variables /\ output' = output
      /\ \/ At({"Equal"}) /\ \E equal \in Equals(next, top) : Replace(2, <<Boolean(equal)>>)
         \/ At({"Greater"}) /\ Replace(2, <<Boolean(~(AsInteger(next) < AsInteger(top)))>>)
  BY DEF EmitComparison
<1>2. \A condition : IsWord(program, Boolean(condition)) /\ Interpreted(Boolean(condition)) = Boolean(condition)
  BY Booleans DEF IsWord
<1>3. CASE At({"Equal"}) /\ \E equal \in Equals(next, top) : Replace(2, <<Boolean(equal)>>)
  <2> DEFINE word == Boolean(next = top)
  <2>1. AtElement /\ Symbol = "Equal" /\ Begins(Stack, Expected(Elements[pc.at]))
    BY <1>3, AtSame DEF Stepping
  <2>2. sp + 2 <= Bottom /\ IsWord(program, top) /\ IsWord(program, next)
        /\ Interpreter!Top(1) = Interpreted(top) /\ Interpreter!Top(2) = Interpreted(next)
    BY <1>3, <2>1, Found
  <2>3. top.type = next.type /\ top # Void
    BY <2>1 DEF Stepping, Exact
  <2>4. Replace(2, <<word>>)
    BY <1>3, <2>3 DEF Equals
  <2>5. Interpreter!Boolean(Interpreter!Top(1) = Interpreter!Top(2) /\ Interpreter!Top(1) # Interpreter!Void) = word
    <3>1. (Interpreter!Top(1) = Interpreter!Top(2) /\ Interpreter!Top(1) # Interpreter!Void) <=> next = top
      BY <2>2, <2>3, WordsDiffer, SameElements
    <3> QED BY <3>1, SameElements DEF Boolean
  <2>6. IsWord(program, word) /\ Interpreted(word) = word
    BY <1>2
  <2> HIDE DEF word
  <2>7. IsStep(2, 1, <<word>>, <<Interpreted(word)>>)
    BY <2>2, <2>4, <2>6, StepsTaken DEF Stepping
  <2>8. /\ Interpreter!At({"Equal"}) /\ Interpreter!Replace(2, <<word>>) /\ Interpreter!Advance
        /\ Contents' = Contents /\ Typed'
    BY <1>1, <1>3, <2>6, <2>7, ElementSame
  <2> QED BY <1>1, <2>5, <2>8 DEF Interpreter!Equal
<1>4. CASE At({"Greater"}) /\ Replace(2, <<Boolean(~(AsInteger(next) < AsInteger(top)))>>)
  <2> DEFINE word == Boolean(~(AsInteger(next) < AsInteger(top)))
  <2>1. Symbol = "Greater" /\ At(Operations) /\ Symbol \in Operations
    BY <1>4 DEF At, Operations
  <2>2. /\ sp + 2 <= Bottom /\ AtElement /\ Begins(Stack, Expected(Elements[pc.at]))
        /\ InRange(AsInteger(top)) /\ InRange(AsInteger(next))
        /\ Interpreter!Top(1).value = AsInteger(top) /\ Interpreter!Top(2).value = AsInteger(next)
        /\ Interpreter!Elements[Interpreter!Current.at].symbol = Symbol
    BY <2>1, Integers2
  <2>3. AsInteger(top) # AsInteger(next)
    BY <2>1, <2>2 DEF Stepping, Exact
  <2>4. Interpreter!Operation("Greater", AsInteger(next), AsInteger(top)) = word
    <3>1. AsInteger(next) > AsInteger(top) <=> ~(AsInteger(next) < AsInteger(top))
      BY <2>2, <2>3, Sizes
    <3> QED BY <3>1, SameOperations DEF Boolean
  <2>5. IsWord(program, word) /\ Interpreted(word) = word
    BY <1>2
  <2> HIDE DEF word
  <2>6. IsStep(2, 1, <<word>>, <<Interpreted(word)>>)
    BY <1>4, <2>2, <2>5, StepsTaken DEF Stepping, word
  <2>7. /\ Interpreter!At(Operations) /\ Interpreter!Replace(2, <<word>>) /\ Interpreter!Advance
        /\ Contents' = Contents /\ Typed'
    BY <1>1, <2>1, <2>5, <2>6, ElementSame
  <2> QED BY <1>1, <2>1, <2>2, <2>4, <2>7, SameElements DEF Interpreter!Binary
<1> QED BY <1>1, <1>3, <1>4

\* A value that is selected is counted from the top of the stack.
LEMMA SelectSame ==
    ASSUME Stepping, At({"Select"}), Replace(1, <<Peek(Peek(1).value + 2)>>)
    PROVE  LET word == Peek(Peek(1).value + 2)
           IN  /\ IsStep(1, 1, <<word>>, <<Interpreted(word)>>)
               /\ Interpreter!Top(Interpreter!Top(1).value + 2) = Interpreted(word)
<1> DEFINE index == Peek(1).value + 2
           word == Peek(index)
<1>1. AtElement /\ Symbol = "Select" /\ Begins(Stack, Expected(Elements[pc.at])) /\ Inv /\ Typed
  BY AtSame DEF Stepping
<1>2. /\ sp + 1 <= Bottom /\ IsWord(program, Peek(1)) /\ Interpreter!Top(1) = Interpreted(Peek(1))
      /\ Peek(1).type = "Integer"
  BY <1>1, Found
<1>3. Peek(1).value \in 0 .. Size - 1 /\ Interpreter!Top(1).value = AsInteger(Peek(1)) /\ Size \in Nat
  BY <1>2, WordFound, Sizes
<1>4. AsInteger(Peek(1)) >= 0
  BY <1>1 DEF Stepping, Exact
<1>5. AsInteger(Peek(1)) = Peek(1).value
  BY <1>3, <1>4, WordsApart
<1>6. index \in 1 .. Bottom - sp
  <2>1. ~(Stack[1].value >= Len(Stack) - 1)
    BY <1>1 DEF At, FailsOn, Symbol
  <2>2. Len(Stack) = Bottom - sp /\ Bottom - sp \in Nat /\ 1 \in 1 .. Bottom - sp
    <3>1. IsSequence(Stack, Bottom - sp) /\ sp \in Int
      BY <1>1, ValuesFound DEF AtElement
    <3>2. Bottom - sp \in Nat /\ Len(Stack) = Bottom - sp
      BY <3>1, Sequences
    <3> QED BY <1>2, <3>1, <3>2, BottomNat
  <2>3. Stack[1] = Peek(1)
    BY <1>1, <2>2, ValuesFound DEF AtElement
  <2> QED BY <1>3, <2>1, <2>2, <2>3
<1>7. IsWord(program, word) /\ Interpreter!Top(index) = Interpreted(word)
  BY <1>1, <1>6, PeekTyped, ValuesFound DEF AtElement
<1>8. IsStep(1, 1, <<word>>, <<Interpreted(word)>>)
  BY <1>1, <1>2, <1>7, StepsTaken
<1> QED BY <1>3, <1>5, <1>7, <1>8

\* Words on the stack are arranged as the values are.
LEMMA ArrangeSame ==
    ASSUME Stepping, Arrange
    PROVE  Interpreter!Arrange /\ Typed'
<1>1. /\ Advance /\ variables' = variables /\ output' = output
      /\ \/ At({"Duplicate"}) /\ Replace(0, <<Peek(1)>>)
         \/ At({"Delete"}) /\ Replace(1, <<>>)
         \/ At({"Swap"}) /\ Replace(2, <<Peek(1), Peek(2)>>)
         \/ At({"Rotate"}) /\ Replace(3, <<Peek(2), Peek(1), Peek(3)>>)
         \/ At({"Select"}) /\ Replace(1, <<Peek(Peek(1).value + 2)>>)
  BY DEF Arrange
<1>2. ASSUME NEW symbol, At({symbol})
      PROVE  Symbol = symbol /\ Inv
  BY <1>2 DEF At, Stepping
<1>3. ASSUME NEW symbol, At({symbol}),
             NEW count, NEW length, NEW words, NEW values, IsStep(count, length, words, values)
      PROVE  /\ Interpreter!At({symbol}) /\ Interpreter!Replace(count, values) /\ Interpreter!Advance
             /\ Contents' = Contents /\ Typed'
  BY <1>1, <1>3, ElementSame
<1> DEFINE first == Peek(1)
           second == Peek(2)
           third == Peek(3)
<1>4. CASE At({"Duplicate"}) /\ Replace(0, <<first>>)
  <2>1. sp + 0 <= Bottom /\ IsWord(program, first) /\ Interpreter!Top(1) = Interpreted(first)
    BY <1>2, <1>4, Found
  <2> HIDE DEF first
  <2>2. IsStep(0, 1, <<first>>, <<Interpreted(first)>>)
    BY <1>2, <1>4, <2>1, StepsTaken
  <2>3. /\ Interpreter!At({"Duplicate"}) /\ Interpreter!Replace(0, <<Interpreted(first)>>) /\ Interpreter!Advance
        /\ Contents' = Contents /\ Typed'
    BY <1>3, <1>4, <2>2
  <2> QED BY <1>1, <2>1, <2>3 DEF Interpreter!Arrange
<1>5. CASE At({"Delete"}) /\ Replace(1, <<>>)
  <2>1. sp + 1 <= Bottom
    BY <1>2, <1>5, Found
  <2>2. IsStep(1, 0, <<>>, <<>>)
    BY <1>2, <1>5, <2>1, StepsTaken
  <2>3. /\ Interpreter!At({"Delete"}) /\ Interpreter!Replace(1, <<>>) /\ Interpreter!Advance
        /\ Contents' = Contents /\ Typed'
    BY <1>3, <1>5, <2>2
  <2> QED BY <1>1, <2>3 DEF Interpreter!Arrange
<1>6. CASE At({"Swap"}) /\ Replace(2, <<first, second>>)
  <2>1. sp + 2 <= Bottom
        /\ IsWord(program, first) /\ Interpreter!Top(1) = Interpreted(first)
        /\ IsWord(program, second) /\ Interpreter!Top(2) = Interpreted(second)
    BY <1>2, <1>6, Found
  <2> HIDE DEF first, second
  <2>2. IsStep(2, 2, <<first, second>>, <<Interpreted(first), Interpreted(second)>>)
    BY <1>2, <1>6, <2>1, StepsTaken
  <2>3. /\ Interpreter!At({"Swap"}) /\ Interpreter!Replace(2, <<Interpreted(first), Interpreted(second)>>)
        /\ Interpreter!Advance /\ Contents' = Contents /\ Typed'
    BY <1>3, <1>6, <2>2
  <2> QED BY <1>1, <2>1, <2>3 DEF Interpreter!Arrange
<1>7. CASE At({"Rotate"}) /\ Replace(3, <<second, first, third>>)
  <2>1. sp + 3 <= Bottom
        /\ IsWord(program, first) /\ Interpreter!Top(1) = Interpreted(first)
        /\ IsWord(program, second) /\ Interpreter!Top(2) = Interpreted(second)
        /\ IsWord(program, third) /\ Interpreter!Top(3) = Interpreted(third)
    BY <1>2, <1>7, Found
  <2> HIDE DEF first, second, third
  <2>2. IsStep(3, 3, <<second, first, third>>, <<Interpreted(second), Interpreted(first), Interpreted(third)>>)
    BY <1>2, <1>7, <2>1, StepsTaken
  <2>3. /\ Interpreter!At({"Rotate"})
        /\ Interpreter!Replace(3, <<Interpreted(second), Interpreted(first), Interpreted(third)>>)
        /\ Interpreter!Advance /\ Contents' = Contents /\ Typed'
    BY <1>3, <1>7, <2>2
  <2> QED BY <1>1, <2>1, <2>3 DEF Interpreter!Arrange
<1>8. CASE At({"Select"}) /\ Replace(1, <<Peek(Peek(1).value + 2)>>)
  <2> DEFINE word == Peek(Peek(1).value + 2)
  <2>1. /\ IsStep(1, 1, <<word>>, <<Interpreted(word)>>)
        /\ Interpreter!Top(Interpreter!Top(1).value + 2) = Interpreted(word)
    BY <1>8, SelectSame
  <2> HIDE DEF word
  <2>2. /\ Interpreter!At({"Select"}) /\ Interpreter!Replace(1, <<Interpreted(word)>>)
        /\ Interpreter!Advance /\ Contents' = Contents /\ Typed'
    BY <1>3, <1>8, <2>1
  <2> QED BY <1>1, <2>1, <2>2 DEF Interpreter!Arrange
<1> QED BY <1>1, <1>4, <1>5, <1>6, <1>7, <1>8

\* The integer that is written is the same.
LEMMA PutSame ==
    ASSUME Stepping, Put
    PROVE  Interpreter!Put /\ Typed'
<1>1. /\ At({"Put"}) /\ output' = [last |-> AsInteger(Peek(1)), count |-> output.count + 1]
      /\ Replace(1, <<>>) /\ Advance /\ variables' = variables
  BY DEF Put
<1>2. Symbol = "Put" /\ Inv
  BY <1>1 DEF At, Stepping
<1>3. /\ sp + 1 <= Bottom /\ IsWord(program, Peek(1)) /\ Interpreter!Top(1) = Interpreted(Peek(1))
      /\ Peek(1).type = "Integer"
  BY <1>1, <1>2, Found
<1>4. Interpreter!Top(1).value = AsInteger(Peek(1))
  BY <1>3, WordFound
<1>5. IsStep(1, 0, <<>>, <<>>)
  BY <1>1, <1>2, <1>3, StepsTaken
<1>6. /\ Interpreter!At({"Put"}) /\ Interpreter!Replace(1, <<>>) /\ Interpreter!Advance
      /\ Contents' = Contents /\ Typed'
  BY <1>1, <1>5, ElementSame
<1> QED BY <1>1, <1>4, <1>6 DEF Interpreter!Put

\* So is the character that is read.
LEMMA GetSame ==
    ASSUME Stepping, Get
    PROVE  Interpreter!Get /\ Typed'
<1>1. PICK character \in Inputs : Replace(0, <<Word(character)>>)
  BY DEF Get
<1>2. At({"Get"}) /\ Advance /\ variables' = variables /\ output' = output
  BY DEF Get
<1> DEFINE word == Word(character)
<1>3. IsWord(program, word) /\ Interpreted(word) = Integer(character)
  BY InputsAssumption, WordBack DEF IsWord
<1> HIDE DEF word
<1>4. IsStep(0, 1, <<word>>, <<Interpreted(word)>>)
  <2>1. sp + 0 <= Bottom /\ Inv
    BY <1>2, Found DEF Stepping
  <2> QED BY <1>1, <1>3, <2>1, StepsTaken DEF word
<1>5. /\ Interpreter!At({"Get"}) /\ Interpreter!Replace(0, <<Interpreter!Integer(character)>>) /\ Interpreter!Advance
      /\ Contents' = Contents /\ Typed'
  BY <1>2, <1>3, <1>4, ElementSame, SameElements
<1> QED BY <1>2, <1>5 DEF Interpreter!Get

-------------------------------------------------------------------------------
(* The steps of functions and loops.                                       *)

\* What a call changes in memory.
LEMMA CallChanges ==
    ASSUME Inv, Room, Room', NEW count \in Nat, sp + count <= Bottom, NEW function, NEW point,
           CallAfter(count, function, point), fp' = fp
    PROVE  LET return == Point(pc.function, pc.at, point)
           IN  /\ sp' \in Int /\ sp' = sp + count - 1
               /\ pc' = Point(function, 0, "prologue") /\ Current' = return
               /\ \A address \in fp .. Words : memory'[address] = memory[address]
               /\ \A address \in sp' + 1 .. Bottom - 1 : memory'[address] = memory[address]
<1> DEFINE return == Point(pc.function, pc.at, point)
           words == <<ReturnAddress(return)>>
<1>1. Len(words) = 1 /\ words[1] = ReturnAddress(return) /\ Len(words) \in Nat
  OBVIOUS
<1>2. Replace(count, words) /\ pc' = Point(function, 0, "prologue")
  BY DEF CallAfter
<1> HIDE DEF words
<1>3. /\ sp \in Int /\ fp \in Int /\ fp > Bottom /\ sp' >= 1 /\ Words \in Nat /\ Bottom \in Nat
      /\ Bottom <= Words + 1
  BY BottomNat DEF Inv, Room
<1>4. sp' = sp + count - 1
  BY <1>1, <1>2 DEF Replace
<1>5. memory' = [address \in 1 .. Words |->
            IF address \in sp' .. sp' + 1 - 1 THEN words[sp' + 1 - address] ELSE memory[address]]
  <2>1. sp + count - Len(words) = sp'
    BY <1>1, <1>4
  <2> QED BY <1>1, <1>2, <2>1, Zenon DEF Replace
<1>6. memory'[sp'] = ReturnAddress(return)
  <2>1. sp' \in 1 .. Words /\ sp' \in sp' .. sp' + 1 - 1 /\ sp' + 1 - sp' = 1
    BY <1>3, <1>4
  <2>2. memory'[sp'] = words[sp' + 1 - sp']
    BY <1>5, <2>1
  <2> QED BY <1>1, <2>1, <2>2
<1>7. \A address \in fp .. Words : memory'[address] = memory[address]
  <2>1. \A address \in fp .. Words : address \in 1 .. Words /\ address \notin sp' .. sp' + 1 - 1
    BY <1>3, <1>4
  <2> QED BY <1>5, <2>1
<1>8. \A address \in sp' + 1 .. Bottom - 1 : memory'[address] = memory[address]
  <2>1. \A address \in sp' + 1 .. Bottom - 1 : address \in 1 .. Words /\ address \notin sp' .. sp' + 1 - 1
    BY <1>3, <1>4
  <2> QED BY <1>5, <2>1
<1>9. Current' = return
  <2>1. sp' + 1 - 1 = sp'
    BY <1>3, <1>4
  <2>2. Peek(1)' = ReturnAddress(return)
    BY <1>6, <2>1 DEF Peek
  <2>3. pc'.point = "prologue" /\ ReturnAddress(return).point = return
    BY <1>2 DEF Point, ReturnAddress
  <2> QED BY <2>2, <2>3 DEF Current
<1> QED BY <1>2, <1>3, <1>4, <1>7, <1>8, <1>9

\* The return address that it pushes is none of the words on the stack.
LEMMA CallTyped ==
    ASSUME Inv, Room, Room', Typed, program' = program, variables' = variables, pc.point # "prologue",
           NEW count \in Nat, sp + count <= Bottom, NEW function \in DOMAIN program \ {Main}, NEW point,
           CallAfter(count, function, point), fp' = fp
    PROVE  Typed'
<1>1. /\ sp' \in Int /\ sp' = sp + count - 1
      /\ pc' = Point(function, 0, "prologue") /\ Current' = Point(pc.function, pc.at, point)
      /\ \A address \in fp .. Words : memory'[address] = memory[address]
      /\ \A address \in sp' + 1 .. Bottom - 1 : memory'[address] = memory[address]
  BY CallChanges
<1>2. pc'.point = "prologue" /\ pc'.function = function /\ pc'.at = 0 /\ Current'.function = pc.function
  BY <1>1 DEF Point
<1>3. StackTyped(program, memory', sp' + 1)
  <2>1. \A address \in sp' + 1 .. Bottom - 1 : address \in sp .. Bottom - 1
    <3>1. sp \in Int /\ Bottom \in Nat
      BY BottomNat DEF Inv
    <3>2. sp' \in Int /\ sp' = sp + count - 1
      BY <1>1
    <3>3. count \in Nat
      OBVIOUS
    <3>4. sp' + 1 \in Int /\ sp' + 1 >= sp
      BY <3>1, <3>2, <3>3
    <3> QED BY <3>1, <3>4
  <2>2. StackTyped(program, memory, sp)
    BY DEF Typed
  <2> QED BY <1>1, <2>1, <2>2 DEF StackTyped
<1>4. SavedTyped(program, memory', fp, pc.function)
  <2>1. SavedTyped(program, memory, fp, pc.function) /\ fp \in Int
    BY DEF Typed, Current, Inv
  <2> QED BY <1>1, <2>1, SavedTypedKept
<1>5. /\ variables' = [letter \in Letters |-> variables'[letter]]
      /\ \A letter \in Letters : IsWord(program, variables'[letter])
  BY VariablesStay
<1>6. pc'.point \notin CallPoints /\ program \in Programs
  BY <1>2 DEF CallPoints, Typed
<1> QED BY <1>2, <1>3, <1>4, <1>5, <1>6 DEF Typed

\* The function that is called is active besides the one that calls, which has
\* gone on.
LEMMA CallActive ==
    ASSUME Inv, Inv', Room, Room', NEW count \in Nat, sp + count <= Bottom, NEW function, NEW point,
           CallAfter(count, function, point), fp' = fp
    PROVE  LET number == Words + 1 - fp
               return == Point(pc.function, pc.at, point)
           IN  /\ Active' = Append(Append(Outer(memory, number), FrameIn(memory, return, number)),
                                   [function |-> function, at |-> 1, loop |-> NoLoop])
               /\ Values' = Up(memory', sp + count)
<1> DEFINE number == Words + 1 - fp
           return == Point(pc.function, pc.at, point)
           frame == [function |-> function, at |-> 1, loop |-> NoLoop]
           outer == Outer(memory, number)
           caller == FrameIn(memory, return, number)
<1>1. /\ sp' \in Int /\ sp' = sp + count - 1
      /\ pc' = Point(function, 0, "prologue") /\ Current' = return
      /\ \A address \in fp .. Words : memory'[address] = memory[address]
  BY CallChanges
<1>2. pc'.point = "prologue" /\ pc'.function = function /\ pc'.at = 0
  BY <1>1 DEF Point
<1>3. /\ Active' = Append(Append(Outer(memory', number), FrameIn(memory', return, number)),
                          FrameIn(memory', pc', number))
      /\ PlaceRight(return, number)
  BY <1>1, <1>2, ActiveThen, Zenon DEF IsActive
<1>4. Outer(memory', number) = outer /\ FrameIn(memory', return, number) = caller
  BY <1>1, <1>3, OuterNow
<1>5. FrameIn(memory', pc', number) = frame
  BY <1>2 DEF FrameIn, LoopPoints
<1> HIDE DEF frame, outer, caller
<1>6. Active' = Append(Append(outer, caller), frame)
  BY <1>3, <1>4, <1>5, Zenon
<1>7. Values' = Up(memory', sp + count)
  <2>1. sp' + 1 = sp + count
    BY <1>1 DEF Inv
  <2>2. Values' = Up(memory', sp' + 1)
    BY <1>2, ValuesThen DEF IsValues
  <2> QED BY <2>1, <2>2, Zenon
<1> QED BY <1>6, <1>7, Zenon DEF frame, outer, caller

\* Words that are popped by an element are gone from the stack of the
\* interpreter.
LEMMA PoppedSame ==
    ASSUME Inv, pc.point = "element", NEW count \in Nat, sp + count <= Bottom, Values' = Up(memory', sp + count),
           \A address \in sp + count .. Bottom - 1 : memory'[address] = memory[address]
    PROVE  Interpreter!Replace(count, <<>>)
<1>1. Values = Up(memory, sp) /\ sp \in Int /\ count \in Nat /\ Bottom \in Nat
  BY ValuesNow, BottomNat DEF IsValues, Inv
<1>2. PICK none \in Nat : none = 0
  OBVIOUS
<1>3. sp + count - none = sp + count
  BY <1>1, <1>2
<1>4. \A address \in sp + count - none .. Bottom - 1 :
        memory'[address] = memory[address] /\ address \notin sp + count - none .. sp + count - 1
  <2>1. sp + count > sp + count - 1 /\ sp + count \in Int
    BY <1>1
  <2> QED BY <1>1, <1>3, <2>1
<1>5. IsSequence(<<>>, none) /\ 1 .. none = {}
  <2>1. IsSequence(<<>>, 0)
    BY Tuples
  <2> QED BY <1>2, <2>1
<1>6. IsReplaced(Up(memory', sp + count - none), Up(memory, sp), count, <<>>)
  BY <1>1, <1>4, <1>5, UpReplaced
<1>7. IsReplaced(Values', Values, count, <<>>)
  BY <1>1, <1>3, <1>6, Zenon
<1> QED BY <1>7, Zenon DEF IsReplaced, Interpreter!Replace, Interpreter!Without

\* An element that calls a function enters it.
LEMMA EnterSame ==
    ASSUME Inv, Inv', Room, Room', AtElement, program' = program,
           NEW count \in Nat, sp + count <= Bottom, NEW function, CallAfter(count, function, "push"), fp' = fp
    PROVE  Interpreter!Replace(count, <<>>) /\ Interpreter!Enter(function)
<1> DEFINE number == Words + 1 - fp
           return == Point(pc.function, pc.at, "push")
           before == [function |-> pc.function, at |-> pc.at, loop |-> NoLoop]
           after == [function |-> pc.function, at |-> pc.at + 1, loop |-> NoLoop]
           frame == [function |-> function, at |-> 1, loop |-> NoLoop]
           outer == Outer(memory, number)
<1>1. pc.point = "element"
  BY DEF AtElement
<1>2. Interpreter!Front(Active) = outer /\ Interpreter!Current = before
  BY <1>1, FunctionNow, ElementNow
<1>3. /\ Active' = Append(Append(outer, FrameIn(memory, return, number)), frame)
      /\ Values' = Up(memory', sp + count)
  BY CallActive
<1>4. FrameIn(memory, return, number) = after
  BY DEF FrameIn, LoopPoints, Point
<1>5. Continued(before, NoLoop) = after
  BY FrameContinued
<1>6. Interpreter!Frame(function) = frame
  BY SameElements DEF Interpreter!Frame
<1>7. Interpreter!Enter(function)
  <2> HIDE DEF before, after, frame, outer
  <2>1. Active' = Append(Append(outer, after), frame)
    BY <1>3, <1>4, Zenon
  <2> QED BY <1>2, <1>5, <1>6, <2>1, SameElements, Zenon
        DEF Interpreter!Enter, Interpreter!Continue, Interpreter!Becoming, Continued
<1>8. Interpreter!Replace(count, <<>>)
  <2>1. /\ sp' \in Int /\ sp' = sp + count - 1
        /\ \A address \in sp' + 1 .. Bottom - 1 : memory'[address] = memory[address]
    BY CallChanges
  <2>2. sp' + 1 = sp + count
    BY <2>1 DEF Inv
  <2> QED BY <1>1, <1>3, <2>1, <2>2, PoppedSame
<1> QED BY <1>7, <1>8

\* A function on the stack is called.
LEMMA CallSame ==
    ASSUME Stepping, Call
    PROVE  Interpreter!Call /\ Typed'
<1> DEFINE function == Peek(1).value
<1>1. At({"Call"}) /\ CallAfter(1, function, "push") /\ UNCHANGED <<fp, result, variables, output>>
  BY DEF Call
<1>2. AtElement /\ Symbol = "Call" /\ program' = program /\ Interpreter!At({"Call"})
  BY <1>1, AtSame DEF Stepping
<1>3. /\ sp + 1 <= Bottom /\ IsWord(program, Peek(1)) /\ Interpreter!Top(1) = Interpreted(Peek(1))
      /\ Peek(1).type = "Function"
  BY <1>1, <1>2, Found
<1>4. function \in DOMAIN program \ {Main} /\ Interpreter!Top(1).value = function
  BY <1>3, WordFound
<1> HIDE DEF function
<1>5. Interpreter!Replace(1, <<>>) /\ Interpreter!Enter(function)
  BY <1>1, <1>2, <1>3, EnterSame DEF Stepping
<1>6. Typed'
  BY <1>1, <1>2, <1>3, <1>4, CallTyped DEF Stepping, AtElement
<1>7. Contents' = Contents /\ output' = output
  BY <1>1, <1>2, VariablesStay DEF Stepping
<1> QED BY <1>2, <1>4, <1>5, <1>6, <1>7 DEF Interpreter!Call

\* A function is called if the word below it is not zero.
LEMMA IfSame ==
    ASSUME Stepping, If
    PROVE  Interpreter!If /\ Typed'
<1> DEFINE function == Peek(1).value
<1>1. At({"If"}) /\ UNCHANGED <<fp, result, variables, output>>
  BY DEF If
<1>2. AtElement /\ Symbol = "If" /\ program' = program /\ Interpreter!At({"If"})
  BY <1>1, AtSame DEF Stepping
<1>3. /\ sp + 2 <= Bottom /\ IsWord(program, Peek(1)) /\ Interpreter!Top(1) = Interpreted(Peek(1))
      /\ Peek(1).type = "Function"
      /\ IsWord(program, Peek(2)) /\ Interpreter!Top(2) = Interpreted(Peek(2)) /\ Peek(2).type = "Integer"
  BY <1>1, <1>2, Found
<1>4. function \in DOMAIN program \ {Main} /\ Interpreter!Top(1).value = function
  BY <1>3, WordFound
<1>5. Interpreter!Top(2).value = 0 <=> Peek(2).value = 0
  BY <1>3, WordFound
<1>6. Contents' = Contents /\ output' = output
  BY <1>1, <1>2, VariablesStay DEF Stepping
<1> HIDE DEF function
<1>7. CASE Peek(2).value # 0
  <2>1. CallAfter(2, function, "push")
    BY <1>7 DEF If, function
  <2>2. Interpreter!Replace(2, <<>>) /\ Interpreter!Enter(function)
    BY <1>1, <1>2, <1>3, <2>1, EnterSame DEF Stepping
  <2>3. Typed'
    BY <1>1, <1>2, <1>3, <1>4, <2>1, CallTyped DEF Stepping, AtElement
  <2> QED BY <1>2, <1>4, <1>5, <1>6, <1>7, <2>2, <2>3 DEF Interpreter!If
<1>8. CASE Peek(2).value = 0
  <2>1. Replace(2, <<>>) /\ Advance
    BY <1>8 DEF If, Advance
  <2>2. IsStep(2, 0, <<>>, <<>>)
    BY <1>3, <2>1, StepsTaken DEF Stepping
  <2>3. Interpreter!Replace(2, <<>>) /\ Interpreter!Advance /\ Typed'
    BY <1>1, <2>1, <2>2, ElementSame
  <2> QED BY <1>2, <1>5, <1>6, <1>8, <2>3 DEF Interpreter!If
<1> QED BY <1>7, <1>8

\* While the instructions of a loop are executed the interpreter is in it.
LEMMA LoopNow ==
    ASSUME Inv, Typed, pc.point \in {"begin", "test"}
    PROVE  /\ fp + 1 <= Words
           /\ memory[fp].type = "Function" /\ memory[fp].value \in DOMAIN program \ {Main}
           /\ memory[fp + 1].type = "Function" /\ memory[fp + 1].value \in DOMAIN program \ {Main}
           /\ LET number == Words + 1 - fp
              IN  /\ number \in Nat /\ number >= 2
                  /\ Interpreter!Front(Active) = Outer(memory, number)
                  /\ Interpreter!Current = [function |-> pc.function, at |-> pc.at + 1,
                        loop |-> [condition |-> memory[fp].value, body |-> memory[fp + 1].value,
                                  testing |-> pc.point = "test"]]
                  /\ Interpreter!InLoop
<1> DEFINE number == Words + 1 - fp
           loop == [condition |-> memory[fp].value, body |-> memory[fp + 1].value, testing |-> pc.point = "test"]
<1>1. pc.point # "prologue" /\ pc.point \in LoopPoints /\ pc.point # "element" /\ Current = pc
  BY DEF LoopPoints, Current
<1>2. IsBalanced(memory, fp, TRUE, pc.function) /\ fp \in Int /\ Words \in Nat
  <2>1. (pc.point \in LoopPoints) = TRUE
    BY <1>1
  <2>2. IsBalanced(memory, fp, pc.point \in LoopPoints, pc.function) /\ fp \in Int
    BY <1>1 DEF Inv
  <2> QED BY <2>1, <2>2, BottomNat
<1>3. fp + 1 <= Words /\ memory[fp].type # "Return" /\ memory[fp + 1].type # "Return"
  BY <1>2 DEF IsBalanced, IsLoop, LoopsRight
<1>4. \A address \in {fp, fp + 1} :
        memory[address].type = "Function" /\ IsWord(program, memory[address])
  <2>1. fp \in fp .. Words /\ fp + 1 \in fp .. Words
    BY <1>2, <1>3
  <2>2. SavedTyped(program, memory, fp, pc.function)
    BY <1>1 DEF Typed
  <2> QED BY <1>3, <2>1, <2>2 DEF SavedTyped
<1>5. memory[fp].value \in DOMAIN program \ {Main} /\ memory[fp + 1].value \in DOMAIN program \ {Main}
  BY <1>4, WordFound
<1>6. Words + 1 - number = fp /\ Words + 1 - (number - 1) = fp + 1 /\ number \in Nat /\ number >= 2
  BY <1>2, <1>3
<1>7. Interpreter!Current = FrameIn(memory, pc, number) /\ Interpreter!Front(Active) = Outer(memory, number)
  BY <1>1, FunctionNow
<1> HIDE DEF number
<1>8. FrameIn(memory, pc, number) = [function |-> pc.function, at |-> pc.at + 1, loop |-> loop]
  BY <1>1, <1>6 DEF FrameIn
<1>9. loop # NoLoop
  <2>1. loop.condition = memory[fp].value /\ NoLoop.condition = Main
    BY DEF NoLoop
  <2> QED BY <1>5, <2>1
<1>10. Interpreter!InLoop
  BY <1>7, <1>8, <1>9, SameElements DEF Interpreter!InLoop
<1> QED BY <1>3, <1>4, <1>5, <1>6, <1>7, <1>8, <1>10 DEF number

\* The result of a function that has returned is on top of the values.
LEMMA AppendedDropped ==
    ASSUME NEW length \in Nat, NEW some, NEW last, IsSequence(some, length)
    PROVE  IsReplaced(some, Append(some, last), 1, <<>>)
<1> DEFINE whole == Append(some, last)
<1>1. Len(whole) = length + 1 /\ Interpreter!Front(whole) = some
  BY LastAppended
<1>2. SubSeq(whole, 1, Len(whole) - 1) = some
  BY <1>1 DEF Interpreter!Front
<1>3. PICK none \in Nat : none = 0
  OBVIOUS
<1>4. IsSequence(<<>>, none)
  BY <1>3, Tuples
<1> DEFINE joined == some \o <<>>
<1>5. IsJoined(joined, some, length, <<>>, none)
  BY <1>3, <1>4, Joined
<1> HIDE DEF joined, whole
<1>6. joined = some
  <2>1. length + none = length
    BY <1>3
  <2> QED BY <1>5, <2>1, SameSequences DEF IsJoined
<1>7. some = SubSeq(whole, 1, Len(whole) - 1) \o <<>>
  BY <1>2, <1>6, Zenon DEF joined
<1> QED BY <1>7, Zenon DEF IsReplaced, whole

\* It is what the condition of a loop yields.
LEMMA ResultNow ==
    ASSUME Inv, pc.point \in CallPoints
    PROVE  /\ sp <= Bottom =>
                /\ Interpreter!Top(1) = Interpreted(result)
                /\ IsReplaced(Up(memory, sp), Values, 1, <<>>)
           /\ Interpreter!Have(<<"Integer">>) <=> sp <= Bottom /\ result.type = "Integer"
<1> DEFINE up == Up(memory, sp)
           last == Interpreted(result)
           down == Interpreter!Downwards
           types == <<"Integer">>
<1>1. IsValues(Values, memory, sp, pc.point, result) /\ sp \in Int
  BY ValuesNow DEF Inv
<1>2. IsSequence(types, 1) /\ types[1] = "Integer"
  BY Tuples
<1>3. Len(types) = 1 /\ DOMAIN types = {1}
  <2>1. 1 .. 1 = {1}
    OBVIOUS
  <2> QED BY <1>2, <2>1, Sequences
<1> HIDE DEF types
<1>4. CASE sp > Bottom
  <2>1. ~(sp <= Bottom)
    BY <1>1, <1>4, BottomNat
  <2>2. Values = <<>>
    BY <1>1, <1>4 DEF IsValues
  <2>3. down = <<>>
    BY <2>2 DEF Interpreter!Downwards
  <2> HIDE DEF down
  <2>4. ~Begins(down, types)
    BY <1>3, <2>3 DEF Begins
  <2> QED BY <2>1, <2>4, SameElements DEF Interpreter!Have, down, types
<1>5. CASE sp <= Bottom
  <2>1. PICK length \in Nat : length = Bottom - sp
    BY <1>1, <1>5, BottomNat
  <2>2. Values = Append(up, last) /\ IsSequence(up, length)
    BY <1>1, <1>5, <2>1, UpFacts DEF IsValues
  <2> DEFINE whole == Append(up, last)
  <2> HIDE DEF up
  <2>3. /\ IsReplaced(up, whole, 1, <<>>) /\ IsAppended(whole, up, length, last)
        /\ Len(whole) = length + 1 /\ whole[Len(whole)] = last
    BY <2>2, AppendedDropped, Appended, LastAppended
  <2>4. Values = whole
    BY <2>2
  <2> HIDE DEF whole, last
  <2>5. Len(Values) = length + 1 /\ Values[Len(Values)] = last /\ DOMAIN Values = 1 .. length + 1
    BY <2>3, <2>4, Sequences DEF IsAppended
  <2>6. Interpreter!Top(1) = last
    <3>1. Len(Values) + 1 - 1 = Len(Values)
      BY <2>5
    <3> QED BY <2>5, <3>1 DEF Interpreter!Top
  <2>7. IsSequence(down, length + 1) /\ down[1] = last
    <3>1. down = [index \in 1 .. length + 1 |-> Interpreter!Top(index)]
      BY <2>5 DEF Interpreter!Downwards
    <3> HIDE DEF down
    <3>2. 1 \in 1 .. length + 1 /\ length + 1 \in Nat
      OBVIOUS
    <3> QED BY <2>6, <3>1, <3>2 DEF IsSequence
  <2> HIDE DEF down
  <2>8. Len(down) >= 1
    BY <2>7, Sequences
  <2>9. last.type = result.type
    BY TypesInterpreted DEF last
  <2>10. Begins(down, types) <=> result.type = "Integer"
    BY <1>2, <1>3, <2>7, <2>8, <2>9 DEF Begins
  <2>11. Interpreter!Have(types) <=> Begins(down, types)
    BY SameElements DEF Interpreter!Have, down
  <2> QED BY <1>5, <2>3, <2>4, <2>6, <2>10, <2>11, Zenon DEF types, last, up
<1> QED BY <1>1, <1>4, <1>5, BottomNat

\* Two words that are no return addresses change nothing.
LEMMA OuterLoop ==
    ASSUME NEW words, NEW number \in Nat,
           words[Words + 1 - (number + 1)].type # "Return", words[Words + 1 - (number + 2)].type # "Return"
    PROVE  Outer(words, number + 2) = Outer(words, number)
<1>1. Outer(words, number + 1) = Outer(words, number)
  BY OuterSame
<1>2. PICK next \in Nat : next = number + 1
  OBVIOUS
<1>3. next + 1 = number + 2
  BY <1>2
<1>4. words[Words + 1 - (next + 1)].type # "Return"
  BY <1>3
<1>5. Outer(words, next + 1) = Outer(words, next)
  BY <1>4, OuterSame
<1> QED BY <1>1, <1>2, <1>3, <1>5

\* A loop begins with its functions saved.
LEMMA WhileSame ==
    ASSUME Stepping, While
    PROVE  Interpreter!While /\ Typed'
<1> DEFINE body == Peek(1)
           condition == Peek(2)
           number == Words + 1 - fp
           outer == Outer(memory, number)
           loop == [condition |-> condition.value, body |-> body.value, testing |-> FALSE]
           before == [function |-> pc.function, at |-> pc.at, loop |-> NoLoop]
           after == [function |-> pc.function, at |-> pc.at + 1, loop |-> loop]
<1>1. /\ At({"While"}) /\ memory' = [memory EXCEPT ![fp - 1] = body, ![fp - 2] = condition]
      /\ fp' = fp - 2 /\ sp' = sp + 2 /\ pc' = [pc EXCEPT !.point = "begin"]
      /\ UNCHANGED <<result, variables, output>>
  BY DEF While, SaveLoop
<1>2. AtElement /\ Symbol = "While" /\ program' = program /\ Interpreter!At({"While"})
  BY <1>1, AtSame DEF Stepping
<1>3. /\ sp + 2 <= Bottom
      /\ IsWord(program, body) /\ Interpreter!Top(1) = Interpreted(body) /\ body.type = "Function"
      /\ IsWord(program, condition) /\ Interpreter!Top(2) = Interpreted(condition) /\ condition.type = "Function"
  BY <1>1, <1>2, Found
<1>4. Interpreter!Top(1).value = body.value /\ Interpreter!Top(2).value = condition.value
  BY <1>3, WordFound
<1> HIDE DEF body, condition
<1>5. pc.point = "element" /\ Inv /\ Inv' /\ Typed
  BY <1>2 DEF AtElement, Stepping
<1>6. /\ pc'.point = "begin" /\ pc'.function = pc.function /\ pc'.at = pc.at
  <2>1. pc = Point(pc.function, pc.at, pc.point)
    BY <1>5 DEF Inv, IsPoint
  <2> QED BY <1>1, <2>1 DEF Point
<1>7. /\ sp \in Int /\ fp \in Int /\ fp - 2 > Bottom /\ fp <= Words + 1 /\ Words \in Nat /\ Bottom \in Nat
      /\ DOMAIN memory = 1 .. Words
  BY <1>1, BottomNat DEF Stepping, Inv, Room, IsBalanced
<1>8. memory'[fp - 1] = body /\ memory'[fp - 2] = condition
  <2>1. fp - 1 \in 1 .. Words /\ fp - 2 \in 1 .. Words /\ fp - 1 # fp - 2
    BY <1>7
  <2> QED BY <1>1, <1>7, <2>1
<1>9. \A address \in 1 .. Words : address \notin {fp - 1, fp - 2} => memory'[address] = memory[address]
  BY <1>1, <1>7
<1>10. \A address \in fp .. Words : memory'[address] = memory[address]
  <2>1. \A address \in fp .. Words : address \in 1 .. Words /\ address \notin {fp - 1, fp - 2}
    BY <1>7
  <2> QED BY <1>9, <2>1
<1>11. \A address \in sp + 2 .. Bottom - 1 : memory'[address] = memory[address]
  <2>1. \A address \in sp' .. Bottom - 1 : address \in 1 .. Words /\ address \notin {fp - 1, fp - 2}
    <3>1. sp' >= 1 /\ sp' \in Int /\ Bottom <= Words + 1
      BY BottomNat DEF Stepping, Room, Inv
    <3> QED BY <1>7, <3>1
  <2> QED BY <1>1, <1>9, <2>1
<1>12. Interpreter!Replace(2, <<>>)
  <2>1. Values' = Up(memory', sp + 2)
    BY <1>1, <1>5, <1>6, ValuesThen DEF IsValues
  <2> QED BY <1>3, <1>5, <1>11, <2>1, PoppedSame
<1>13. Active' = Append(outer, after)
  <2>1. PICK higher \in Nat : higher = number + 2 /\ higher = Words + 1 - fp' /\ number \in Nat
    BY <1>1, <1>7
  <2>2. Active' = Append(Outer(memory', higher), FrameIn(memory', pc', higher))
    BY <1>5, <1>6, <2>1, ActiveThen DEF IsActive
  <2>3. /\ Words + 1 - (number + 1) = fp - 1 /\ Words + 1 - (number + 2) = fp - 2
        /\ Words + 1 - higher = fp - 2 /\ Words + 1 - (higher - 1) = fp - 1
    BY <1>7, <2>1
  <2>4. Outer(memory', higher) = outer
    <3>1. Outer(memory', number) = outer
      BY <1>5, <1>10, OuterNow
    <3>2. Outer(memory', number + 2) = Outer(memory', number)
      BY <1>3, <1>8, <2>1, <2>3, OuterLoop
    <3> QED BY <2>1, <3>1, <3>2
  <2>5. FrameIn(memory', pc', higher) = after
    BY <1>6, <1>8, <2>3 DEF FrameIn, LoopPoints
  <2> HIDE DEF outer, after
  <2> QED BY <2>2, <2>4, <2>5, Zenon
<1>14. Interpreter!Front(Active) = outer /\ Interpreter!Current = before
  BY <1>5, FunctionNow, ElementNow
<1>15. Continued(before, loop) = after
  BY FrameContinued
<1>16. Active' = Interpreter!Continue([condition |-> Interpreter!Top(2).value, body |-> Interpreter!Top(1).value,
                                       testing |-> FALSE])
  <2>1. loop = [condition |-> Interpreter!Top(2).value, body |-> Interpreter!Top(1).value, testing |-> FALSE]
    BY <1>4
  <2> HIDE DEF outer, before, after, loop
  <2>2. Active' = Interpreter!Continue(loop)
    BY <1>13, <1>14, <1>15, Zenon DEF Interpreter!Continue, Interpreter!Becoming, Continued
  <2> QED BY <2>1, <2>2, Zenon
<1>17. Contents' = Contents /\ output' = output
  BY <1>1, <1>2, <1>5, VariablesStay
<1>18. Typed'
  <2>1. StackTyped(program, memory', sp')
    <3>1. \A address \in sp + 2 .. Bottom - 1 : address \in sp .. Bottom - 1
      BY <1>7
    <3>2. StackTyped(program, memory, sp)
      BY <1>5 DEF Typed
    <3> QED BY <1>1, <1>11, <3>1, <3>2 DEF StackTyped
  <2>2. SavedTyped(program, memory', fp - 2, pc.function)
    <3>1. SavedTyped(program, memory, fp, pc.function)
      BY <1>5 DEF Typed, Current
    <3>2. \A address \in {fp - 1, fp - 2} :
            memory'[address].type = "Function" /\ IsWord(program, memory'[address])
      BY <1>3, <1>8
    <3> QED BY <1>7, <1>10, <3>1, <3>2, LoopTyped
  <2>3. pc'.point \notin CallPoints \cup {"prologue"} /\ Current' = pc'
    BY <1>6 DEF CallPoints, Current
  <2>4. /\ variables' = [letter \in Letters |-> variables'[letter]]
        /\ \A letter \in Letters : IsWord(program, variables'[letter])
    BY <1>1, <1>2, <1>5, VariablesStay
  <2>5. program \in Programs /\ pc'.function \in DOMAIN program
    BY <1>5, <1>6 DEF Typed
  <2> QED BY <1>1, <1>2, <1>6, <2>1, <2>2, <2>3, <2>4, <2>5 DEF Typed
<1> QED BY <1>2, <1>12, <1>16, <1>17, <1>18 DEF Interpreter!While

\* A frame in a loop, which is about to test its condition or not.
Testing(frame, testing) == [frame EXCEPT !.loop.testing = testing]
Leaving(frame) == [frame EXCEPT !.loop = NoLoop]

\* The condition or the body of a loop is called.
LEMMA LoopCalls ==
    ASSUME Inv, Inv', Room, Room', Typed, pc.point \in {"begin", "test"}, sp <= Bottom,
           NEW function, NEW point \in {"test", "again"}, CallAfter(0, function, point), fp' = fp
    PROVE  /\ Values' = Up(memory, sp)
           /\ Active' = Append(Append(Interpreter!Front(Active), Testing(Interpreter!Current, point = "test")),
                               Interpreter!Frame(function))
<1> DEFINE number == Words + 1 - fp
           return == Point(pc.function, pc.at, point)
           frame == [function |-> function, at |-> 1, loop |-> NoLoop]
           outer == Outer(memory, number)
           Looping(tests) == [function |-> pc.function, at |-> pc.at + 1,
                loop |-> [condition |-> memory[fp].value, body |-> memory[fp + 1].value, testing |-> tests]]
           now == pc.point = "test"
           then == point = "test"
           before == Looping(now)
           after == Looping(then)
<1>1. fp + 1 <= Words /\ Interpreter!Front(Active) = outer /\ Interpreter!Current = before
  BY LoopNow
<1>2. sp \in Int /\ fp \in Int /\ Words \in Nat /\ sp + 0 = sp /\ sp + 0 <= Bottom /\ Bottom \in Nat
  BY BottomNat DEF Inv
<1>3. PICK none \in Nat : none = 0
  OBVIOUS
<1>4. sp + none = sp /\ sp + none <= Bottom /\ CallAfter(none, function, point)
  BY <1>2, <1>3
<1>5. /\ Active' = Append(Append(outer, FrameIn(memory, return, number)), frame)
      /\ Values' = Up(memory', sp + none)
  BY <1>4, CallActive
<1>6. Values' = Up(memory, sp)
  <2>1. sp' = sp + none - 1 /\ \A address \in sp' + 1 .. Bottom - 1 : memory'[address] = memory[address]
    BY <1>4, CallChanges
  <2>2. sp' + 1 = sp
    BY <1>2, <1>4, <2>1
  <2>3. Up(memory', sp) = Up(memory, sp)
    BY <1>2, <2>1, <2>2, UpKept
  <2> QED BY <1>4, <1>5, <2>3
<1>7. FrameIn(memory, return, number) = after
  <2>1. Words + 1 - number = fp /\ Words + 1 - (number - 1) = fp + 1
    BY <1>2
  <2>2. return.point \in LoopPoints /\ return.point # "element" /\ return.function = pc.function /\ return.at = pc.at
        /\ return.point = point
    BY DEF Point, LoopPoints
  <2> HIDE DEF number, return
  <2> QED BY <2>1, <2>2 DEF FrameIn
<1> HIDE DEF now, then
<1>8. Testing(before, then) = after
  BY DEF Testing
<1>9. Interpreter!Frame(function) = frame
  BY SameElements DEF Interpreter!Frame
<1> HIDE DEF before, after, outer, frame
<1>10. Active' = Append(Append(outer, after), frame)
  BY <1>5, <1>7, Zenon
<1> QED BY <1>1, <1>6, <1>8, <1>9, <1>10, Zenon DEF then

\* The condition of a loop is called.
LEMMA ConditionSame ==
    ASSUME Stepping, CallCondition
    PROVE  Interpreter!EnterCondition /\ Typed'
<1> DEFINE condition == memory[fp].value
<1>1. /\ status = "running" /\ pc.point = "begin" /\ CallAfter(0, condition, "test")
      /\ UNCHANGED <<program, fp, result, variables, output, status>>
  BY DEF CallCondition
<1>2. Inv /\ Inv' /\ Room /\ Room' /\ Typed
  BY DEF Stepping
<1>3. condition \in DOMAIN program \ {Main} /\ Interpreter!InLoop
      /\ ~Interpreter!Current.loop.testing /\ Interpreter!Current.loop.condition = condition
  <2>1. pc.point \in {"begin", "test"} /\ (pc.point = "test") = FALSE
    BY <1>1
  <2>2. /\ condition \in DOMAIN program \ {Main} /\ Interpreter!InLoop
        /\ Interpreter!Current = [function |-> pc.function, at |-> pc.at + 1,
                loop |-> [condition |-> condition, body |-> memory[fp + 1].value, testing |-> pc.point = "test"]]
    BY <1>2, <2>1, LoopNow
  <2>3. /\ Interpreter!Current.loop.testing = (pc.point = "test")
        /\ Interpreter!Current.loop.condition = condition
    BY <2>2
  <2> QED BY <2>1, <2>2, <2>3
<1>4. sp <= Bottom /\ Values = Up(memory, sp)
  BY <1>1, <1>2, ValuesNow DEF Inv, IsAbove, IsValues
<1> HIDE DEF condition
<1>5. /\ Values' = Up(memory, sp)
      /\ Active' = Append(Append(Interpreter!Front(Active), Testing(Interpreter!Current, TRUE)),
                          Interpreter!Frame(condition))
  <2>1. pc.point \in {"begin", "test"} /\ "test" \in {"test", "again"} /\ fp' = fp
    BY <1>1
  <2>2. /\ Values' = Up(memory, sp)
        /\ Active' = Append(Append(Interpreter!Front(Active), Testing(Interpreter!Current, "test" = "test")),
                            Interpreter!Frame(condition))
    BY <1>1, <1>2, <1>4, <2>1, LoopCalls, Zenon
  <2>3. ("test" = "test") = TRUE
    OBVIOUS
  <2> QED BY <2>2, <2>3, Zenon
<1>6. Active' = Append(Interpreter!Becoming([Interpreter!Current EXCEPT !.loop.testing = TRUE]),
                       Interpreter!Frame(Interpreter!Current.loop.condition))
  BY <1>3, <1>5, Zenon DEF Testing, Interpreter!Becoming
<1>7. Contents' = Contents
  BY <1>1, <1>2, VariablesStay
<1>8. Typed'
  <2>1. PICK none \in Nat : none = 0 /\ sp + none <= Bottom
    BY <1>2, <1>4 DEF Inv
  <2> QED BY <1>1, <1>2, <1>3, <2>1, CallTyped
<1>9. Outcome' = Outcome /\ Outcome = "running"
  BY <1>1 DEF Outcome
<1> QED BY <1>1, <1>3, <1>4, <1>5, <1>6, <1>7, <1>8, <1>9 DEF Interpreter!EnterCondition

\* The body of a loop is called, or the loop ends.
LEMMA TestSame ==
    ASSUME Stepping, TestCondition
    PROVE  Interpreter!EnterBody /\ Typed'
<1> DEFINE body == memory[fp + 1].value
           number == Words + 1 - fp
           outer == Outer(memory, number)
           before == [function |-> pc.function, at |-> pc.at + 1,
                      loop |-> [condition |-> memory[fp].value, body |-> body, testing |-> TRUE]]
           after == [function |-> pc.function, at |-> pc.at + 1, loop |-> NoLoop]
<1>1. /\ status = "running" /\ pc.point = "test" /\ sp <= Bottom /\ result.type = "Integer"
      /\ UNCHANGED <<program, result, variables, output, status>>
  BY DEF TestCondition
<1>2. Inv /\ Inv' /\ Room /\ Room' /\ Typed
  BY DEF Stepping
<1>3. pc.point \in {"begin", "test"} /\ pc.point \in CallPoints /\ (pc.point = "test") = TRUE
  BY <1>1 DEF CallPoints
<1>4. /\ fp + 1 <= Words /\ number \in Nat /\ number >= 2
      /\ memory[fp].type = "Function" /\ memory[fp + 1].type = "Function"
      /\ body \in DOMAIN program \ {Main} /\ Interpreter!InLoop
      /\ Interpreter!Front(Active) = outer /\ Interpreter!Current = before
  <2>1. /\ fp + 1 <= Words /\ number \in Nat /\ number >= 2
        /\ memory[fp].type = "Function" /\ memory[fp + 1].type = "Function"
        /\ body \in DOMAIN program \ {Main} /\ Interpreter!InLoop
        /\ Interpreter!Front(Active) = outer
    BY <1>2, <1>3, LoopNow
  <2>2. Interpreter!Current = [function |-> pc.function, at |-> pc.at + 1,
          loop |-> [condition |-> memory[fp].value, body |-> memory[fp + 1].value, testing |-> pc.point = "test"]]
    BY <1>2, <1>3, LoopNow
  <2>3. Interpreter!Current = before
    BY <1>3, <2>2, Zenon
  <2> QED BY <2>1, <2>3
<1>5. /\ Interpreter!Have(<<"Integer">>) /\ Interpreter!Top(1) = Interpreted(result)
      /\ IsReplaced(Up(memory, sp), Values, 1, <<>>)
  BY <1>1, <1>2, <1>3, ResultNow
<1>6. IsWord(program, result)
  BY <1>1, <1>2, <1>3 DEF Typed
<1>7. Interpreter!Top(1).value = 0 <=> result.value = 0
  BY <1>1, <1>5, <1>6, WordFound
<1>8. Interpreter!Current.loop.testing /\ Interpreter!Current.loop.body = body
  <2>1. before.loop.testing = TRUE /\ before.loop.body = body
    OBVIOUS
  <2> HIDE DEF before, body
  <2> QED BY <1>4, <2>1
<1>9. Values' = Up(memory, sp) => Interpreter!Replace(1, <<>>)
  BY <1>5, Zenon DEF IsReplaced, Interpreter!Replace, Interpreter!Without
<1>10. Contents' = Contents /\ output' = output /\ Outcome' = Outcome /\ Outcome = "running" /\ program' = program
  BY <1>1, <1>2, VariablesStay DEF Outcome
<1>11. Interpreter!Replace(1, <<>>)
         /\ Active' = (IF Interpreter!Top(1).value # 0
                       THEN Append(Interpreter!Becoming([Interpreter!Current EXCEPT !.loop.testing = FALSE]),
                                   Interpreter!Frame(Interpreter!Current.loop.body))
                       ELSE Interpreter!Becoming([Interpreter!Current EXCEPT !.loop = NoLoop]))
         /\ Typed'
  <2>1. CASE result.value # 0
    <3> HIDE DEF body, before, after, outer, number
    <3>1. CallAfter(0, body, "again") /\ fp' = fp
      BY <2>1 DEF TestCondition, body
    <3>2. /\ Values' = Up(memory, sp)
          /\ Active' = Append(Append(Interpreter!Front(Active), Testing(Interpreter!Current, "again" = "test")),
                              Interpreter!Frame(body))
      <4>1. "again" \in {"test", "again"}
        OBVIOUS
      <4> QED BY <1>1, <1>2, <1>3, <3>1, <4>1, LoopCalls, Zenon
    <3>3. ("again" = "test") = FALSE
      OBVIOUS
    <3>4. Active' = Append(Interpreter!Becoming([Interpreter!Current EXCEPT !.loop.testing = FALSE]),
                           Interpreter!Frame(Interpreter!Current.loop.body))
      BY <1>8, <3>2, <3>3, Zenon DEF Testing, Interpreter!Becoming
    <3>5. PICK none \in Nat : none = 0 /\ sp + none <= Bottom
      BY <1>1, <1>2 DEF Inv
    <3>6. Typed'
      BY <1>1, <1>2, <1>4, <3>1, <3>5, CallTyped
    <3> QED BY <1>7, <1>9, <2>1, <3>2, <3>4, <3>6
  <2>2. CASE result.value = 0
    <3>1. fp' = fp + 2 /\ pc' = NextElement /\ memory' = memory /\ sp' = sp
      BY <2>2 DEF TestCondition, FinishLoop
    <3>2. /\ pc'.point = "element" /\ pc'.function = pc.function /\ pc'.at = pc.at + 1
      BY <3>1 DEF NextElement, Point
    <3>3. fp \in Int /\ Words \in Nat
      BY <1>2, BottomNat DEF Inv
    <3>4. Values' = Up(memory, sp)
      BY <1>2, <3>1, <3>2, ValuesThen DEF IsValues
    <3>5. PICK lower \in Nat : number = lower + 2 /\ lower = Words + 1 - fp'
      BY <1>4, <3>1, <3>3
    <3>6. Active' = Append(Outer(memory, lower), FrameIn(memory, pc', lower))
      BY <1>2, <3>1, <3>2, <3>5, ActiveThen DEF IsActive
    <3>7. Outer(memory, lower) = outer
      <4>1. Words + 1 - (lower + 1) = fp + 1 /\ Words + 1 - (lower + 2) = fp
        BY <3>3, <3>5
      <4>2. Outer(memory, lower + 2) = Outer(memory, lower)
        BY <1>4, <4>1, OuterLoop
      <4> QED BY <3>5, <4>2
    <3>8. FrameIn(memory, pc', lower) = after
      BY <3>2 DEF FrameIn, LoopPoints
    <3>9. Leaving(before) = after
      BY DEF Leaving
    <3>10. Active' = Interpreter!Becoming([Interpreter!Current EXCEPT !.loop = NoLoop])
      <4> HIDE DEF before, after, outer
      <4>1. Active' = Append(outer, after)
        BY <3>6, <3>7, <3>8, Zenon
      <4> QED BY <1>4, <3>9, <4>1, Zenon DEF Leaving, Interpreter!Becoming
    <3>11. Typed'
      <4>1. Current = pc /\ Current' = pc'
        BY <1>1, <3>2 DEF Current
      <4>2. SavedTyped(program, memory, fp, pc.function)
        BY <1>2, <4>1 DEF Typed
      <4>3. SavedTyped(program, memory, fp + 2, pc.function)
        <5>1. pc.function = Main => ~ReturnsBehind(memory, fp + 2)
          <6>1. \A address \in fp + 2 .. Words : address \in fp .. Words
            BY <3>3
          <6> QED BY <4>2, <6>1 DEF SavedTyped, ReturnsBehind
        <5>2. PICK two \in Nat : two = 2
          OBVIOUS
        <5>3. SavedTyped(program, memory, fp + two, pc.function)
          BY <3>3, <4>2, <5>1, <5>2, TypedLess DEF SavedTyped
        <5> QED BY <5>2, <5>3
      <4>4. /\ variables' = [letter \in Letters |-> variables'[letter]]
            /\ \A letter \in Letters : IsWord(program, variables'[letter])
        BY <1>1, <1>2, VariablesStay
      <4>5. pc'.point \notin CallPoints \cup {"prologue"} /\ pc.point # "prologue"
        BY <1>1, <3>2 DEF CallPoints
      <4>6. program \in Programs /\ pc'.function \in DOMAIN program /\ StackTyped(program, memory, sp)
        BY <1>2, <3>2, <4>5 DEF Typed
      <4> QED BY <1>1, <3>1, <3>2, <4>1, <4>3, <4>4, <4>5, <4>6 DEF Typed
    <3> QED BY <1>7, <1>9, <2>2, <3>4, <3>10, <3>11
  <2> QED BY <2>1, <2>2
<1> QED BY <1>4, <1>5, <1>8, <1>10, <1>11, SameElements, Zenon DEF Interpreter!EnterBody

\* What the interpreter has no steps for leaves it as it is.
LEMMA PrologueSame ==
    ASSUME Stepping, Prologue
    PROVE  UNCHANGED Interpreter!vars /\ Typed'
<1> DEFINE number == Words + 1 - fp
           outer == Outer(memory, number)
           return == memory[sp].point
           caller == FrameIn(memory, return, number)
           frame == [function |-> pc.function, at |-> 1, loop |-> NoLoop]
<1>1. /\ status = "running" /\ pc.point = "prologue" /\ fp' = fp - 1 /\ sp' = sp + 1
      /\ memory' = [memory EXCEPT ![fp - 1] = Peek(1)] /\ pc' = Point(pc.function, 1, "element")
      /\ UNCHANGED <<program, result, variables, output, status>>
  BY DEF Prologue
<1>2. Inv /\ Inv' /\ Room /\ Room' /\ Typed
  BY DEF Stepping
<1>3. /\ sp \in Int /\ fp \in Int /\ Words \in Nat /\ Bottom \in Nat /\ fp <= Words + 1 /\ fp - 1 > Bottom
      /\ sp < Bottom /\ sp >= 1 /\ Bottom <= Words + 1 /\ DOMAIN memory = 1 .. Words
  BY <1>1, <1>2, BottomNat DEF Inv, Room, IsBalanced, IsAbove
<1>4. Peek(1) = memory[sp] /\ Current = return /\ IsReturn(memory[sp])
  <2>1. sp + 1 - 1 = sp
    BY <1>3
  <2> QED BY <1>1, <1>2, <2>1 DEF Peek, Current, Inv
<1>5. pc'.point = "element" /\ pc'.function = pc.function /\ pc'.at = 1
  BY <1>1 DEF Point
<1>6. pc.function # Main /\ pc.at = 0
  BY <1>1, <1>2 DEF Typed
<1>7. memory'[fp - 1] = memory[sp]
  <2>1. fp - 1 \in 1 .. Words
    BY <1>3
  <2> QED BY <1>1, <1>3, <1>4, <2>1
<1>8. \A address \in fp .. Words : memory'[address] = memory[address]
  <2>1. \A address \in fp .. Words : address \in 1 .. Words /\ address # fp - 1
    BY <1>3
  <2> QED BY <1>1, <1>3, <2>1
<1>9. \A address \in sp + 1 .. Bottom - 1 : memory'[address] = memory[address]
  <2>1. \A address \in sp + 1 .. Bottom - 1 : address \in 1 .. Words /\ address # fp - 1
    BY <1>3
  <2> QED BY <1>1, <1>3, <2>1
<1>10. Values' = Values
  <2>1. Values = Up(memory, sp + 1) /\ Values' = Up(memory', sp + 1)
    BY <1>1, <1>2, <1>5, ValuesNow, ValuesThen DEF IsValues
  <2>2. sp + 1 \in Int /\ sp + 1 <= Bottom
    BY <1>3
  <2>3. Up(memory', sp + 1) = Up(memory, sp + 1)
    BY <1>9, <2>2, UpKept
  <2> QED BY <2>1, <2>3
<1>11. Active = Append(Append(outer, caller), frame)
  <2>1. Active = Append(Append(outer, caller), FrameIn(memory, pc, number))
    BY <1>1, <1>2, <1>4, ActiveNow DEF IsActive
  <2>2. FrameIn(memory, pc, number) = frame
    BY <1>1, <1>6 DEF FrameIn, LoopPoints
  <2> HIDE DEF frame
  <2> QED BY <2>1, <2>2
<1>12. PICK higher \in Nat : higher = number + 1 /\ higher = Words + 1 - fp' /\ number \in Nat
                            /\ Words + 1 - (number + 1) = fp - 1 /\ higher - 1 = number
  BY <1>1, <1>3
<1>13. Active' = Append(Outer(memory', higher), FrameIn(memory', pc', higher))
  BY <1>2, <1>5, <1>12, ActiveThen DEF IsActive
<1>14. FrameIn(memory', pc', higher) = frame
  BY <1>5 DEF FrameIn, LoopPoints
<1>15. Outer(memory', number + 1) = Append(outer, caller)
  <2>1. Outer(memory', number) = outer /\ (PlaceRight(return, number) => FrameIn(memory', return, number) = caller)
    BY <1>2, <1>8, OuterNow
  <2>2. PlaceRight(return, number)
    BY <1>2, <1>4, ActiveNow
  <2>3. memory'[Words + 1 - (number + 1)].type = "Return"
    BY <1>4, <1>7, <1>12 DEF IsReturn
  <2>4. Outer(memory', number + 1) = Append(Outer(memory', number), SavedFrame(memory', number + 1))
    BY <1>12, <2>3, OuterMore
  <2>5. SavedFrame(memory', number + 1) = caller
    <3>1. (number + 1) - 1 = number
      BY <1>12
    <3>2. SavedFrame(memory', number + 1) = FrameIn(memory', return, number)
      BY <1>7, <1>12, <3>1, Zenon DEF SavedFrame
    <3> QED BY <2>1, <2>2, <3>2
  <2> HIDE DEF outer, caller
  <2> QED BY <2>1, <2>4, <2>5, Zenon
<1>16. Active' = Active
  <2> HIDE DEF outer, caller, frame
  <2> QED BY <1>11, <1>12, <1>13, <1>14, <1>15, Zenon
<1>17. Contents' = Contents /\ Outcome' = Outcome
  BY <1>1, <1>2, VariablesStay DEF Outcome
<1>18. Typed'
  <2>1. StackTyped(program, memory', sp')
    BY <1>1, <1>2, <1>9 DEF Typed, StackTyped
  <2>2. SavedTyped(program, memory', fp - 1, pc.function)
    <3>1. SavedTyped(program, memory, fp, memory'[fp - 1].point.function) /\ IsReturn(memory'[fp - 1])
      BY <1>2, <1>4, <1>7 DEF Typed
    <3>2. pc.function \in DOMAIN program
      BY <1>2 DEF Typed
    <3> QED BY <1>3, <1>6, <1>8, <3>1, <3>2, ReturnTyped
  <2>3. pc'.point \notin CallPoints \cup {"prologue"} /\ Current' = pc'
    BY <1>5 DEF CallPoints, Current
  <2>4. /\ variables' = [letter \in Letters |-> variables'[letter]]
        /\ \A letter \in Letters : IsWord(program, variables'[letter])
    BY <1>1, <1>2, VariablesStay
  <2>5. program \in Programs /\ pc'.function \in DOMAIN program
    BY <1>2, <1>5 DEF Typed
  <2> QED BY <1>1, <1>5, <2>1, <2>2, <2>3, <2>4, <2>5 DEF Typed
<1> QED BY <1>1, <1>10, <1>16, <1>17, <1>18 DEF Interpreter!vars

\* A result that is pushed is where it was for the interpreter.
LEMMA PushSame ==
    ASSUME Stepping, PushResult \/ PushAgain
    PROVE  UNCHANGED Interpreter!vars /\ Typed'
<1> DEFINE number == Words + 1 - fp
           outer == Outer(memory, number)
           frame == FrameIn(memory, pc, number)
<1>1. /\ status = "running" /\ pc.point \in {"push", "again"} /\ Replace(0, <<result>>) /\ fp' = fp
      /\ UNCHANGED <<program, fp, result, variables, output, status>>
  BY DEF PushResult, PushAgain
<1>2. Inv /\ Inv' /\ Room /\ Room' /\ Typed
  BY DEF Stepping
<1>3. /\ pc.point = "push" => pc'.point = "element" /\ pc'.function = pc.function /\ pc'.at = pc.at + 1
      /\ pc.point = "again" => pc'.point = "begin" /\ pc'.function = pc.function /\ pc'.at = pc.at
  <2>1. pc.point = "push" => pc' = NextElement
    BY <1>1 DEF PushResult, PushAgain
  <2>2. pc.point = "again" => pc' = [pc EXCEPT !.point = "begin"]
    BY <1>1 DEF PushResult, PushAgain
  <2>3. pc = Point(pc.function, pc.at, pc.point)
    BY <1>2 DEF Inv, IsPoint
  <2> QED BY <2>1, <2>2, <2>3 DEF NextElement, Point
<1>4. /\ sp \in Int /\ fp \in Int /\ Words \in Nat /\ Bottom \in Nat /\ fp <= Words + 1 /\ fp > Bottom
      /\ sp' >= 1 /\ sp <= Bottom + 1 /\ Bottom <= Words + 1
  BY <1>1, <1>2, BottomNat DEF Inv, Room, IsBalanced, IsAbove, CallPoints
<1>5. /\ sp' = sp - 1
      /\ memory' = [address \in 1 .. Words |->
            IF address \in sp - 1 .. sp - 1 + 1 - 1 THEN <<result>>[sp - 1 + 1 - address] ELSE memory[address]]
  <2>1. Len(<<result>>) = 1 /\ sp + 0 - 1 = sp - 1
    BY <1>4
  <2> QED BY <1>1, <2>1, Zenon DEF Replace
<1>6. memory'[sp - 1] = result
  <2>1. sp - 1 \in 1 .. Words /\ sp - 1 \in sp - 1 .. sp - 1 + 1 - 1 /\ sp - 1 + 1 - (sp - 1) = 1
    BY <1>4, <1>5
  <2>2. memory'[sp - 1] = <<result>>[sp - 1 + 1 - (sp - 1)]
    BY <1>5, <2>1
  <2> QED BY <2>1, <2>2
<1>7. \A address \in 1 .. Words : address # sp - 1 => memory'[address] = memory[address]
  <2>1. \A address \in 1 .. Words : address # sp - 1 => address \notin sp - 1 .. sp - 1 + 1 - 1
    BY <1>4
  <2> QED BY <1>5, <2>1
<1>8. \A address \in fp .. Words : memory'[address] = memory[address]
  <2>1. \A address \in fp .. Words : address \in 1 .. Words /\ address # sp - 1
    BY <1>4
  <2> QED BY <1>7, <2>1
<1>9. \A address \in sp .. Bottom - 1 : memory'[address] = memory[address]
  <2>1. \A address \in sp .. Bottom - 1 : address \in 1 .. Words /\ address # sp - 1
    BY <1>4, <1>5
  <2> QED BY <1>7, <2>1
<1>10. pc'.point \in {"element", "begin"} /\ pc.point \in CallPoints
  BY <1>1, <1>3 DEF CallPoints
<1>11. Values' = Values
  <2>1. Values' = Up(memory', sp - 1)
    BY <1>2, <1>5, <1>10, ValuesThen DEF IsValues
  <2>2. CASE sp <= Bottom
    <3>1. Values = Append(Up(memory, sp), Interpreted(result))
      BY <1>2, <1>10, <2>2, ValuesNow DEF IsValues
    <3>2. PICK top \in Int : top = sp - 1 /\ top + 1 = sp /\ top < Bottom
      BY <1>4, <2>2
    <3>3. Up(memory', top) = Append(Up(memory', top + 1), Interpreted(memory'[top]))
      BY <3>2, UpMore
    <3>4. Up(memory', sp) = Up(memory, sp)
      BY <1>4, <1>9, <2>2, UpKept
    <3>5. memory'[top] = result
      BY <1>6, <3>2
    <3> QED BY <2>1, <3>1, <3>2, <3>3, <3>4, <3>5, Zenon
  <2>3. CASE sp > Bottom
    <3>1. Values = <<>>
      BY <1>2, <1>10, <2>3, ValuesNow DEF IsValues
    <3>2. sp - 1 = Bottom /\ Bottom - Bottom = 0 /\ Bottom \in Int /\ Bottom <= Bottom
      BY <1>4, <2>3
    <3>3. IsSequence(Up(memory', Bottom), Bottom - Bottom)
      BY <3>2, UpFacts
    <3>4. Up(memory', Bottom) = <<>>
      BY <3>2, <3>3, Sequences
    <3> QED BY <2>1, <3>1, <3>2, <3>4
  <2> QED BY <1>4, <2>2, <2>3
<1>12. Active = Append(outer, frame)
  BY <1>1, <1>2, ActiveNow DEF IsActive
<1>13. Active' = Append(outer, frame)
  <2>1. Active' = Append(Outer(memory', number), FrameIn(memory', pc', number)) /\ PlaceRight(Current', number)
    BY <1>1, <1>2, <1>10, ActiveThen DEF IsActive
  <2>2. Outer(memory', number) = outer /\ (PlaceRight(pc', number) => FrameIn(memory', pc', number) = FrameIn(memory, pc', number))
    BY <1>2, <1>8, OuterNow
  <2>3. Current' = pc'
    BY <1>10 DEF Current
  <2>4. FrameIn(memory, pc', number) = frame
    BY <1>1, <1>3 DEF FrameIn, LoopPoints
  <2> HIDE DEF outer, frame
  <2> QED BY <2>1, <2>2, <2>3, <2>4
<1>14. Active' = Active
  BY <1>12, <1>13, Zenon
<1>15. Contents' = Contents /\ Outcome' = Outcome
  BY <1>1, <1>2, VariablesStay DEF Outcome
<1>16. Typed'
  <2>1. StackTyped(program, memory', sp')
    <3> SUFFICES ASSUME NEW address \in sp - 1 .. Bottom - 1 PROVE IsWord(program, memory'[address])
      BY <1>5 DEF StackTyped
    <3>1. CASE address = sp - 1
      <4>1. sp <= Bottom
        BY <1>4, <3>1
      <4>2. IsWord(program, result)
        BY <1>2, <1>10, <4>1 DEF Typed
      <4> QED BY <1>6, <3>1, <4>2
    <3>2. CASE address # sp - 1
      <4>1. address \in sp .. Bottom - 1
        BY <1>4, <3>2
      <4>2. pc.point # "prologue"
        BY <1>1
      <4>3. IsWord(program, memory[address])
        BY <1>2, <4>1, <4>2 DEF Typed, StackTyped
      <4> QED BY <1>9, <4>1, <4>3
    <3> QED BY <3>1, <3>2
  <2>2. Current = pc /\ Current' = pc'
    BY <1>1, <1>10 DEF Current
  <2>3. SavedTyped(program, memory', fp, pc.function)
    <3>1. SavedTyped(program, memory, fp, pc.function)
      BY <1>2, <2>2 DEF Typed
    <3> QED BY <1>4, <1>8, <3>1, SavedTypedKept
  <2>4. /\ variables' = [letter \in Letters |-> variables'[letter]]
        /\ \A letter \in Letters : IsWord(program, variables'[letter])
    BY <1>1, <1>2, VariablesStay
  <2>5. program \in Programs /\ pc'.function = pc.function /\ pc'.function \in DOMAIN program
    BY <1>1, <1>2, <1>3 DEF Typed
  <2>6. pc'.point \notin CallPoints \cup {"prologue"}
    BY <1>10 DEF CallPoints
  <2> QED BY <1>1, <2>1, <2>2, <2>3, <2>4, <2>5, <2>6 DEF Typed
<1> QED BY <1>1, <1>11, <1>14, <1>15, <1>16 DEF Interpreter!vars

\* A function that has returned is what the interpreter has left, and what it
\* returns is on top of the values again.
LEMMA ReturnSame ==
    ASSUME Stepping, Return
    PROVE  Interpreter!Return /\ Typed'
<1> DEFINE number == Words + 1 - fp
           point == memory[fp].point
           outer == Outer(memory, number)
<1>1. /\ status = "running" /\ pc.point = "element" /\ pc.at > Len(Elements) /\ pc.function # Main
      /\ result' = Peek(1) /\ sp' = sp + 1 /\ pc' = point /\ fp' = fp + 1
      /\ UNCHANGED <<program, memory, variables, output, status>>
  BY DEF Return, AtEnd
<1>2. Inv /\ Inv' /\ Room /\ Room' /\ Typed
  BY DEF Stepping
<1>3. sp \in Int /\ fp \in Int /\ Words \in Nat /\ Bottom \in Nat /\ sp <= Bottom
  BY <1>1, <1>2, BottomNat DEF Inv, IsAbove
<1>4. fp \in fp .. Words /\ IsReturn(memory[fp])
  <2>1. (Current.point \in LoopPoints) = FALSE /\ Current = pc
    BY <1>1 DEF Current, LoopPoints
  <2>2. IsBalanced(memory, fp, FALSE, pc.function)
    BY <1>2, <2>1 DEF Inv
  <2> QED BY <1>1, <1>3, <2>2, ReturnTaken
<1>5. pc'.point \in CallPoints /\ pc'.point # "prologue" /\ Current' = pc' /\ memory[fp].type = "Return"
  BY <1>1, <1>4 DEF IsReturn, CallPoints, Current
<1>6. PICK lower \in Nat : lower + 1 = number /\ lower = Words + 1 - fp' /\ Words + 1 - (lower + 1) = fp
                           /\ (lower + 1) - 1 = lower
  <2>1. Words - fp \in Nat
    BY <1>3, <1>4
  <2>2. Words - fp + 1 = number /\ Words - fp = Words + 1 - (fp + 1) /\ Words + 1 - (Words - fp + 1) = fp
        /\ (Words - fp + 1) - 1 = Words - fp
    BY <1>3
  <2> QED BY <1>1, <2>1, <2>2
<1>7. /\ Outer(memory, lower + 1) = Append(Outer(memory, lower), SavedFrame(memory, lower + 1))
      /\ Count(memory, lower + 1) = Count(memory, lower) + 1 /\ Count(memory, lower) \in Nat
  BY <1>5, <1>6, OuterMore, Counted
<1>8. SavedFrame(memory, lower + 1) = FrameIn(memory, point, lower)
  BY <1>6, Zenon DEF SavedFrame
<1>9. Active' = Append(Outer(memory, lower), FrameIn(memory, point, lower))
  <2>1. Active' = Append(Outer(memory', lower), FrameIn(memory', pc', lower))
    BY <1>2, <1>5, <1>6, ActiveThen, Zenon DEF IsActive
  <2> QED BY <1>1, <2>1, Zenon
<1>10. /\ Interpreter!Front(Active) = outer /\ Interpreter!Depth = Count(memory, number) + 1
       /\ Interpreter!Elements = Elements /\ ~Interpreter!InLoop /\ Interpreter!Current.at = pc.at
  BY <1>1, <1>2, FunctionNow, ElementNow
<1>11. Active' = Interpreter!Front(Active)
  BY <1>6, <1>7, <1>8, <1>9, <1>10, Zenon
<1>12. Interpreter!Depth > 1
  BY <1>6, <1>7, <1>10
<1>13. Values' = Values
  <2>1. Values = Up(memory, sp) /\ IsValues(Values', memory, sp + 1, pc'.point, Peek(1))
    <3>1. Values = Up(memory, sp)
      BY <1>1, <1>2, ValuesNow DEF IsValues
    <3>2. IsValues(Values', memory', sp', pc'.point, result')
      BY <1>2, ValuesThen
    <3> QED BY <1>1, <3>1, <3>2, Zenon
  <2>2. CASE sp < Bottom
    <3>1. Values' = Append(Up(memory, sp + 1), Interpreted(Peek(1)))
      <4>1. sp + 1 <= Bottom
        BY <1>3, <2>2
      <4> QED BY <1>5, <2>1, <4>1, Zenon DEF IsValues
    <3>2. Up(memory, sp) = Append(Up(memory, sp + 1), Interpreted(memory[sp]))
      BY <1>3, <2>2, UpMore
    <3>3. Peek(1) = memory[sp]
      <4>1. sp + 1 - 1 = sp
        BY <1>3
      <4> QED BY <4>1, Zenon DEF Peek
    <3> QED BY <2>1, <3>1, <3>2, <3>3, Zenon
  <2>3. CASE sp = Bottom
    <3>1. sp + 1 > Bottom /\ Bottom - sp = 0 /\ sp <= Bottom
      BY <1>3, <2>3
    <3>2. Values' = <<>>
      BY <1>5, <2>1, <3>1 DEF IsValues
    <3>3. IsSequence(Up(memory, sp), Bottom - sp)
      BY <1>3, <3>1, UpFacts
    <3>4. Up(memory, sp) = <<>>
      BY <3>1, <3>3, Sequences
    <3> QED BY <2>1, <3>2, <3>4
  <2> QED BY <1>3, <2>2, <2>3
<1>14. Contents' = Contents /\ UNCHANGED <<program, output, Outcome>> /\ Outcome = "running"
  BY <1>1, <1>2, VariablesStay DEF Outcome
<1>15. Typed'
  <2>1. StackTyped(program, memory', sp')
    <3>1. \A address \in sp + 1 .. Bottom - 1 : address \in sp .. Bottom - 1
      BY <1>3
    <3>2. StackTyped(program, memory, sp)
      BY <1>1, <1>2 DEF Typed
    <3> QED BY <1>1, <3>1, <3>2 DEF StackTyped
  <2>2. SavedTyped(program, memory, fp, pc.function)
    BY <1>1, <1>2 DEF Typed, Current
  <2>3. point.function \in DOMAIN program /\ (point.function = Main => ~ReturnsBehind(memory, fp + 1))
    BY <1>4, <1>5, <2>2 DEF SavedTyped
  <2>4. PICK one \in Nat : one = 1
    OBVIOUS
  <2>5. SavedTyped(program, memory, fp + one, point.function)
    BY <1>3, <2>2, <2>3, <2>4, TypedLess
  <2>6. sp' <= Bottom => IsWord(program, result')
    <3>1. sp + 1 <= Bottom => sp \in sp .. Bottom - 1
      BY <1>3
    <3>2. sp + 1 <= Bottom => IsWord(program, memory[sp])
      BY <1>1, <1>2, <3>1 DEF Typed, StackTyped
    <3>3. sp + 1 - 1 = sp
      BY <1>3
    <3> QED BY <1>1, <3>2, <3>3 DEF Peek
  <2>7. /\ variables' = [letter \in Letters |-> variables'[letter]]
        /\ \A letter \in Letters : IsWord(program, variables'[letter])
    BY <1>1, <1>2, VariablesStay
  <2>8. program \in Programs /\ SavedTyped(program, memory, fp + 1, point.function)
    BY <1>2, <2>4, <2>5 DEF Typed
  <2> QED BY <1>1, <1>5, <2>1, <2>3, <2>6, <2>7, <2>8 DEF Typed
<1>16. Interpreter!AtEnd
  BY <1>1, <1>10, <1>14 DEF Interpreter!AtEnd
<1> QED BY <1>11, <1>12, <1>13, <1>14, <1>15, <1>16 DEF Interpreter!Return

\* Only status changes.
StatusOnly == UNCHANGED <<program, memory, sp, fp, result, pc, variables, output>>

\* Nothing else has changed then.
LEMMA StatusSame ==
    ASSUME Typed, StatusOnly
    PROVE  /\ Typed'
           /\ Values' = Values /\ Active' = Active /\ Contents' = Contents
           /\ program' = program /\ output' = output
<1>1. UNCHANGED <<program, memory, sp, fp, result, pc, variables, output>>
  BY DEF StatusOnly
<1>2. Saved' = Saved /\ Peek(1)' = Peek(1) /\ Stack' = Stack /\ Current' = Current
  BY <1>1 DEF Saved, Peek, Stack, Current
<1>3. Typed'
  BY <1>1, <1>2 DEF Typed
<1>4. Values' = Values
  BY <1>1, <1>2 DEF Values
<1>5. Active' = Active
  <2>1. Active = ActiveOf(SavedOf(memory, fp), pc, Peek(1)) /\ Active' = ActiveOf(SavedOf(memory', fp'), pc', Peek(1)')
    BY ActiveAre
  <2> QED BY <1>1, <1>2, <2>1, Zenon
<1>6. Contents' = Contents
  BY <1>1 DEF Contents
<1> QED BY <1>1, <1>3, <1>4, <1>5, <1>6

\* At the end of the main function nothing is calling.
LEMMA MainEnds ==
    ASSUME Inv, Typed, AtEnd, pc.function = Main
    PROVE  /\ Interpreter!Depth = 1 /\ ~Interpreter!InLoop /\ Interpreter!Current.at > Len(Interpreter!Elements)
           /\ Interpreter!Have(<<"Integer">>) <=> Begins(Stack, <<"Integer">>)
<1> DEFINE number == Words + 1 - fp
<1>1. pc.point = "element" /\ pc.at > Len(Elements)
  BY DEF AtEnd
<1>2. /\ number \in Nat /\ Interpreter!Depth = Count(memory, number) + 1 /\ Interpreter!Elements = Elements
      /\ ~Interpreter!InLoop /\ Interpreter!Current.at = pc.at
  BY <1>1, FunctionNow, ElementNow
<1>3. ~ReturnsBehind(memory, fp) /\ fp \in Int
  BY <1>1 DEF Typed, SavedTyped, Current, Inv
<1>4. Ret(memory, number) = {}
  <2>1. \A index \in 1 .. number : Words + 1 - index \in fp .. Words
    BY <1>2, <1>3, BottomNat
  <2> QED BY <1>3, <2>1 DEF Ret, ReturnsBehind
<1>5. Count(memory, number) = 0
  BY <1>4, FS_EmptySet DEF Count
<1>6. Interpreter!Have(<<"Integer">>) <=> Begins(Stack, <<"Integer">>)
  <2> DEFINE types == <<"Integer">>
  <2>1. IsSequence(types, 1)
    BY Tuples
  <2> HIDE DEF types
  <2>2. PICK one \in Nat : one = 1
    OBVIOUS
  <2>3. Begins(Stack, types) <=> Begins(Interpreter!Downwards, types)
    BY <1>1, <2>1, <2>2, BeginsSame
  <2>4. Interpreter!Have(types) <=> Begins(Interpreter!Downwards, types)
    BY SameElements DEF Interpreter!Have
  <2> QED BY <2>3, <2>4 DEF types
<1> QED BY <1>1, <1>2, <1>5, <1>6

\* The program exits with the integer that the interpreter does.
LEMMA ExitSame ==
    ASSUME Stepping, Exit
    PROVE  Interpreter!Exit /\ Typed'
<1>1. /\ AtEnd /\ pc.function = Main /\ Begins(Stack, <<"Integer">>) /\ status' = "exited" /\ StatusOnly
      /\ status = "running" /\ Inv /\ Typed
  BY DEF Exit, StatusOnly, AtEnd, Stepping
<1>2. /\ Typed' /\ Values' = Values /\ Active' = Active /\ Contents' = Contents
      /\ program' = program /\ output' = output
  BY <1>1, StatusSame
<1>3. Outcome = "running" /\ Outcome' = "exited"
  BY <1>1 DEF Outcome
<1>4. Interpreter!Depth = 1 /\ Interpreter!AtEnd /\ Interpreter!Have(<<"Integer">>)
  BY <1>1, <1>3, MainEnds DEF Interpreter!AtEnd
<1> QED BY <1>2, <1>3, <1>4 DEF Interpreter!Exit

\* What is undefined is an error for the interpreter.
LEMMA FailSame ==
    ASSUME Stepping, Undefined
    PROVE  Interpreter!Fail /\ Typed'
<1>1. /\ status' = "undefined" /\ StatusOnly /\ status = "running" /\ Inv /\ Typed /\ Exact
  BY DEF Undefined, StatusOnly, AtElement, AtEnd, Stepping
<1>2. /\ Typed' /\ Values' = Values /\ Active' = Active /\ Contents' = Contents
      /\ program' = program /\ output' = output
  BY <1>1, StatusSame
<1>3. Outcome = "running" /\ Outcome' = "error"
  BY <1>1 DEF Outcome
<1>4. \/ ~Interpreter!InLoop /\ Interpreter!Current.at \in DOMAIN Interpreter!Elements
            /\ Interpreter!FailsOn(Interpreter!Elements[Interpreter!Current.at], Interpreter!Downwards)
      \/ Interpreter!InLoop /\ Interpreter!Current.loop.testing /\ ~Interpreter!Have(<<"Integer">>)
      \/ Interpreter!AtEnd /\ Interpreter!Depth = 1 /\ ~Interpreter!Have(<<"Integer">>)
  <2>1. CASE AtElement /\ FailsOn(Elements[pc.at], Stack)
    <3>1. FailsOn(Elements[pc.at], Interpreter!Downwards)
      BY <1>1, <2>1, FailsSame
    <3>2. pc.point = "element" /\ pc.at \in DOMAIN Elements
      BY <2>1 DEF AtElement
    <3>3. ~Interpreter!InLoop /\ Interpreter!Elements = Elements /\ Interpreter!Current.at = pc.at
      BY <1>1, <3>2, ElementNow
    <3> QED BY <3>1, <3>2, <3>3, SameElements
  <2>2. CASE pc.point = "test" /\ (sp > Bottom \/ result.type # "Integer")
    <3> DEFINE loop == [condition |-> memory[fp].value, body |-> memory[fp + 1].value, testing |-> pc.point = "test"]
               frame == [function |-> pc.function, at |-> pc.at + 1, loop |-> loop]
    <3>1. Interpreter!InLoop /\ Interpreter!Current.loop.testing
      <4>1. Interpreter!InLoop /\ Interpreter!Current = frame
        BY <1>1, <2>2, LoopNow
      <4>2. frame.loop = loop /\ loop.testing = (pc.point = "test")
        OBVIOUS
      <4>3. Interpreter!Current.loop.testing = (pc.point = "test")
        <5> HIDE DEF frame, loop
        <5> QED BY <4>1, <4>2, Zenon
      <4> QED BY <2>2, <4>1, <4>3, Zenon
    <3>2. ~Interpreter!Have(<<"Integer">>)
      <4>1. ~(sp <= Bottom /\ result.type = "Integer")
        BY <1>1, <2>2, BottomNat DEF Inv
      <4> QED BY <1>1, <2>2, <4>1, ResultNow DEF CallPoints
    <3> QED BY <3>1, <3>2
  <2>3. CASE AtEnd /\ pc.function = Main /\ ~Begins(Stack, <<"Integer">>)
    BY <1>1, <1>3, <2>3, MainEnds DEF Interpreter!AtEnd
  <2> QED BY <2>1, <2>2, <2>3 DEF Undefined
<1> QED BY <1>2, <1>3, <1>4 DEF Interpreter!Fail

\* Whatever the program does, the interpreter does or has done already.
LEMMA NextSame ==
    ASSUME Stepping, [Next]_vars
    PROVE  [Interpreter!Next]_(Interpreter!vars) /\ Typed'
<1>1. CASE Literal
  BY <1>1, LiteralSame DEF Interpreter!Next
<1>2. CASE Assign
  BY <1>2, AssignSame DEF Interpreter!Next
<1>3. CASE Dereference
  BY <1>3, DereferenceSame DEF Interpreter!Next
<1>4. CASE Unary
  BY <1>4, UnarySame DEF Interpreter!Next
<1>5. CASE EmitBinary
  BY <1>5, BinarySame DEF Interpreter!Next
<1>6. CASE EmitComparison
  BY <1>6, ComparisonSame DEF Interpreter!Next
<1>7. CASE Arrange
  BY <1>7, ArrangeSame DEF Interpreter!Next
<1>8. CASE Put
  BY <1>8, PutSame DEF Interpreter!Next
<1>9. CASE Get
  BY <1>9, GetSame DEF Interpreter!Next
<1>10. CASE Call
  BY <1>10, CallSame DEF Interpreter!Next
<1>11. CASE If
  BY <1>11, IfSame DEF Interpreter!Next
<1>12. CASE Prologue \/ PushResult \/ PushAgain
  BY <1>12, PrologueSame, PushSame
<1>13. CASE Return
  BY <1>13, ReturnSame DEF Interpreter!Next
<1>14. CASE While
  BY <1>14, WhileSame DEF Interpreter!Next
<1>15. CASE CallCondition
  BY <1>15, ConditionSame DEF Interpreter!Next
<1>16. CASE TestCondition
  BY <1>16, TestSame DEF Interpreter!Next
<1>17. CASE Exit
  BY <1>17, ExitSame DEF Interpreter!Next
<1>18. CASE Undefined
  BY <1>18, FailSame DEF Interpreter!Next
<1>19. CASE UNCHANGED vars
  <2>1. StatusOnly /\ status' = status /\ Typed
    BY <1>19 DEF vars, StatusOnly, Stepping
  <2>2. /\ Typed' /\ Values' = Values /\ Active' = Active /\ Contents' = Contents
        /\ program' = program /\ output' = output
    BY <2>1, StatusSame
  <2>3. Outcome' = Outcome
    BY <2>1 DEF Outcome
  <2> QED BY <2>2, <2>3 DEF Interpreter!vars
<1> QED BY <1>1, <1>2, <1>3, <1>4, <1>5, <1>6, <1>7, <1>8, <1>9, <1>10, <1>11, <1>12, <1>13, <1>14, <1>15,
         <1>16, <1>17, <1>18, <1>19 DEF Next

\* The program begins as the interpreter does.
LEMMA InitSame ==
    ASSUME Init, Room
    PROVE  Interpreter!Init /\ Typed
<1>1. /\ program \in Programs
      /\ memory = [address \in 1 .. Words |-> IF address = Bottom - 1 THEN Word(0) ELSE Void]
      /\ sp = Bottom - 1 /\ fp = Words + 1 /\ pc = Point(Main, 1, "element")
      /\ variables = [letter \in Letters |-> Void]
      /\ output = [last |-> 0, count |-> 0] /\ status = "running"
  BY DEF Init
<1>2. Inv
  BY InitInv
<1>3. Bottom \in Nat /\ Words \in Nat /\ Bottom <= Words + 1 /\ sp >= 1
  BY BottomNat DEF Room
<1>4. pc.point = "element" /\ pc.function = Main /\ pc.at = 1 /\ Current = pc
  BY <1>1 DEF Point, Current
<1>5. memory[Bottom - 1] = Word(0)
  <2>1. Bottom - 1 \in 1 .. Words
    BY <1>1, <1>3
  <2> QED BY <1>1, <2>1
<1>6. InRange(0)
  BY Sizes
<1>7. IsWord(program, Word(0)) /\ Interpreted(Word(0)) = Integer(0)
  BY <1>6, WordBack DEF IsWord
<1>8. Values = <<Integer(0)>>
  <2>1. Values = Up(memory, sp)
    BY <1>2, <1>4, ValuesNow DEF IsValues
  <2>2. sp \in Int /\ sp <= Bottom /\ Bottom - sp = 1 /\ Bottom - 1 = sp
    BY <1>1, <1>3
  <2>3. IsSequence(Up(memory, sp), 1) /\ Up(memory, sp)[1] = Interpreted(memory[sp])
    <3>1. IsSequence(Up(memory, sp), Bottom - sp)
          /\ \A index \in 1 .. Bottom - sp : Up(memory, sp)[index] = Interpreted(memory[Bottom - index])
      BY <2>2, UpFacts
    <3>2. 1 \in 1 .. Bottom - sp
      BY <2>2
    <3> QED BY <2>2, <3>1, <3>2
  <2> DEFINE one == <<Integer(0)>>
             up == Up(memory, sp)
             zero == Integer(0)
  <2>4. IsSequence(one, 1) /\ one[1] = zero
    BY Tuples
  <2>5. up[1] = zero /\ IsSequence(up, 1)
    BY <1>1, <1>5, <1>7, <2>3
  <2> HIDE DEF one, up, zero
  <2>6. \A index \in 1 .. 1 : up[index] = one[index]
    <3>1. 1 .. 1 = {1}
      OBVIOUS
    <3> QED BY <2>4, <2>5, <3>1
  <2>7. up = one
    BY <2>4, <2>5, <2>6, SameSequences
  <2> QED BY <2>1, <2>7, Zenon DEF one, up
<1>9. Active = <<Interpreter!Frame(Main)>>
  <2> DEFINE frame == [function |-> Main, at |-> 1, loop |-> NoLoop]
             outer == Outer(memory, 0)
  <2>1. Active = Append(outer, FrameIn(memory, pc, 0))
    <3>1. Words + 1 - fp = 0
      BY <1>1, <1>3
    <3>2. Active = Append(Outer(memory, Words + 1 - fp), FrameIn(memory, pc, Words + 1 - fp))
      BY <1>2, <1>4, ActiveNow, Zenon DEF IsActive
    <3> QED BY <3>1, <3>2, Zenon
  <2>2. FrameIn(memory, pc, 0) = frame
    BY <1>4 DEF FrameIn, LoopPoints
  <2>3. outer = <<>>
    <3>1. IsSequence(outer, Count(memory, 0)) /\ Count(memory, 0) = 0
      BY OuterSequence, Counted
    <3> HIDE DEF outer
    <3> QED BY <3>1, Sequences
  <2>4. Interpreter!Frame(Main) = frame
    BY SameElements DEF Interpreter!Frame
  <2>5. \A any : Append(<<>>, any) = <<any>>
    OBVIOUS
  <2> HIDE DEF frame, outer
  <2>6. Active = Append(<<>>, frame)
    BY <2>1, <2>2, <2>3, Zenon
  <2> QED BY <2>4, <2>5, <2>6, Zenon
<1>10. Contents = [letter \in Letters |-> Void]
  <2>1. Interpreted(Void) = Void
    BY DEF Interpreted, Void, Value
  <2> QED BY <1>1, <2>1 DEF Contents
<1>11. program \in Interpreter!AllPrograms /\ Outcome = "running"
  <2>1. Interpreter!AllPrograms = AllPrograms
    <3>1. Interpreter!Symbols = Symbols
      BY SameElements, Zenon DEF Interpreter!Symbols, Symbols
    <3> QED BY <3>1, Zenon DEF Interpreter!AllPrograms, AllPrograms
  <2> QED BY <1>1, <2>1, EmitterAssumption DEF Outcome
<1>12. Typed
  <2>1. StackTyped(program, memory, sp)
    <3> SUFFICES ASSUME NEW address \in sp .. Bottom - 1 PROVE IsWord(program, memory[address])
      BY DEF StackTyped
    <3>1. address = Bottom - 1
      BY <1>1, <1>3
    <3> QED BY <1>5, <1>7, <3>1
  <2>2. SavedTyped(program, memory, fp, Main)
    <3>1. fp .. Words = {}
      BY <1>1, <1>3
    <3>2. Main \in DOMAIN program
      BY <1>1, ProgramsAssumption
    <3> QED BY <3>1, <3>2 DEF SavedTyped, ReturnsBehind
  <2>3. \A letter \in Letters : IsWord(program, variables[letter])
    BY <1>1 DEF IsWord
  <2>4. pc.point \notin CallPoints /\ Main \in DOMAIN program
    BY <1>1, <1>4, ProgramsAssumption DEF CallPoints
  <2> QED BY <1>1, <1>4, <2>1, <2>2, <2>3, <2>4 DEF Typed
<1>13. Interpreter!Init
  <2>1. Values = <<Interpreter!Integer(0)>> /\ Active = <<Interpreter!Frame(Interpreter!Main)>>
    BY <1>8, <1>9, SameElements, Zenon
  <2>2. Contents = [letter \in Interpreter!Letters |-> Interpreter!Void]
    BY <1>10, SameElements, Zenon DEF Interpreter!Letters, Letters
  <2> QED BY <1>1, <1>11, <2>1, <2>2, Zenon DEF Interpreter!Init
<1> QED BY <1>12, <1>13

\* A program that is compiled does what the interpreter does with it, whatever
\* the program, as long as there is room for what it saves and as long as what
\* it computes is exact: each of its steps is one of the interpreter or none.
THEOREM Implementation ==
    Spec /\ []Room /\ []Exact => Interpreter!Init /\ [][Interpreter!Next]_(Interpreter!vars)
<1>1. Init /\ Room => Interpreter!Init /\ Inv /\ Typed
  BY InitInv, InitSame
<1>2. (Inv /\ Typed) /\ (Room /\ Exact) /\ (Room /\ Exact)' /\ [Next]_vars
        => (Inv /\ Typed)' /\ [Interpreter!Next]_(Interpreter!vars)
  <2> SUFFICES ASSUME Inv, Typed, Room, Exact, Room', [Next]_vars
               PROVE  (Inv /\ Typed)' /\ [Interpreter!Next]_(Interpreter!vars)
    OBVIOUS
  <2>1. Inv'
    BY NextInv
  <2>2. Stepping
    BY <2>1 DEF Stepping
  <2> QED BY <2>1, <2>2, NextSame
<1> QED BY <1>1, <1>2, PTL DEF Spec
===============================================================================
