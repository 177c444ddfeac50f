------------------------------- MODULE HexFile -------------------------------
(*****************************************************************************)
(* The image of a program written as an Intel HEX file: the constructor of   *)
(* ECS::Object::HexFile (tools/objhexfile.cpp), which the linker calls with  *)
(* the bytes and the origin of the image it has arranged (tools/linker.cpp). *)
(* A byte is represented by its offset in the image.  The file is a sequence *)
(* of records, each with the lower half of an address; the upper half is the *)
(* one that was set last.  Checksums and the text of records are left out.   *)
(*                                                                           *)
(* What is marked as faulty is not referred to, see Ranges.                  *)
(*****************************************************************************)
EXTENDS ByteArrangement

CONSTANTS
    Bank,           \* the number of addresses with the same upper half
    Banks,          \* the number of upper halves
    RecordLength    \* the number of bytes of a record

ASSUME HexFileAssumption ==
    Bank \in Nat \ {0} /\ Banks \in Nat \ {0} /\ RecordLength \in 1 .. Bank

Record(type, offset, carried) == [type |-> type, offset |-> offset, carried |-> carried]

\* Faulty: only the first record sets the upper half.
SetsUpper_First(offset, displacement) ==
    offset = 0 /\ (offset + displacement) \div Bank # 0

\* Whether the upper half of the address changes, which begins as zero.
SetsUpper(offset, displacement) ==
    LET address == (offset + displacement) % Bank
    IN  (address = 0 \/ offset = 0) /\ (offset + displacement) \div Bank # 0

\* The offset after a record that begins at an address: records end with the
\* bank or the image, if they are not full before.
NextOffset(offset, address, size) ==
    LET full == IF RecordLength < Bank - address THEN RecordLength ELSE Bank - address
    IN  IF offset + full < size THEN offset + full ELSE size

Records(size, displacement) ==
    LET after[offset \in 0 .. size] ==
            LET address == (offset + displacement) % Bank
                upper == ((offset + displacement) \div Bank) % Banks
                next == NextOffset(offset, address, size)
            IN  IF offset = size THEN <<Record("EndOfFile", 0, <<>>)>>
                ELSE (IF SetsUpper(offset, displacement)
                      THEN <<Record("ExtendedLinearAddress", 0, upper)>> ELSE <<>>)
                     \o <<Record("Data", address, [n \in 1 .. next - offset |-> offset + n - 1])>>
                     \o after[next]
    IN  after[0]

-------------------------------------------------------------------------------
(* What a device is programmed with: the bytes at each address.              *)

UpperAt(records, index) ==
    LET setting == {i \in 1 .. index : records[i].type = "ExtendedLinearAddress"}
    IN  IF setting = {} THEN 0
        ELSE records[CHOOSE i \in setting : \A j \in setting : j <= i].carried

\* The bytes that are sent, as pairs of a record and a position in it.
Sent(records) ==
    {sent \in (DOMAIN records) \X (1 .. RecordLength) :
        records[sent[1]].type = "Data" /\ sent[2] <= Len(records[sent[1]].carried)}

ByteOf(records, sent) == records[sent[1]].carried[sent[2]]

Programmed(records) ==
    {<<Bank * UpperAt(records, sent[1]) + records[sent[1]].offset + sent[2] - 1, ByteOf(records, sent)>> :
        sent \in Sent(records)}

(* The file of an image that ends within the addresses the format has, has   *)
(* just the bytes of the image, each at its address and only once, wherever  *)
(* the image begins and whichever banks it crosses.                          *)
ImageProgrammed ==
    failed \/ Bank * Banks < arrangement.origin + arrangement.extent \/
        LET records == Records(arrangement.extent, arrangement.origin)
        IN  /\ Programmed(records) =
                {<<arrangement.origin + offset, offset>> : offset \in 0 .. arrangement.extent - 1}
            /\ \A sent, other \in Sent(records) :
                ByteOf(records, sent) = ByteOf(records, other) => sent = other
===============================================================================
