------------------------------- MODULE MCWdc --------------------------------
(* Wdc with an image that is longer than its file, without overlays and    *)
(* with two: the first has a block, the second is new and empty.           *)
EXTENDS Wdc

AllZero == [b \in Blocks |-> Zero]
NoBlocks == [x \in {Byte(b): b \in Blocks} |-> {}]

MCPayloads == {<<"a">>, <<"a", "b">>}

MCZero == Sector("zero")

MCLeftovers == {Sector("left")}

File(content, n) == [content |-> content, size |-> n]
NewOverlay == [data |-> File(AllZero, 0), bitmap |-> File(NoBlocks, 0)]
ShortBase == File([AllZero EXCEPT ![0] = Sector("base")], 1)

MCImages ==
    {[base |-> ShortBase, overlays |-> <<>>],
     [base |-> ShortBase,
      overlays |-> <<[data |-> File([AllZero EXCEPT ![0] = Sector("old")], 1),
                      bitmap |-> File([NoBlocks EXCEPT ![0] = {0}], 1)],
                     NewOverlay>>]}
=============================================================================
