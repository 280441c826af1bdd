----------------------------- MODULE MCLfddPci ------------------------------
(***************************************************************************)
(* Instances of LfddPci for TLC: two devices of two windows each, windows  *)
(* of two double words, bits for bytes.                                    *)
(***************************************************************************)
EXTENDS LfddPci

CONSTANTS d1, d2

\* Device d2 differs from d1 in every byte, so a mix-up shows.
MCBootCfg ==
    {[d \in Devs |-> [r \in Regs |-> IF d = d1 THEN r % 2 ELSE 1 - (r % 2)]]}

MCKernelIdx == [dev |-> d2, reg |-> 4]

C(op, width, dev, reg, base, b) ==
    [op |-> op, width |-> width, dev |-> dev, reg |-> reg, phy_base |-> base,
     buf |-> [l \in Lanes |-> b]]

PortCalls ==
    {C("read", 1, d1, 1, "none", 0), C("mass", 4, d2, 0, "none", 0),
     C("write", 2, d1, 2, "none", 0)}

MmioCalls ==
    {C("read", 2, d1, 2, "ecam", 0), C("mass", 4, d1, 8, "ecam", 0),
     C("write", 1, d2, 6, "ecam", 1), C("write", 4, d1, 0, "ecam", 0)}

DataPortCalls == {C("read", 4, d2, 4, "cfc", 0), C("write", 1, d2, 6, "cfc", 0)}

RefusedCalls ==
    {C("mass", 4, d1, 0, "low", 0), C("write", 4, d1, 2, "none", 1)}

MCCalls == PortCalls \cup MmioCalls \cup DataPortCalls \cup RefusedCalls

\* Two lfdk instances that only look.
MCReadCalls == {C("read", 1, d1, 0, "ecam", 0), C("mass", 4, d2, 0, "ecam", 0)}

\* A port reader that finds the device as soon as it is registered.
MCEarlyCalls == {C("read", 1, d1, 1, "none", 0)}
=============================================================================
