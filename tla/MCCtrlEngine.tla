---------------------------- MODULE MCCtrlEngine ----------------------------
(* Two functions whose argument goes through the same element of gis2, and *)
(* one whose argument is built into the IR.                                *)
EXTENDS CtrlEngine

CONSTANTS exec, setText, setTitle, a, b, sval0

MCSymbols == {exec, setText, setTitle}
MCArgs == {a, b}
MCSlots == {sval0}
MCSlotOf == [s \in MCSymbols |-> IF s = exec THEN NULL ELSE sval0]
=============================================================================
