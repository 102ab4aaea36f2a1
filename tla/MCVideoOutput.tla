--------------------------- MODULE MCVideoOutput ---------------------------
(* Two buffers, so that one is written or lost while the other is with the *)
(* driver; two pixel formats; frames of up to two rows of four; and two    *)
(* other sizes of a device, shorter and taller than most frames.           *)
EXTENDS VideoOutput

CONSTANTS yuyv, mjpg

MCOtherSizes == {[rows |-> 1, cols |-> 2], [rows |-> 3, cols |-> 2]}
=============================================================================
