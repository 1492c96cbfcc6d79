-------------------------------- MODULE Tabs --------------------------------
(* The tabs of one user's browser, and what stands for null.               *)
CONSTANTS Tab, None
=============================================================================
