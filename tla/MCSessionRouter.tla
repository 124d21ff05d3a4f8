-------------------------- MODULE MCSessionRouter --------------------------
(* A root target, a frame under it and a worker under the frame.           *)
EXTENDS SessionRouter
CONSTANTS page, frame, worker, raw, c1, c2, c3

MCBelow == [t \in Targets |->
  IF t = page THEN Targets
  ELSE IF t = frame THEN Targets \cap {frame, worker} ELSE {t}]
============================================================================
