--------------------------- MODULE MCCaptureSession ---------------------------
(* The captures of one session are interchangeable only by their order, so *)
(* TLC runs the session as it is; the bounds are in the configurations.    *)
EXTENDS CaptureSession
=============================================================================
