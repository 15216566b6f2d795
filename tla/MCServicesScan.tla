--------------------------- MODULE MCServicesScan ---------------------------
(***************************************************************************)
(* Small services for ServicesScan: each part of a configuration has two   *)
(* values, for all that matters is whether a part is as it was read; the   *)
(* base part may grow and the description may be no text.                  *)
(***************************************************************************)
EXTENDS ServicesScan

MCValues == <<{"path", "long path"}, {"text", "bad text"}, {"on", "off"}>>

\* A service without an image path.
MCNoPath == <<{"path", "no path"}, {"text"}, {"on"}>>

\* One name is longer, so that services of three sizes meet the limits.
MCNameSize == <<1, 2>>

MCSize == [v \in UNION Range(Values) |-> IF v = "long path" THEN 2 ELSE 1]
=============================================================================
