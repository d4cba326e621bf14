-------------------------- MODULE MCExportRefresh --------------------------
(* Model-checking instance of ExportRefresh.  No symmetry: every run of it *)
(* checks liveness.                                                        *)
EXTENDS ExportRefresh
=============================================================================
