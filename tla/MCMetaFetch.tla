----------------------------- MODULE MCMetaFetch -----------------------------
(***************************************************************************)
(* Five readers: two executed at once, one with an array of its own, and   *)
(* the two that share theirs; two at a time, with results of none, one and *)
(* more rows than an array holds.                                          *)
(***************************************************************************)
EXTENDS MetaFetch

MCReaders == {"KeyColumns", "AllTabColumns", "ConsColumnsKey", "ConsColumnsRef", "ConsOfCheck"}
MCQueue == <<"KeyColumns", "AllTabColumns", "ConsColumnsKey", "ConsColumnsRef", "ConsOfCheck">>
MCArrays == {"key", "column", "cons", "check"}
MCTable == [r \in MCReaders |-> CASE r = "KeyColumns" -> "key" [] r = "AllTabColumns" -> "column"
                                  [] r = "ConsOfCheck" -> "check" [] OTHER -> "cons"]
MCRows == [r \in MCReaders |-> CASE r = "KeyColumns" -> <<>> [] r = "AllTabColumns" -> <<11, 12>>
                                 [] r = "ConsColumnsKey" -> <<21, 22, 23>>
                                 [] r = "ConsColumnsRef" -> <<31>> [] OTHER -> <<41, 42, 43>>]
==============================================================================
