----------------------------- MODULE MCConnPool -----------------------------
(* The services on small instances; the cfg chooses the bounds.            *)
EXTENDS Services, TLC

MCBanners == {<<"1800000000", "1803000000">>}
=============================================================================
