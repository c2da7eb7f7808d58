--------------------------- MODULE MCRealmManager ---------------------------
(* Two goroutines call the manager about two realms, while another adds an  *)
(* authenticated peer.                                                      *)
EXTENDS RealmManager

CONSTANTS c1, c2, r1, r2, a1, nil
=============================================================================
