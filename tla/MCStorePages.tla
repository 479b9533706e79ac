---- MODULE MCStorePages ----
(* Two items, two requests, two offers under decision and two notifications, so that an *)
(* answer can be about the other one; two calls waiting, so that they can be overtaken.  *)
EXTENDS StorePages

MCSlots == 1..3
MCKeys == {[offer |-> "o1", version |-> 1], [offer |-> "o1", version |-> 2],
           [offer |-> "o2", version |-> 0]}
MCUrls == {"u1", "u2"}
====
