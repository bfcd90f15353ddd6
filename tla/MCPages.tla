------------------------------ MODULE MCPages ------------------------------
(***************************************************************************)
(* Two groups, grants with three ids; a calendar of three days, weeks of   *)
(* two, and a booking of days 1 and 3; two nodes, one with machines; two   *)
(* host devices; five unused volumes in pages of two; two names, one taken. *)
(***************************************************************************)
EXTENDS Pages

(* A story for each page, and the one where it has nothing to do.            *)
ClicksMC(l, c, g, s, d) ==
    [topic \in Topics |-> CASE topic = "ldap" -> l [] topic = "client" -> c [] topic = "groups" -> g
                            [] topic = "shares" -> s [] OTHER -> d]
AccessMC(clicks, hasty) == [clicks |-> clicks, hasty |-> hasty]
AccessStoriesMC == {
    AccessMC(ClicksMC(0, 0, 0, 0, 0), 0),
    AccessMC(ClicksMC(4, 0, 0, 0, 0), 0), AccessMC(ClicksMC(2, 0, 0, 0, 0), 1),
    AccessMC(ClicksMC(0, 4, 0, 0, 0), 0), AccessMC(ClicksMC(0, 3, 0, 0, 0), 1),
    AccessMC(ClicksMC(0, 0, 3, 0, 0), 0), AccessMC(ClicksMC(0, 0, 2, 0, 0), 1),
    AccessMC(ClicksMC(0, 0, 0, 4, 0), 0), AccessMC(ClicksMC(0, 0, 0, 2, 0), 1),
    AccessMC(ClicksMC(0, 0, 0, 0, 3), 0), AccessMC(ClicksMC(0, 0, 0, 0, 2), 1),
    AccessMC(ClicksMC(1, 1, 1, 0, 1), 0) }

FirstEntriesMC == {[id |-> i, booking |-> 1, day |-> 2 * i - 1, time |-> <<0, 1>>] : i \in {1, 2}}
BookingMC(o, t, s, m, x, c) ==
    [open |-> o, touch |-> t, save |-> s, modes |-> m, others |-> x, careful |-> c]
BookingStoriesMC == {
    BookingMC(0, 0, 0, {"current"}, 0, TRUE),
    BookingMC(2, 2, 2, {"current"}, 0, TRUE), BookingMC(1, 3, 1, {"current"}, 0, TRUE),
    BookingMC(1, 1, 2, Modes, 0, FALSE), BookingMC(1, 0, 1, Modes, 1, FALSE),
    BookingMC(1, 2, 1, {"current"}, 0, FALSE) }

AdminMC(page, c, o, p, q) == [page |-> page, clicks |-> c, others |-> o, patient |-> p, quick |-> q]
AdminStoriesMC == {
    AdminMC("new", 0, 0, TRUE, FALSE),
    AdminMC("nodes", 3, 0, TRUE, FALSE), AdminMC("nodes", 2, 0, FALSE, FALSE),
    AdminMC("node", 4, 3, TRUE, FALSE), AdminMC("node", 2, 1, FALSE, FALSE),
    AdminMC("devices", 2, 1, FALSE, FALSE), AdminMC("devices", 1, 1, FALSE, TRUE),
    AdminMC("storage", 3, 0, FALSE, FALSE), AdminMC("storage", 3, 1, FALSE, FALSE),
    AdminMC("new", 3, 0, TRUE, FALSE), AdminMC("new", 2, 1, FALSE, FALSE) }
=============================================================================
