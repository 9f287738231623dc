---------------------------- MODULE MCWebsockets -----------------------------
(***************************************************************************)
(* An instance of Websockets for TLC.                                      *)
(***************************************************************************)
EXTENDS Websockets, TLC

CONSTANTS p1, p2

TwoPages == {p1, p2}
PagesAndBackground == {p1, p2, Background}

Setting(server, used, breakable, background, stops) ==
  [server |-> server, used |-> used, breakable |-> breakable,
   background |-> background, stops |-> stops]

\* Pages that leave and break while messages are pushed, also in a shutdown; pages
\* that answer each other, with the time or without.
FiveSettings ==
  { Setting("agent", {p1}, {p2}, 2, FALSE),
    Setting("agent", {p1}, {}, 1, TRUE),
    Setting("aio", {p1}, {p2}, 0, FALSE),
    Setting("aio", {p1}, {}, 1, FALSE),
    Setting("aio", {}, {p2}, 1, TRUE) }

TypedTexts == {"data", "close"}
\* Served by the server itself, or opened as a file.
ServedOrFile == {[hostname |-> "localhost", port |-> "8080"], [hostname |-> "", port |-> ""]}
ServerUri == [protocol |-> "ws", host |-> "localhost", port |-> "8080", path |-> "ws"]
=============================================================================
