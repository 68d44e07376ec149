---------------------------- MODULE MCStoreFile ----------------------------
(* Two processes, two topics: the main process and the child that is killed.*)
EXTENDS StoreFile, TLC

CONSTANTS Main, Child, lamp, socket, on

MCTopics == {lamp, socket}
MCPayloads == {on}
MCCallers == {Main, Child}
MCKillable == {Child}
============================================================================
