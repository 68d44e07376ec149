----------------------------- MODULE MCLighting -----------------------------
(* One lamp that users, modes and the schedule want differently and that    *)
(* announces itself, and one socket that VRMode and RLMode switch.          *)
EXTENDS LightingOnFile, TLC

CONSTANTS lamp, socket

MCTopics == {lamp, socket}
MCPayloads == {On, Off, Dim}
MCLamps == <<lamp>>
MCSockets == <<socket>>
MCAnnouncers == {lamp}

MCUserReplies == {VRMode, RLMode, ChangeLightState(Lamps, On)}
MCJobReplies == {ChangeLightState(Lamps, Off)}
============================================================================
