----------------------------- MODULE MCForkedEnv -----------------------------
(* Instances of ForkedEnv.                                                 *)
EXTENDS ForkedEnv

CONSTANTS s1, s2

TwoSettings == <<s1, s2>>

Ask(ledger, time, protocol, mode) ==
    [ledger |-> ledger, time |-> time, protocol |-> protocol, mode |-> mode]

\* Nothing; or a ledger, a time and a protocol, the last more than the host has.
SomeConfigs == {Ask(Unpinned, Unpinned, Unpinned, "Lenient"), Ask(0, 0, 1, "Strict")}

\* Users write the first setting, under either key.
FirstSetting == {[setting |-> s1]}
AnyEntry     == LocalEntry
===============================================================================
