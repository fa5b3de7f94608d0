----------------------------- MODULE MCControl -----------------------------
(* Instances of Control for TLC: bytes below 16 and payloads of one byte, so *)
(* that unsigned values reach 15 and signed ones go from -8 to 7.            *)
EXTENDS Control

Commands(op, values) == {<<op, v>> : v \in values}

\* For each operation the values that decide: at and past each limit; with limits 12
\* for unsigned and 3 for signed values, 12 is -4 and 13 is -3.
BoundaryFrames ==
    Commands(CMD_SET_FREQUENCY, {12, 13}) \cup Commands(CMD_SET_SAMPLE_RATE, {13})
    \cup Commands(CMD_SET_GAIN_MODE, {15})
    \cup Commands(CMD_SET_TUNER_GAIN, {4, 13}) \cup Commands(CMD_SET_PPM, {4, 12, 13})
    \cup Commands(CMD_SET_AGC, {1, 2}) \cup Commands(CMD_CHAIN_DETECT, {0})
    \cup Commands(0, {0})
=============================================================================
