---------------------------- MODULE Dw1000Tables ----------------------------
(***************************************************************************)
(* The constant tables of the range bias of two-way ranging and how the    *)
(* DW1000 driver indexes them.  The tables of the code start at index 0,   *)
(* the sequences here at 1.                                                *)
(***************************************************************************)
EXTENDS Integers, Sequences

\* Element i of a table.
At(table, i) == table[i + 1]

DWT_PRF_16M == 1
DWT_PRF_64M == 2

Channels == {1, 2, 3, 4, 5, 7}

-----------------------------------------------------------------------------
\* Ranges in units of 25 cm at which the bias grows by one more centimetre.
range25cm16PRFnb ==
  << <<1, 3, 4, 5, 7, 9, 11, 12, 13, 15, 18, 20, 23, 25, 28, 30, 33, 36, 40, 43,
       47, 50, 54, 58, 63, 66, 71, 76, 82, 89, 98, 109, 127, 155, 222, 255, 255>>,
     <<1, 2, 4, 5, 6, 8, 9, 10, 12, 13, 15, 18, 20, 22, 24, 27, 29, 32, 35, 38,
       41, 44, 47, 51, 55, 58, 62, 66, 71, 78, 85, 96, 111, 135, 194, 240, 255>>,
     <<1, 2, 3, 4, 5, 7, 8, 9, 10, 12, 14, 16, 18, 20, 22, 24, 26, 28, 31, 33,
       36, 39, 42, 45, 49, 52, 55, 59, 63, 69, 76, 85, 98, 120, 173, 213, 255>>,
     <<1, 1, 2, 3, 4, 5, 6, 6, 7, 8, 9, 11, 12, 14, 15, 16, 18, 20, 21, 23, 25,
       27, 29, 31, 34, 36, 38, 41, 44, 48, 53, 59, 68, 83, 120, 148, 255>> >>

range25cm16PRFwb ==
  << <<7, 7, 8, 9, 9, 10, 11, 11, 12, 13, 14, 15, 16, 17, 18, 19, 20, 21, 22, 23,
       24, 26, 27, 28, 30, 31, 32, 34, 36, 38, 40, 42, 44, 46, 48, 50, 52, 55,
       57, 59, 61, 63, 66, 68, 71, 74, 78, 81, 85, 89, 94, 99, 104, 110, 116,
       123, 130, 139, 150, 164, 182, 207, 238, 255, 255, 255, 255, 255>>,
     <<4, 5, 5, 5, 6, 6, 7, 7, 7, 8, 9, 9, 10, 10, 11, 11, 12, 13, 13, 14, 15,
       16, 17, 17, 18, 19, 20, 21, 22, 23, 25, 26, 27, 29, 30, 31, 32, 34, 35,
       36, 38, 39, 40, 42, 44, 46, 48, 50, 52, 55, 58, 61, 64, 68, 72, 75, 80,
       85, 92, 101, 112, 127, 147, 168, 182, 194, 205, 255>> >>

range25cm64PRFnb ==
  << <<1, 2, 2, 3, 4, 5, 7, 10, 13, 16, 19, 22, 24, 27, 30, 32, 35, 38, 43, 48,
       56, 78, 101, 120, 157, 255>>,
     <<1, 2, 2, 3, 4, 4, 6, 9, 12, 14, 17, 19, 21, 24, 26, 28, 31, 33, 37, 42,
       49, 68, 89, 105, 138, 255>>,
     <<1, 1, 2, 3, 3, 4, 5, 8, 10, 13, 15, 17, 19, 21, 23, 25, 27, 30, 33, 37,
       44, 60, 79, 93, 122, 255>>,
     <<1, 1, 1, 2, 2, 3, 4, 6, 7, 9, 10, 12, 13, 15, 16, 17, 19, 21, 23, 26, 30,
       42, 55, 65, 85, 255>> >>

range25cm64PRFwb ==
  << <<7, 8, 8, 9, 9, 10, 11, 12, 13, 13, 14, 15, 16, 16, 17, 18, 19, 19, 20, 21,
       22, 24, 25, 27, 28, 29, 30, 32, 33, 34, 35, 37, 39, 41, 43, 45, 48, 50,
       53, 56, 60, 64, 68, 74, 81, 89, 98, 109, 122, 136, 146, 154, 162, 178,
       220, 249, 255, 255, 255>>,
     <<4, 5, 5, 5, 6, 6, 7, 7, 8, 8, 9, 9, 10, 10, 10, 11, 11, 12, 13, 13, 14,
       15, 16, 16, 17, 18, 19, 19, 20, 21, 22, 23, 24, 25, 26, 28, 29, 31, 33,
       35, 37, 39, 42, 46, 50, 54, 60, 67, 75, 83, 90, 95, 100, 110, 135, 153,
       172, 192, 255>> >>
-----------------------------------------------------------------------------
\* Only the channels 1, 2, 3 and 5 are in the narrow band tables, 4 and 7 in
\* the wide band ones.
chan_idxnb == <<0, 0, 1, 2, 0, 3, 0, 0>>
chan_idxwb == <<0, 0, 0, 0, 0, 0, 0, 1>>

CM_OFFSET == [nb |-> <<-23, -17>>, wb |-> <<-28, -30>>]

WideBand(chan) == chan \in {4, 7}

\* The row in which dwt_getrangebias looks, and the bias at its first entry.
BiasRow(chan, prf) ==
    IF WideBand(chan)
    THEN At(IF prf = DWT_PRF_16M THEN range25cm16PRFwb ELSE range25cm64PRFwb,
            At(chan_idxwb, chan))
    ELSE At(IF prf = DWT_PRF_16M THEN range25cm16PRFnb ELSE range25cm64PRFnb,
            At(chan_idxnb, chan))

BiasOffset(chan, prf) ==
    LET offsets == IF WideBand(chan) THEN CM_OFFSET.wb ELSE CM_OFFSET.nb
    IN  IF prf = DWT_PRF_16M THEN offsets[1] ELSE offsets[2]
=============================================================================
