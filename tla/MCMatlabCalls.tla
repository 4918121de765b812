---------------------------- MODULE MCMatlabCalls ----------------------------
(* Arrays along one dimension, around the sizes floats can count, and of several *)
(* dimensions, one more than a header has; with blocks around what ints can     *)
(* count, of whole pixels, of less than one, and of one and a fraction.         *)
EXTENDS MatlabCalls

MCArrays == {<<n, 1>> : n \in 0 .. 20} \cup {<<1, n>> : n \in {2, 33}} \cup
            {<<n, m>> : n, m \in {3, 7, 12}} \cup
            {<<1, 1, 3>>, <<3, 2, 2>>, <<7, 5, 3>>, <<3, 1, 1, 2>>, <<3, 3, 3, 3>>, <<14, 24>>,
             <<41, 14>>, <<27, 21>>, <<3, 2, 1, 2, 3>>, <<3, 2, 1, 1, 2>>, <<1, 1, 1, 1, 2>>}

\* In pixels, and those that are not whole in halves.
Whole == {<<n>> : n \in 0 .. 17} \cup
         {<<2, 2>>, <<9, 9>>, <<12, 12>>, <<7, 12>>, <<41, 2>>, <<27, 3>>, <<3, 3, 1>>,
          <<1, 1, 1, 3>>, <<2, 0>>, <<3, 2, 1, 1, 0>>}
MCBlockSizes == {[ii \in DOMAIN b |-> 2 * b[ii]] : b \in Whole} \cup
                {<<1>>, <<3>>, <<35>>, <<5, 1>>}
MCOptimalSize == <<12, 12, 8, 1>>
==============================================================================
