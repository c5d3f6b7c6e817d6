------------------------------ MODULE MCCodis ------------------------------
(* The programs of the three clients in the repository, with their strings *)
(* cut to a letter or two and the bucket so small that the last append is  *)
(* refused or not, as the order has it; and a program with a delete, an    *)
(* unknown command and a second bucket.                                    *)
EXTENDS Codis

MCPrograms == {
  <<client1_co_main, client2_co_main, client3_co_main>>,
  << <<Request("append", 0, <<"k", "l">>), Request("delete", 0, <<>>)>>,
     <<Request("append", 0, <<"x", "y">>), Request("read", 0, <<>>)>>,
     <<Request("unknown", 0, <<>>), Request("append", 1, <<"z">>)>> >> }

=============================================================================
