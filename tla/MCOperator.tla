------------------------------ MODULE MCOperator ------------------------------
(***************************************************************************)
(* Two meters; POST /api/settle names one or the other.                    *)
(***************************************************************************)
EXTENDS OperatorProps

OneMeter == {{m} : m \in MeterIds}

=============================================================================
