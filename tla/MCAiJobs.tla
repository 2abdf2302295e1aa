------------------------------ MODULE MCAiJobs ------------------------------
(* AiJobs with a few requests and jobs.                                    *)
EXTENDS AiJobs
=============================================================================
