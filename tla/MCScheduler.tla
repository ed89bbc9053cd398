------------------------------ MODULE MCScheduler ------------------------------
(* One schedule and two processes over the ends of a month of 30 days, of a  *)
(* year, and of a February with 29 days.                                     *)
EXTENDS Scheduler

MCMoments == {Moment(2023, 11, 30, OnTime),
              Moment(2023, 12, 31, Before), Moment(2023, 12, 31, OnTime), Moment(2023, 12, 31, After),
              Moment(2024, 1, 31, OnTime), Moment(2024, 2, 28, After), Moment(2024, 2, 29, OnTime)}
===============================================================================
