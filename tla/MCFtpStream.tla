------------------------------ MODULE MCFtpStream -----------------------------
(* The instance of FtpStream that TLC checks.                              *)
EXTENDS FtpStream
===============================================================================
